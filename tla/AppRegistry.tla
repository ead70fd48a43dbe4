----------------------------- MODULE AppRegistry -----------------------------
(***************************************************************************)
(* Application registration: GrpcService::register_app (src/grpc.rs) calls *)
(* AppManager::set_app (src/app_manager.rs), which builds the App, awaits  *)
(* get_app (a SELECT on the apps table) and bails if a row exists, and     *)
(* otherwise awaits an INSERT.  Requests are served concurrently by tonic. *)
(* The app_id is the hash of the verifying key of the compiled ELF, so one *)
(* ELF always gives one app_id: an ELF stands for its app_id here.  The    *)
(* schema of the apps table is not part of this repository; whether        *)
(* app_id is a key of it is the constant AppIdKey.                         *)
(***************************************************************************)
EXTENDS Naturals

CONSTANTS
    Apps,        \* app_ids (one per ELF)
    Registrants, \* concurrent register_app calls, one each
    AppIdKey     \* the apps table rejects a second row with an app_id

VARIABLES
    rows,   \* apps table: number of rows per app_id
    rpc,    \* per registrant: "idle", "get", "insert", "ok", "exists", "err"
    elf     \* per registrant: the app its ELF compiles to

vars == <<rows, rpc, elf>>

Init ==
    /\ rows = [a \in Apps |-> 0]
    /\ rpc = [r \in Registrants |-> "idle"]
    /\ elf \in [Registrants -> Apps]

-----------------------------------------------------------------------------
(* register_app -> set_app: App::new compiles the ELF and derives app_id;  *)
(* then get_app(app_id) is awaited.                                        *)
RegisterStart(r) ==
    /\ rpc[r] = "idle"
    /\ rpc' = [rpc EXCEPT ![r] = "get"]
    /\ UNCHANGED <<rows, elf>>

(* get_app returned: Some(_) bails with "app already exists". *)
RegisterGet(r) ==
    /\ rpc[r] = "get"
    /\ rpc' = [rpc EXCEPT ![r] = IF rows[elf[r]] > 0 THEN "exists" ELSE "insert"]
    /\ UNCHANGED <<rows, elf>>

(* INSERT INTO apps: with app_id a key, a row inserted since the SELECT    *)
(* makes it fail and the ? returns the database error.                     *)
RegisterInsert(r) ==
    /\ rpc[r] = "insert"
    /\ IF AppIdKey /\ rows[elf[r]] > 0
       THEN /\ rpc' = [rpc EXCEPT ![r] = "err"]
            /\ UNCHANGED rows
       ELSE /\ rows' = [rows EXCEPT ![elf[r]] = @ + 1]
            /\ rpc' = [rpc EXCEPT ![r] = "ok"]
    /\ UNCHANGED elf

Next == \E r \in Registrants :
          RegisterStart(r) \/ RegisterGet(r) \/ RegisterInsert(r)

Spec == Init /\ [][Next]_vars /\ \A r \in Registrants :
          WF_vars(RegisterGet(r) \/ RegisterInsert(r))

-----------------------------------------------------------------------------
(* Every variable holds a value of its type. *)
TypeOK ==
    /\ rows \in [Apps -> Nat]
    /\ rpc \in [Registrants -> {"idle", "get", "insert", "ok", "exists", "err"}]
    /\ elf \in [Registrants -> Apps]

(* set_app's bail: a registration of an app that exists is answered "app   *)
(* already exists", never with a database error.                           *)
DuplicateAnsweredExists == \A r \in Registrants : rpc[r] # "err"
=============================================================================
