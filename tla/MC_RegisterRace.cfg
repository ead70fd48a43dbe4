\* Two concurrent registrations of one app; app_id is a key of the table.
CONSTANTS
    a1 = a1
    a2 = a2
    r1 = r1
    r2 = r2
    r3 = r3
    Apps <- MCOneApp
    Registrants <- MCRegistrants
    AppIdKey = TRUE
SPECIFICATION Spec
INVARIANT DuplicateAnsweredExists
CHECK_DEADLOCK FALSE
