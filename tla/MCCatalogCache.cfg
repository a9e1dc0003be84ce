\* A cold cache, one member of staff who edits, two readers.
CONSTANTS
    Readers = {r1, r2}
    Writers = {w1}
    FirstVersion = 0
    MaxChanges = 3
SPECIFICATION TimedSpec
INVARIANTS
    CacheTypeOK
    AnswersAreFresh
PROPERTIES
    StaleEntriesDie
