-------------------------- MODULE VersionedStore --------------------------
(* What a versioned BlobStore promises: a key has immutable versions and    *)
(* delete markers, the latest on top.  A write or a delete adds one on top  *)
(* and touches nothing else; versions leave one at a time; a version's      *)
(* retention only grows, except for an explicit clear that compliance mode  *)
(* refuses; a legal hold changes by itself.  Failed calls and crashes show  *)
(* nothing.                                                                 *)
EXTENDS Naturals

CONSTANTS
    Keys,
    Contents,      \* what a version may hold
    Retentions     \* records of mode, until (0: no date) and hold

VARIABLE versions  \* what can be read; a higher ID is later

Versions ==
    [key : Keys, id : Nat, marker : BOOLEAN, content : Contents, retention : Retentions]

Init == versions = {}

\* A new version, or a delete marker over existing ones, on top of its key's.
Push(v) ==
    /\ v \in Versions
    /\ \A w \in versions : w.key = v.key => w.id < v.id
    /\ v.marker => \E w \in versions : w.key = v.key
    /\ versions' = versions \cup {v}

Drop(v) == versions' = versions \ {v}

\* The three changes of retention the interface allows.
Extends(old, new) ==
    /\ new.until >= old.until /\ new.hold = old.hold
    /\ old.mode = "COMPLIANCE" => new.mode = "COMPLIANCE"
    /\ new.mode = "NONE" => old.mode = "NONE"
Clears(old, new) == old.mode # "COMPLIANCE" /\ new.mode = "NONE" /\ new.until = 0
Holds(old, new) == new = [old EXCEPT !.hold = ~@]

\* v becomes w.
Retain(v, w) ==
    LET old == v.retention
        new == w.retention
    IN  /\ new \in Retentions
        /\ w = [v EXCEPT !.retention = new]
        /\ Extends(old, new) \/ Clears(old, new) \/ Holds(old, new)
        /\ versions' = (versions \ {v}) \cup {w}

Next ==
    LET came == versions' \ versions
        gone == versions \ versions'
    IN  \/ \E w \in came : Push(w) \/ \E v \in gone : Retain(v, w)
        \/ \E v \in gone : Drop(v)

Spec == Init /\ [][Next]_versions

=============================================================================
