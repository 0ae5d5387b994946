------------------------------ MODULE HotCache ------------------------------
(***************************************************************************)
(* What pkg/hotcache promises its callers, the pipeline first of all.  An  *)
(* entry put as NonEvictable ("protected") is given up only by a call for  *)
(* its own blob; while the cache makes room for a Put, or trims itself     *)
(* after a restart, it gives up evictable entries of other blobs only.     *)
(***************************************************************************)
CONSTANT Blobs

VARIABLES
    entries,    \* what the cache holds for a blob, to those who call it next
    call        \* the Put that is running, or the warm-up

Kinds == {"protected", "evictable"}
NoCall == [does |-> "nothing"]
Warming == [does |-> "warm"]
Puts == [does : {"put"}, blob : Blobs, new : Kinds]

Init ==
    /\ entries = [b \in Blobs |-> "absent"]
    /\ call = NoCall

Begin(b, kind) ==
    /\ call = NoCall
    /\ call' = [does |-> "put", blob |-> b, new |-> kind]
    /\ UNCHANGED entries

MakeRoom(b) ==
    /\ call # NoCall
    /\ entries[b] = "evictable"
    /\ call \in Puts => b # call.blob
    /\ entries' = [entries EXCEPT ![b] = "absent"]
    /\ UNCHANGED call

\* The Put returns: its entry is in place, or the Put failed and there is none.
Return ==
    /\ call \in Puts
    /\ \E kind \in {call.new, "absent"} : entries' = [entries EXCEPT ![call.blob] = kind]
    /\ call' = NoCall

\* Evict, and a Get that cannot read the body.
Drop(b) ==
    /\ call = NoCall
    /\ entries' = [entries EXCEPT ![b] = "absent"]
    /\ UNCHANGED call

Warmed ==
    /\ call = Warming
    /\ call' = NoCall
    /\ UNCHANGED entries

\* A restart keeps every entry but the one a running Put was replacing.
Restart ==
    /\ \/ call \in Puts /\ \E kind \in {call.new, "absent"} :
                              entries' = [entries EXCEPT ![call.blob] = kind]
       \/ call \notin Puts /\ UNCHANGED entries
    /\ call' \in {NoCall, Warming}

Next ==
    \/ \E b \in Blobs : MakeRoom(b) \/ Drop(b) \/ (\E kind \in Kinds : Begin(b, kind))
    \/ Return \/ Warmed \/ Restart

vars == <<entries, call>>
Spec == Init /\ [][Next]_vars

=============================================================================
