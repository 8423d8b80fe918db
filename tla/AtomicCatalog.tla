---------------------------- MODULE AtomicCatalog ----------------------------
(***************************************************************************)
(* What the flat store promises of its catalog, without copies, gates or   *)
(* card commands: the catalog is one durable value that a commit replaces  *)
(* in one step.  A commit that was answered is durable; one that was not   *)
(* answered is found by the next mount either whole or not at all.         *)
(***************************************************************************)
EXTENDS Integers

CONSTANTS
    Keys,      \* the <<ObjectId, Revision>> pairs
    None,      \* no entry; no view; nothing pending
    Empty      \* the catalog of a card that was just initialized

VARIABLES
    truth,     \* the catalog the card holds
    view,      \* the catalog a mounted store serves, or None
    pending    \* the catalog of a commit without an answer, or None

catalogVars == <<truth, view, pending>>

Live(c) == {k \in Keys : c.entries[k] # None}

\* What one commit may do to the catalog: the sequence grows, the id cursor never
\* rewinds, a created object takes an id at or beyond the cursor, and the bytes a
\* published key names never change unless the key was a ride being recorded.
Follows(old, new) ==
    /\ new.sequence > old.sequence
    /\ new.next >= old.next
    /\ \A k \in Live(new) :
         /\ k[1] < new.next
         /\ (\A l \in Live(old) : l[1] # k[1]) => k[1] >= old.next
         /\ k \in Live(old) => \/ old.entries[k].content = new.entries[k].content
                               \/ old.entries[k].flag = "recording"

Init == truth = Empty /\ view = None /\ pending = None

Mount == view = None /\ pending = None /\ view' = truth /\ UNCHANGED <<truth, pending>>

Submit == /\ view # None /\ pending = None
          /\ pending' # None /\ Follows(view, pending')
          /\ UNCHANGED <<truth, view>>

Refuse == pending # None /\ view # None /\ pending' = None /\ UNCHANGED <<truth, view>>

\* The commit is answered: it is durable and served from the same moment on.
Answer == /\ pending # None /\ view # None
          /\ truth' = pending /\ view' = pending /\ pending' = None

\* No answer: the store stops serving, and the commit is durable or not.
Fence == /\ pending # None /\ view # None
         /\ truth' \in {truth, pending} /\ view' = None /\ UNCHANGED pending

\* Power goes away; what was pending is decided by now.
PowerCycle == /\ truth' \in {truth} \cup {c \in {pending} : c # None}
              /\ view' = None /\ pending' = None

Next == Mount \/ Submit \/ Refuse \/ Answer \/ Fence \/ PowerCycle

Spec == Init /\ [][Next]_catalogVars
=============================================================================
