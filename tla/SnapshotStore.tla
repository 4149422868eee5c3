---------------------------- MODULE SnapshotStore ----------------------------
(***************************************************************************)
(* What a storage backend promises the index that sits on it: a single     *)
(* current contents that writers replace atomically, and read views that   *)
(* never change under the reader who pinned them.  A backend may drop a    *)
(* view, and then says so, but only one that a later publish superseded.   *)
(* Staging, freezing and garbage collection are not visible here at all.   *)
(***************************************************************************)
EXTENDS Integers

CONSTANTS
  Readers,    \* the actors that pin views
  Contents,   \* everything a view can say about the nodes
  Expired     \* what a dropped view says, unlike any contents

VARIABLES
  version,    \* the version of the current contents
  contents,   \* the current contents
  views       \* views[r]: the version r pinned and what r reads through it

abstractVars == <<version, contents, views>>

Init ==
  /\ version = 0
  /\ contents \in Contents
  /\ views = [r \in Readers |-> [version |-> version, reads |-> contents]]

\* A writer makes new contents current.
Publish ==
  /\ version' = version + 1
  /\ contents' \in Contents
  /\ UNCHANGED views

\* A reader takes the current contents as its view.
Pin(r) ==
  /\ views' = [views EXCEPT ![r] = [version |-> version, reads |-> contents]]
  /\ UNCHANGED <<version, contents>>

\* The backend drops the views of some readers, all of them superseded.
Expire(S) ==
  /\ \A r \in S : views[r].version < version
  /\ views' = [r \in Readers |->
                 IF r \in S THEN [views[r] EXCEPT !.reads = Expired] ELSE views[r]]
  /\ UNCHANGED <<version, contents>>

Next ==
  \/ Publish
  \/ \E r \in Readers : Pin(r)
  \/ \E S \in SUBSET Readers : Expire(S)

Spec == Init /\ [][Next]_abstractVars

==============================================================================
