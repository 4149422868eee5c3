---------------------------- MODULE MCNodeBinding ----------------------------
(* NodeBinding on small instances for TLC. *)
EXTENDS NodeBinding

CONSTANTS x, y

AllProviders == {"anonymous", "memory", "file"}

OnUri == [kind : {"open"}, arg : BOOLEAN] \cup [kind : {"create", "openOrCreate", "destroy"}, arg : {TRUE}]
OnHandle == [kind : {"insert"}, arg : {x, y}] \cup [kind : {"delete"}, arg : {x, y}]
              \cup [kind : {"build"}, arg : {<< >>, <<y>>, <<x, x>>}] \cup [kind : {"search"}, arg : {TRUE}]

MCBuiltOver == <<x>>

\* Each provider gets the calls that can tell it from the others: two indexes
\* side by side, online writes against searches and overlapping handles, and
\* the races of factories and destroys over one directory.
MCCalls ==
  [p \in Providers |->
     CASE p = "anonymous" -> {c \in OnUri : c.arg} \cup {c \in OnHandle : c.kind \in {"build", "insert"}}
       [] p = "memory" -> OnUri \cup {c \in OnHandle : c.kind = "search" \/ (c.kind # "build" /\ c.arg = y)}
       [] p = "file" -> OnUri \cup {c \in OnHandle : c.kind = "insert" /\ c.arg = y}]

==============================================================================
