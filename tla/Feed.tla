---------------------------------- MODULE Feed ----------------------------------
(* What the execution timeline promises a page, whatever the hub, the network *)
(* and the mailboxes lose on the way: a reader is shown the events in order,  *)
(* and of those it is not shown it is told, before it is shown a later one.   *)
(* A page that connects again is read on from where it was.                   *)
EXTENDS Integers

CONSTANTS Readers, Last     \* events 0 .. Last

VARIABLES accepted,   \* the events the feed has taken and not forgotten
          reader,     \* per reader [open, start, shown, told]
          position    \* the last event that reached the page, -1 before the first

Events == 0 .. Last
Absent == [open |-> FALSE, start |-> -1, shown |-> {}, told |-> {}]
Reading(start, shown, told) ==
  [open |-> TRUE, start |-> start, shown |-> shown, told |-> told]
feedVars == <<accepted, reader, position>>

Init == accepted = {} /\ reader = [k \in Readers |-> Absent] /\ position = -1

Accept(s) ==
  /\ \A a \in accepted : a < s
  /\ accepted' = accepted \cup {s}
  /\ UNCHANGED <<reader, position>>

\* The feed starts anew, and nobody reads it.
Forget ==
  /\ accepted' = {} /\ reader' = [k \in Readers |-> Absent]
  /\ UNCHANGED position

\* A page that has read something goes on behind it.
Open(k, start) ==
  /\ ~reader[k].open
  /\ position # -1 => start = position
  /\ reader' = [reader EXCEPT ![k] = Reading(start, {}, {})]
  /\ UNCHANGED <<accepted, position>>

Leave(k) ==
  /\ reader' = [reader EXCEPT ![k] = Absent]
  /\ UNCHANGED <<accepted, position>>

\* s comes after all that r knows of, and r knows all that lies between.
Follows(s, r) ==
  /\ \A x \in r.shown \cup r.told : x < s
  /\ \A a \in accepted : r.start < a /\ a < s => a \in r.shown \cup r.told

Having(r, s) == IF s = Last THEN Absent ELSE Reading(r.start, r.shown \cup {s}, r.told)
Told(r, from, to) == Reading(r.start, r.shown, r.told \cup (from .. to))

\* An event is shown; the last one ends the reading.
Show(k, s) ==
  /\ reader[k].open /\ s \in accepted /\ Follows(s, reader[k])
  /\ reader' = [reader EXCEPT ![k] = Having(@, s)]
  /\ position' = position \/ (s > position /\ position' = s)
  /\ UNCHANGED accepted

\* A range of events is named that the reader will not be shown.
Tell(k, from, to) ==
  /\ reader[k].open /\ Follows(from, reader[k])
  /\ reader' = [reader EXCEPT ![k] = Told(@, from, to)]
  /\ UNCHANGED <<accepted, position>>

Next ==
  \/ Forget
  \/ \E s \in Events : Accept(s)
  \/ \E k \in Readers :
       \/ Leave(k) \/ \E s \in Events \cup {-1} : Open(k, s)
       \/ \E s \in Events : Show(k, s) \/ \E t \in Events : Tell(k, s, t)

Spec == Init /\ [][Next]_feedVars
=============================================================================
