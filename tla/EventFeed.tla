------------------------------ MODULE EventFeed ------------------------------
(***************************************************************************)
(* What the live stream promises, with no broker in it: edges are appended *)
(* to a log in the order they become visible, and the feed sends every one *)
(* of them, sooner or later.  It may leave one out in two cases only: the  *)
(* edge became visible after one with a higher id, or the process that     *)
(* sends was restarted.  Module EventStream is shown to implement this.    *)
(* (catalogue.event_log, catalogue_control/broker.py)                      *)
(***************************************************************************)
EXTENDS Naturals, SequencesExt

CONSTANT Ids   \* a finite set of natural numbers: event_log.event_id

VARIABLES
  log,    \* visible edges, in the order they became visible
  sent,   \* edges that were sent
  gone    \* edges that never will be

feed == <<log, sent, gone>>

Visible == ToSet(log)

\* Edge i became visible after an edge with a higher id.
Overtaken(i) == \E m, n \in DOMAIN log : m < n /\ log[n] = i /\ log[m] > i

FeedInit == log = <<>> /\ sent = {} /\ gone = {}

\* An edge becomes visible; below one the feed is past already, it is not sent.
Add ==
  \E i \in Ids \ Visible :
    /\ log' = Append(log, i)
    /\ gone' = gone \/ (gone' = gone \union {i} /\ \E j \in Visible : j > i)
    /\ UNCHANGED sent

\* Some edges are sent and passed over are only overtaken ones.
Send ==
  /\ sent \subseteq sent' /\ sent' \subseteq Visible
  /\ gone \subseteq gone'
  /\ \A i \in gone' \ gone : i \in Visible \ sent' /\ Overtaken(i)
  /\ UNCHANGED log

\* The sender restarts after the last visible edge.
Restart == gone' = Visible \ sent /\ UNCHANGED <<log, sent>>

FeedNext == Add \/ Send \/ Restart

\* Ids are finite in number, so this says of each edge that it is sent or gone in
\* the end.
EveryEdgeSettles == []<>(Visible \subseteq sent \union gone)

FeedSpec == FeedInit /\ [][FeedNext]_feed /\ EveryEdgeSettles
=============================================================================
