----------------------------- MODULE EventStream -----------------------------
(***************************************************************************)
(* Notifications, the event log, and the stream that shows them live.      *)
(*                                                                         *)
(* Writers change catalogue.notifications and append edges to              *)
(* catalogue.event_log.  An edge draws its id when it is inserted and      *)
(* becomes visible when its transaction commits.  The control process runs *)
(* two tasks that read above a watermark and publish to the subscribers,   *)
(* whose bounded queues a browser drains; a browser that reconnects gets a *)
(* snapshot and what it missed.  (ops/events.py, ops/monitor.py,           *)
(* catalogue_control/broker.py, app.py stream, queries.py bootstrap,       *)
(* catalogue-explorer stream.svelte.ts)                                    *)
(*                                                                         *)
(* One condition (dedup_key) is followed; "plain" edges stand for those of *)
(* jobs, runs and workers, which the browser only uses to refetch.  Levels *)
(* (progress, roster) carry no id and replace each other: left out.        *)
(***************************************************************************)
EXTENDS Integers, FiniteSets, SequencesExt

CONSTANTS
  BUFFER_SIZE, MAX_REPLAY, QUEUE_LIMIT,
  DrainLimit,      \* rows one drain reads
  Tasks,           \* broker tasks that drain: _listen and _reconcile
  MaxId,           \* bound: edges
  MaxPlain,        \* bound: edges that are not about notifications
  MaxNotes,        \* bound: notifications
  MaxFaults,       \* bound: failed transactions and reads, restarts, dropped connections
  Null

ASSUME SizesArePos == {BUFFER_SIZE, QUEUE_LIMIT, MAX_REPLAY, DrainLimit} \subseteq Nat \ {0}
ASSUME BoundsAreNat == {MaxId, MaxPlain, MaxNotes, MaxFaults} \subseteq Nat
ASSUME NullIsNoId == Null \notin Int

Ids   == 1..MaxId
Notes == 1..MaxNotes
Resync == MaxId + 1  \* stands for the control message of that name, which has no id

VARIABLES
  note,      \* catalogue.notifications: absent, or its two flags
  edge,      \* what the edge with an id says
  drawn,     \* the sequence of catalogue.event_log
  flying,    \* transactions that inserted an edge and have not committed
  acks,      \* acknowledged rows whose edge is not inserted yet
  log,       \* catalogue.event_log in the order of visibility
  watermark, buffer,
  rows,      \* rows a task has read and not published
  pub,       \* history: ids published since the log began
  client,    \* the browser and its connection
  shown,     \* OpsStream.notifications
  faults,
  slips      \* history: "order", an older edge was published after a newer one;
             \* "view", another of the marked steps let the view go wrong

db     == <<note, edge, drawn, flying, acks, log>>
broker == <<watermark, buffer, rows, pub>>
vars   == <<note, edge, drawn, flying, acks, log, watermark, buffer, rows, pub,
            client, shown, faults, slips>>

Absent == [row |-> FALSE, ack |-> FALSE, resolved |-> FALSE]
Note   == [row : BOOLEAN, ack : BOOLEAN, resolved : BOOLEAN]
Edge   == [kind : {"none", "plain", "raised", "resolved", "acknowledged"}, note : 0..MaxNotes]
Txn    == [id : Ids, touch : SUBSET Notes]

Untouched(n) == note[n].row /\ ~note[n].ack /\ ~note[n].resolved
Unresolved   == {n \in Notes : note[n].row /\ ~note[n].resolved}
Open         == {n \in Notes : Untouched(n)}
Locked       == UNION {t.touch : t \in flying}
Visible      == ToSet(log)

\* Edges that no task has sent, holds, or will read: they are at or below the
\* watermark.
Gone == {i \in Visible : i <= watermark} \ (pub \union UNION {ToSet(rows[t]) : t \in Tasks})

\* The step leaves an edge behind for good.
LeftBehind == IF Gone' \subseteq Gone THEN {} ELSE {"view"}

Offline == [phase |-> "off", last |-> Null, queue |-> <<>>, resync |-> FALSE,
            replay |-> <<>>, owed |-> {}]

Init ==
  /\ note = [n \in Notes |-> Absent]
  /\ edge = [i \in Ids |-> [kind |-> "none", note |-> 0]]
  /\ drawn = 0 /\ flying = {} /\ acks = {} /\ log = <<>>
  /\ watermark = 0 /\ buffer = <<>> /\ rows = [t \in Tasks |-> <<>>] /\ pub = {}
  /\ client \in {Offline, [Offline EXCEPT !.last = 0]}  \* 0: the edge before the first
  /\ shown = {}
  /\ faults = 0 /\ slips = {}

-----------------------------------------------------------------------------
(* events.py *)

\* emit: nextval and the insert; the row is visible when the transaction ends.
Emit(kind, n, touch) ==
  /\ drawn < MaxId
  /\ drawn' = drawn + 1
  /\ edge' = [edge EXCEPT ![drawn + 1] = [kind |-> kind, note |-> n]]
  /\ flying' = flying \union {[id |-> drawn + 1, touch |-> touch]}

\* An edge of a job, a run, a worker or a source.
EmitPlain ==
  /\ Cardinality({i \in Ids : edge[i].kind = "plain"}) < MaxPlain
  /\ Emit("plain", 0, {})
  /\ UNCHANGED <<note, acks, log, broker, client, shown, faults, slips>>

\* RAISE_NOTIFICATION: no row of the condition is open and untouched.
MayRaise(n) == ~note[n].row /\ \A m \in Notes : ~Untouched(m)

\* notify, in the leader's transaction.  The unique index makes a second insert
\* of the key wait for a transaction that touches it.
Raise ==
  /\ \E n \in Notes :
       /\ \A m \in 1..n-1 : note[m].row
       /\ MayRaise(n) /\ Locked = {}
       /\ Emit("raised", n, {n})
  /\ UNCHANGED <<note, acks, log, broker, client, shown, faults, slips>>

\* resolve: every unresolved row of the key, and one edge, of the first of them.
Resolve ==
  /\ Unresolved # {} /\ Locked = {}
  /\ \E n \in Unresolved : Emit("resolved", n, Unresolved)
  /\ slips' = IF Cardinality(Unresolved) > 1 THEN slips \union {"view"} ELSE slips
  /\ UNCHANGED <<note, acks, log, broker, client, shown, faults>>

\* The transaction of edge t commits, with what it did to notifications.
Effect(t, n) ==
  IF n \notin t.touch THEN note[n]
  ELSE IF edge[t.id].kind = "raised" THEN [note[n] EXCEPT !.row = TRUE]
       ELSE [note[n] EXCEPT !.resolved = TRUE]

Commit ==
  /\ \E t \in flying :
       /\ flying' = flying \ {t}
       /\ log' = Append(log, t.id)
       /\ note' = [n \in Notes |-> Effect(t, n)]
  /\ UNCHANGED <<edge, drawn, acks, broker, client, shown, faults>>
  /\ slips' = slips \union LeftBehind

\* The transaction rolls back: the id is spent, the row never appears.
RollBack ==
  /\ faults < MaxFaults /\ faults' = faults + 1
  /\ \E t \in flying : flying' = flying \ {t}
  /\ UNCHANGED <<note, edge, drawn, acks, log, broker, client, shown, slips>>

\* acknowledge and acknowledge_many, in autocommit: the rows first ...
Acknowledge ==
  /\ \E n \in Notes \ Locked :
       /\ note[n].row /\ ~note[n].ack
       /\ note' = [note EXCEPT ![n].ack = TRUE]
       /\ acks' = acks \union {n}
  /\ UNCHANGED <<edge, drawn, flying, log, broker, client, shown, faults, slips>>

\* ... then an edge each, a transaction of its own, or none if that fails.
EmitAck ==
  /\ drawn < MaxId
  /\ \E n \in acks :
       /\ acks' = acks \ {n}
       /\ edge' = [edge EXCEPT ![drawn + 1] = [kind |-> "acknowledged", note |-> n]]
  /\ drawn' = drawn + 1
  /\ log' = Append(log, drawn + 1)
  /\ UNCHANGED <<note, flying, broker, client, shown, faults, slips>>

LoseAck ==
  /\ faults < MaxFaults /\ faults' = faults + 1
  /\ \E n \in acks : acks' = acks \ {n}
  /\ slips' = slips \union {"view"}
  /\ UNCHANGED <<note, edge, drawn, flying, log, broker, client, shown>>

-----------------------------------------------------------------------------
(* broker.py *)

First(s, n) == SubSeq(s, 1, IF Len(s) < n THEN Len(s) ELSE n)

\* Subscriber.offer of the messages s: what does not fit is dropped, and the
\* connection is to end.
Offered(c, s) ==
  [c EXCEPT !.queue = First(@ \o s, QUEUE_LIMIT),
            !.resync = @ \/ Len(c.queue \o s) > QUEUE_LIMIT]

Subscribed(c) == c.phase \in {"replay", "live"}

\* The numbers of a finite set from the lowest to the highest.
Ascending(S) ==
  CHOOSE s \in [1..Cardinality(S) -> S] :
    ToSet(s) = S /\ \A m, n \in 1..Cardinality(S) : m < n => s[m] < s[n]

\* _drain_events, first half: what is above the watermark, in the order of ids.
Above(low, limit) == First(Ascending({i \in Visible : i > low}), limit)

\* Fault: the watermark moves when the rows are read, not when they are sent.
ReadMovesWatermark(t) ==
  /\ rows[t] = <<>>
  /\ Above(watermark, DrainLimit) # <<>>
  /\ rows' = [rows EXCEPT ![t] = Above(watermark, DrainLimit)]
  /\ watermark' = Last(Above(watermark, DrainLimit))
  /\ UNCHANGED <<db, buffer, pub, client, shown, faults, slips>>

Read(t) ==
  /\ rows[t] = <<>>
  /\ Above(watermark, DrainLimit) # <<>>
  /\ rows' = [rows EXCEPT ![t] = Above(watermark, DrainLimit)]
  /\ UNCHANGED <<db, watermark, buffer, pub, client, shown, faults, slips>>

\* The connection fails before the rows are used; the task goes on.
ReadFails(t) ==
  /\ faults < MaxFaults /\ faults' = faults + 1
  /\ rows[t] # <<>>
  /\ rows' = [rows EXCEPT ![t] = <<>>]
  /\ UNCHANGED <<db, watermark, buffer, pub, client, shown>>
  /\ slips' = slips \union LeftBehind

RaisedTo(t) == IF Last(rows[t]) > watermark THEN Last(rows[t]) ELSE watermark

Latest(s, n) == SubSeq(s, IF Len(s) > n THEN Len(s) - n + 1 ELSE 1, Len(s))

\* Second half, one step of the event loop: publish each row.
Publish(t) ==
  /\ rows[t] # <<>>
  /\ rows' = [rows EXCEPT ![t] = <<>>]
  /\ watermark' = RaisedTo(t)
  /\ buffer' = Latest(buffer \o rows[t], BUFFER_SIZE)
  /\ pub' = pub \union ToSet(rows[t])
  /\ client' = [IF Subscribed(client) THEN Offered(client, rows[t]) ELSE client
                  EXCEPT !.owed = IF client.phase = "off" THEN {} ELSE @ \union ToSet(rows[t])]
  /\ UNCHANGED <<db, shown, faults>>
  /\ slips' = slips \union LeftBehind
       \union (IF \E q \in pub \ ToSet(rows[t]), r \in ToSet(rows[t]) : q > r
               THEN {"order"} ELSE {})

\* The process ends and start() runs again: tasks, buffer and subscribers are gone.
RestartBroker ==
  /\ faults < MaxFaults /\ faults' = faults + 1
  /\ watermark' = IF Visible = {} THEN 0 ELSE CHOOSE i \in Visible : \A j \in Visible : j <= i
  /\ buffer' = <<>> /\ rows' = [t \in Tasks |-> <<>>]
  /\ client' = [Offline EXCEPT !.last = client.last]
  /\ UNCHANGED <<db, pub, shown, slips>>

-----------------------------------------------------------------------------
(* app.py stream and the browser *)

\* The browser connects; body() reads the snapshot and sends it.
Bootstrap ==
  /\ client.phase = "off"
  /\ shown' = Open
  /\ client' = [Offline EXCEPT !.phase = "boot", !.last = client.last]
  /\ UNCHANGED <<db, broker, faults, slips>>

TooFarBehind(last) == watermark - last > MAX_REPLAY

Oldest == CHOOSE i \in ToSet(buffer) : \A j \in ToSet(buffer) : i <= j

\* Fault: the buffer is used however old its oldest message is.
CoversAny(last) == buffer # <<>> /\ \E i \in ToSet(buffer) : i > last

\* replay: the buffer reaches back far enough.
BufferCovers(last) ==
  /\ buffer # <<>>
  /\ \E i \in ToSet(buffer) : i > last
  /\ Oldest <= last + 1

\* What the buffer holds above an id, in the order of the buffer.
BufferAbove(low) ==
  LET at == Ascending({k \in DOMAIN buffer : buffer[k] > low})
  IN [k \in DOMAIN at |-> buffer[at[k]]]

\* subscribe: the subscriber is known to the broker from here on.
Joined == [client EXCEPT !.phase = "live", !.owed = {}]

\* Something was published after the snapshot, and no replay from above low will
\* bring it.
WindowSlip(low) == IF \E i \in client.owed : i <= low THEN {"view"} ELSE {}

\* History: what a browser that has seen edges up to last must still get.
Owed(last) == {i \in pub : i > last}

Subscribe ==
  /\ client.phase = "boot"
  /\ \/ /\ client.last = Null
        /\ client' = Joined
        /\ slips' = slips \union WindowSlip(MaxId)
     \/ /\ client.last # Null /\ TooFarBehind(client.last)
        /\ client' = Offered(Joined, <<Resync>>)
        /\ slips' = slips \union WindowSlip(MaxId)
     \/ /\ client.last # Null /\ ~TooFarBehind(client.last)
        /\ BufferCovers(client.last)
        /\ client' = [Offered(Joined, BufferAbove(client.last))
                        EXCEPT !.owed = Owed(client.last)]
        /\ slips' = slips \union WindowSlip(client.last)
     \/ /\ client.last # Null /\ ~TooFarBehind(client.last)
        /\ ~BufferCovers(client.last)
        /\ client' = [Joined EXCEPT !.phase = "replay", !.replay = Above(client.last, MAX_REPLAY),
                                    !.owed = Owed(client.last)]
        /\ slips' = slips \union WindowSlip(client.last)
  /\ UNCHANGED <<db, broker, shown, faults>>

\* The rows of the table come back: whatever was published meanwhile is ahead.
Replay ==
  /\ client.phase = "replay"
  /\ \/ /\ client' = [Offered(client, client.replay) EXCEPT
                        !.phase = "live", !.replay = <<>>]
        /\ slips' = IF \E q \in ToSet(client.queue) \ ToSet(client.replay),
                          r \in ToSet(client.replay) : q > r
                    THEN slips \union {"view"} ELSE slips
     \/ /\ client' = [Offered(client, <<Resync>>) EXCEPT
                        !.phase = "live", !.replay = <<>>, !.owed = ToSet(client.queue)]
        /\ slips' = slips \union {"view"}
  /\ UNCHANGED <<db, broker, shown, faults>>

\* Fault: an acknowledgement by somebody else is ignored.
ShownAfterOwn(m) ==
  IF m = Resync THEN shown
  ELSE CASE edge[m].kind = "raised" -> shown \union {edge[m].note}
         [] edge[m].kind = "resolved" -> shown \ {edge[m].note}
         [] OTHER -> shown

\* The browser's listeners: what a message does to the list.
ShownAfter(m) ==
  IF m = Resync THEN shown
  ELSE CASE edge[m].kind = "raised" -> shown \union {edge[m].note}
         [] edge[m].kind \in {"resolved", "acknowledged"} -> shown \ {edge[m].note}
         [] OTHER -> shown

\* One message is sent; after an overflow the stream ends and EventSource will
\* reconnect with Last-Event-ID.
Deliver ==
  /\ client.phase = "live" /\ client.queue # <<>>
  /\ LET m    == Head(client.queue)
         last == IF m = Resync THEN client.last ELSE m
     IN /\ shown' = ShownAfter(m)
        /\ client' = IF client.resync THEN [Offline EXCEPT !.last = last]
                     ELSE [client EXCEPT !.last = last, !.queue = Tail(@), !.owed = @ \ {m}]
  /\ UNCHANGED <<db, broker, faults, slips>>

\* The network ends the connection, at any point.
Drop ==
  /\ client.phase # "off"
  /\ faults < MaxFaults /\ faults' = faults + 1
  /\ client' = [Offline EXCEPT !.last = client.last]
  /\ UNCHANGED <<db, broker, shown, slips>>

-----------------------------------------------------------------------------
\* check_all: each rule raises while its condition holds and resolves when it has
\* ended; what the condition is, over jobs and workers, is left open.
CheckRules == Raise \/ Resolve

Writers == EmitPlain \/ CheckRules \/ Commit \/ RollBack \/ Acknowledge \/ EmitAck \/ LoseAck
Drains  == \E t \in Tasks : Read(t) \/ ReadFails(t) \/ Publish(t)
Browser == Bootstrap \/ Subscribe \/ Replay \/ Deliver \/ Drop

Next == Writers \/ Drains \/ RestartBroker \/ Browser

Spec == Init /\ [][Next]_vars

\* The event loop runs its tasks, and after a failure they try again (_listen after
\* two seconds, _reconcile every five); a connected browser reads.
FairSpec ==
  /\ Spec
  /\ \A t \in Tasks : WF_vars(Read(t)) /\ WF_vars(Publish(t))
  /\ WF_vars(Subscribe) /\ WF_vars(Replay) /\ WF_vars(Deliver)

-----------------------------------------------------------------------------
(* Properties. *)

\* Types of the tables, the broker's fields and the browser's connection.
TypeOK ==
  /\ note \in [Notes -> Note] /\ edge \in [Ids -> Edge]
  /\ drawn \in 0..MaxId /\ flying \subseteq Txn /\ acks \subseteq Notes
  /\ log \in Seq(Ids) /\ Cardinality(Visible) = Len(log) /\ \A i \in Visible : i <= drawn
  /\ watermark \in {0} \union Visible
  /\ buffer \in Seq(pub) /\ Len(buffer) <= BUFFER_SIZE
  /\ rows \in [Tasks -> Seq(Visible)] /\ pub \subseteq Visible
  /\ client.phase \in {"off", "boot", "replay", "live"}
  /\ client.last \in 0..MaxId \union {Null} /\ Len(client.queue) <= QUEUE_LIMIT
  /\ shown \subseteq Notes

Feed == INSTANCE EventFeed WITH sent <- pub, gone <- Gone

\* Refinement: the two draining tasks, their lost reads and the watermark send
\* every edge in the end, except one that became visible after a higher id, or
\* one that a restart passed over (broker.py _drain_events: "Everything above it
\* is owed").
FeedPromise == Feed!FeedSpec

\* No silent gap: an edge published while a browser is connected reaches it, is
\* queued for it, or the connection is marked to end, and on a reconnection that
\* holds for everything published above its Last-Event-ID, unless a republished
\* edge hid the gap in the buffer (broker.py offer, replay: "rather than silently
\* serving an incomplete history").
NoSilentGap ==
  client.phase = "live" =>
    \/ client.resync
    \/ "order" \in slips
    \/ client.owed \subseteq ToSet(client.queue)

\* Nothing is on its way.
Settled ==
  /\ flying = {} /\ acks = {}
  /\ \A t \in Tasks : rows[t] = <<>>
  /\ \A i \in Visible : i <= watermark
  /\ client.phase = "live" /\ client.queue = <<>> /\ ~client.resync

\* What the operator sees is what is open: once everything settled, the list in
\* the browser is exactly the notifications nobody acknowledged and no rule
\* resolved, across reconnections, restarts, overflows and replays, unless one of
\* the named slips happened (stream.svelte.ts, app.py stream, events.py).
SettledViewIsRight == Settled /\ slips = {} => shown = Open

=============================================================================
