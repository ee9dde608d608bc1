-------------------------------- MODULE Outbox --------------------------------
(***************************************************************************)
(* How a change reaches the people who are looking: the signals a          *)
(* transaction leaves in its outbox, the commit that hands them to the bus, *)
(* the streams of the open connections, and the devices that get a push.   *)
(*                                                                         *)
(* The database commits before the process knows of it, so committing and  *)
(* handing over are two steps, and the process may restart between them.   *)
(* A stream keeps a bounded number of signals for a slow reader and filters *)
(* by channel as it is read.  What a screen does with a signal (ask again  *)
(* what it shows of that channel) and that it asks everything when it      *)
(* connects is external.                                                   *)
(***************************************************************************)
EXTENDS Integers, Sequences, FiniteSets, SequencesExt

CONSTANTS
    People,          \* users, within one company
    Channels,
    Listeners,       \* connections that may subscribe
    Belongs,         \* Belongs[l]: the user of connection l
    Wants,           \* Wants[l]: the channels l listens to
    Writers,         \* transactions in progress at the same time
    Devices,         \* endpoints that a browser may register
    MaxStreams,      \* MAX_STREAMS_PER_USER
    MaxBuffered,     \* DEFAULT_MAX_BUFFERED of PushStream
    MaxDevices,      \* MAX_DEVICES_PER_USER
    MaxFailures,     \* MAX_FAILURES of a device
    MaxChanges,      \* bound of the changes of a channel
    MaxQueued        \* bound of the signals of a transaction

ASSUME OutboxAssumption ==
    /\ Belongs \in [Listeners -> People] /\ Wants \in [Listeners -> SUBSET Channels]
    /\ IsFiniteSet(Writers)
    /\ {MaxStreams, MaxBuffered, MaxDevices, MaxFailures} \subseteq Nat \ {0}

VARIABLES
    writer,     \* transactions: whether they are open, and the queue in queryRunner.data
    version,    \* what is committed: the number of changes of each channel for each user
    told,       \* the signals of each channel handed to the streams of each user, or lost in a restart
    stream,     \* streams of the bus
    device,     \* rows of push_subscriptions, the most recently seen last
    sending,    \* a push on its way to a device, and whether the row it read is still there
    off         \* devices their owner switched off and did not register again

outboxVars == <<writer, version, told, stream, device, sending, off>>
pushVars == <<device, sending, off>>

-----------------------------------------------------------------------------
(* State *)

Signal == [to: People, channel: Channels]

\* changes: what the transaction wrote; queue: the signals it leaves.
WriterRow == [status: {"IDLE", "OPEN", "COMMITTED"}, changes: Seq(Signal), queue: Seq(Signal)]

\* view: the version the screen shows; ask: the channels it has to ask for again;
\* dropped: channels of which a signal was lost because the buffer was full.
StreamRow == [open: BOOLEAN, buffer: Seq(Channels), waiting: BOOLEAN, ask: SUBSET Channels,
              dropped: SUBSET Channels, view: [Channels -> Nat]]

DeviceRow == [endpoint: Devices, failures: Nat]

OutboxTypeOK ==
    /\ writer \in [Writers -> WriterRow]
    /\ version \in [People -> [Channels -> Nat]]
    /\ told \in [People -> [Channels -> Nat]]
    /\ stream \in [Listeners -> StreamRow]
    /\ device \in [People -> Seq(DeviceRow)]
    /\ sending \in [Devices -> {<<>>} \cup (People \X Nat \X BOOLEAN)]
    /\ off \in [People -> SUBSET Devices]

Count(queue, p, ch) == Cardinality({i \in DOMAIN queue : queue[i] = [to |-> p, channel |-> ch]})

Added(counter, queue) ==
    [p \in People |-> [ch \in Channels |-> counter[p][ch] + Count(queue, p, ch)]]

\* What is committed and was not handed over yet.
Untold(p, ch) ==
    SumFunction([w \in Writers |->
        IF writer[w].status = "COMMITTED" THEN Count(writer[w].queue, p, ch) ELSE 0])

Idle == [status |-> "IDLE", changes |-> <<>>, queue |-> <<>>]

-----------------------------------------------------------------------------
(* The stream of a connection *)

Closed(s) == [s EXCEPT !.open = FALSE, !.buffer = <<>>, !.waiting = FALSE, !.dropped = {}]

\* Mutant: a signal that finds somebody waiting is kept for the next read.
PushPastReader(l, s, ch) ==
    IF Len(s.buffer) < MaxBuffered THEN [s EXCEPT !.buffer = Append(@, ch)]
    ELSE [s EXCEPT !.buffer = Append(Tail(@), ch), !.dropped = @ \cup {Head(s.buffer)}]

\* PushStream.push: who waits for it gets it; otherwise it is kept, and beyond the
\* limit the oldest is dropped.
Push(l, s, ch) ==
    IF s.waiting THEN [s EXCEPT !.waiting = FALSE, !.ask = @ \cup ({ch} \cap Wants[l])]
    ELSE IF Len(s.buffer) < MaxBuffered THEN [s EXCEPT !.buffer = Append(@, ch)]
    ELSE [s EXCEPT !.buffer = Append(Tail(@), ch), !.dropped = @ \cup {Head(s.buffer)}]

\* The queue of a transaction, in order, to an open stream of each addressee.
Handed(l, s, queue) ==
    LET after[i \in 0 .. Len(queue)] ==
            IF i = 0 THEN s
            ELSE IF queue[i].to = Belongs[l] THEN Push(l, after[i - 1], queue[i].channel)
            ELSE after[i - 1]
    IN after[Len(queue)]

SubscriberCount(p) == Cardinality({l \in Listeners : stream[l].open /\ Belongs[l] = p})

\* A connection that opens asks for everything it shows.
Subscribe(l) ==
    /\ ~stream[l].open /\ SubscriberCount(Belongs[l]) < MaxStreams
    /\ stream' = [stream EXCEPT ![l].open = TRUE, ![l].ask = Wants[l]]
    /\ UNCHANGED <<writer, version, told, pushVars>>

\* openStream.next: what nobody asked for is passed over.
Read(l) ==
    LET s == stream[l] IN
    /\ s.open /\ ~s.waiting
    /\ stream' = [stream EXCEPT ![l] =
           IF s.buffer = <<>> THEN [s EXCEPT !.waiting = TRUE]
           ELSE [s EXCEPT !.buffer = Tail(@), !.ask = @ \cup ({Head(s.buffer)} \cap Wants[l])]]
    /\ UNCHANGED <<writer, version, told, pushVars>>

\* The screen asks again, and sees what is committed.
Ask(l, ch) ==
    LET s == stream[l] IN
    /\ ch \in s.ask
    /\ stream' = [stream EXCEPT ![l] =
           [s EXCEPT !.ask = @ \ {ch}, !.dropped = @ \ {ch}, !.view[ch] = version[Belongs[l]][ch]]]
    /\ UNCHANGED <<writer, version, told, pushVars>>

\* The client leaves, or its session expires.
Close(l) ==
    /\ stream[l].open
    /\ stream' = [stream EXCEPT ![l] = Closed(@)]
    /\ UNCHANGED <<writer, version, told, pushVars>>

-----------------------------------------------------------------------------
(* The outbox of a transaction *)

BeginWriter(w) ==
    /\ writer[w].status = "IDLE"
    /\ writer' = [writer EXCEPT ![w].status = "OPEN"]
    /\ UNCHANGED <<version, told, stream, pushVars>>

\* A change of something p looks at, and its signal (notify, signalChange).
Announce(w, p, ch) ==
    /\ writer[w].status = "OPEN" /\ Len(writer[w].queue) < MaxQueued
    /\ version[p][ch] + Count(writer[w].changes, p, ch) < MaxChanges
    /\ writer' = [writer EXCEPT ![w].changes = Append(@, [to |-> p, channel |-> ch]),
                                ![w].queue = Append(@, [to |-> p, channel |-> ch])]
    /\ UNCHANGED <<version, told, stream, pushVars>>

CommitWriter(w) ==
    /\ writer[w].status = "OPEN"
    /\ writer' = [writer EXCEPT ![w].status = "COMMITTED"]
    /\ version' = Added(version, writer[w].changes)
    /\ UNCHANGED <<told, stream, pushVars>>

\* Mutant: the signals of a transaction that was undone stay for the next one.
RollBackKeeping(w) ==
    /\ writer[w].status = "OPEN"
    /\ writer' = [writer EXCEPT ![w].status = "IDLE", ![w].changes = <<>>]
    /\ UNCHANGED <<version, told, stream, pushVars>>

RollBack(w) ==
    /\ writer[w].status = "OPEN"
    /\ writer' = [writer EXCEPT ![w] = Idle]
    /\ UNCHANGED <<version, told, stream, pushVars>>

\* flushCommitted; a push goes to the devices of each addressee of a notice.
Flush(w) ==
    /\ writer[w].status = "COMMITTED"
    /\ writer' = [writer EXCEPT ![w] = Idle]
    /\ told' = Added(told, writer[w].queue)
    /\ stream' = [l \in Listeners |->
           IF stream[l].open THEN Handed(l, stream[l], writer[w].queue) ELSE stream[l]]
    /\ UNCHANGED <<version, pushVars>>

\* The process restarts: what is not committed is undone, and every connection ends.
Restart ==
    /\ writer' = [w \in Writers |-> Idle]
    /\ told' = [p \in People |-> [ch \in Channels |-> told[p][ch] + Untold(p, ch)]]
    /\ stream' = [l \in Listeners |-> Closed(stream[l])]
    /\ sending' = [d \in Devices |-> <<>>]
    /\ UNCHANGED <<version, device, off>>

-----------------------------------------------------------------------------
(* Devices *)

UnchangedStreams == UNCHANGED <<writer, version, told, stream>>

\* (userId, companyId, endpoint) is unique: one at most.
RowsOf(p, d) == {i \in DOMAIN device[p] : device[p][i].endpoint = d}

Without(p, d) ==
    IF RowsOf(p, d) = {} THEN device[p] ELSE RemoveAt(device[p], CHOOSE i \in RowsOf(p, d) : TRUE)

FailuresOf(p, d) == {device[p][i].failures : i \in RowsOf(p, d)}

\* The answers to come for the rows that are no longer there.
Orphaned(rows) ==
    [d \in Devices |->
        IF sending[d] = <<>> THEN <<>>
        ELSE LET p == sending[d][1] IN
             <<p, sending[d][2], sending[d][3] /\ \E i \in DOMAIN rows[p] : rows[p][i].endpoint = d>>]

\* The browser is of who registers it last, who keeps the most recent devices.
Register(p, d) ==
    LET mine == Append(Without(p, d), [endpoint |-> d, failures |-> 0])
        over == Len(mine) - MaxDevices
        kept == [q \in People |->
                    IF q # p THEN Without(q, d)
                    ELSE IF over > 0 THEN SubSeq(mine, 1 + over, Len(mine)) ELSE mine]
    IN
    /\ device' = kept
    /\ sending' = Orphaned(kept)
    /\ off' = [off EXCEPT ![p] = @ \ {d}]
    /\ UnchangedStreams

Unregister(p, d) ==
    LET kept == [device EXCEPT ![p] = Without(p, d)] IN
    /\ FailuresOf(p, d) # {}
    /\ device' = kept
    /\ sending' = Orphaned(kept)
    /\ off' = [off EXCEPT ![p] = @ \cup {d}]
    /\ UnchangedStreams

\* dispatch reads the rows and waits for the push service.  One push of a device is on
\* its way at a time; the code sends several, which lose counts of failures to each other.
Dispatch(p, d) ==
    /\ sending[d] = <<>>
    /\ \E n \in FailuresOf(p, d) : sending' = [sending EXCEPT ![d] = <<p, n, TRUE>>]
    /\ UNCHANGED <<device, off>> /\ UnchangedStreams

\* Mutant: the row that was read is saved again.
SavedAgain(p, d, n, here) ==
    [device EXCEPT ![p] = Append(Without(p, d), [endpoint |-> d, failures |-> n])]

\* update(id, ...) does nothing when the row is not there.
Updated(p, d, n, here) ==
    IF here
    THEN [device EXCEPT ![p] = [i \in DOMAIN @ |-> IF @[i].endpoint = d THEN [@[i] EXCEPT !.failures = n]
                                                  ELSE @[i]]]
    ELSE device

\* The answers of the push service: taken, gone, refused, anything else.
Answered(d, answer) ==
    LET p == sending[d][1]
        n == sending[d][2]
        here == sending[d][3]
        removed == IF here THEN [device EXCEPT ![p] = Without(p, d)] ELSE device
    IN
    /\ sending[d] # <<>>
    /\ sending' = [sending EXCEPT ![d] = <<>>]
    /\ device' = CASE answer = "TAKEN" -> Updated(p, d, 0, here)
                   [] answer = "GONE" -> removed
                   [] answer = "REFUSED" -> IF n + 1 >= MaxFailures THEN removed
                                            ELSE Updated(p, d, n + 1, here)
                   [] answer = "OTHER" -> device
    /\ UNCHANGED off /\ UnchangedStreams

-----------------------------------------------------------------------------
(* Specification *)

OutboxInit ==
    /\ writer = [w \in Writers |-> Idle]
    /\ version = [p \in People |-> [ch \in Channels |-> 0]]
    /\ told = version
    /\ stream = [l \in Listeners |-> [open |-> FALSE, buffer |-> <<>>, waiting |-> FALSE, ask |-> {},
                                      dropped |-> {}, view |-> [ch \in Channels |-> 0]]]
    /\ device = [p \in People |-> <<>>]
    /\ sending = [d \in Devices |-> <<>>]
    /\ off = [p \in People |-> {}]

SignalStep ==
    \/ \E w \in Writers :
        \/ BeginWriter(w)
        \/ \E l \in Listeners, ch \in Channels : Announce(w, Belongs[l], ch)
        \/ CommitWriter(w)
        \/ RollBack(w)
        \/ Flush(w)
    \/ \E l \in Listeners :
        \/ Subscribe(l)
        \/ Read(l)
        \/ \E ch \in Channels : Ask(l, ch)
        \/ Close(l)
    \/ Restart

PushStep ==
    \E d \in Devices :
        \/ \E p \in People : Register(p, d) \/ Unregister(p, d) \/ Dispatch(p, d)
        \/ \E answer \in {"TAKEN", "GONE", "REFUSED", "OTHER"} : Answered(d, answer)

OutboxNext == SignalStep \/ PushStep

OutboxSpec == OutboxInit /\ [][OutboxNext]_outboxVars

-----------------------------------------------------------------------------
(* Properties *)

\* A screen that is connected and up to date with its stream shows what is
\* committed: if it is behind, the signal is on its way (in the outbox of a
\* transaction that just committed, in the stream, or already received).  Only a
\* signal dropped by a full buffer escapes, and only if its channel is not the one
\* of the signals that stayed (PushStream, openStream).
ListenerCatchesUp ==
    \A l \in Listeners : stream[l].open =>
        \A ch \in Wants[l] \ stream[l].dropped :
            stream[l].view[ch] < version[Belongs[l]][ch] =>
                \/ ch \in stream[l].ask
                \/ \E i \in DOMAIN stream[l].buffer : stream[l].buffer[i] = ch
                \/ \E w \in Writers : /\ writer[w].status = "COMMITTED"
                                      /\ Count(writer[w].queue, Belongs[l], ch) > 0

\* Who waits has nothing to read: a signal never stays behind a sleeping reader.
NobodySleepsOnASignal == \A l \in Listeners : stream[l].waiting => stream[l].buffer = <<>>

\* No signal is lost on its way to who is looking.
SignalsArrive == OutboxTypeOK /\ ListenerCatchesUp /\ NobodySleepsOnASignal

\* Only what was committed is announced, each change once, and nothing of a
\* transaction that was undone (publishAfterCommit, discardQueued).
AnnouncedIsCommitted ==
    \A p \in People, ch \in Channels : version[p][ch] = told[p][ch] + Untold(p, ch)

\* A device that its owner switched off is sent no push until it registers again: the
\* answer of one that was already on its way, which may still be shown, brings back no
\* row (send).
SwitchedOffStaysOff ==
    \A p \in People : \A d \in off[p] : FailuresOf(p, d) = {}
=============================================================================
