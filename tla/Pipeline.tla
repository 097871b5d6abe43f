------------------------------ MODULE Pipeline ------------------------------
(***************************************************************************)
(* The path of an event from the daemon that signs it to the server that   *)
(* credits it: emit_impressions, the unbounded channel, flush_loop and     *)
(* post_ingest of crates/spnrd/src/main.rs, the network, and the handlers  *)
(* register and ingest of server/spnr-server/src/main.rs.                  *)
(*                                                                         *)
(* The daemon makes one blocking HTTP call at a time for registration and  *)
(* one at a time in flush_loop, and looks at the result of neither.  A     *)
(* restart of the daemon loses the channel and makes a new key, so `key`   *)
(* numbers the daemon's runs and is also its device id.                    *)
(***************************************************************************)
EXTENDS SignedChain, FiniteSets

CONSTANTS
  MaxRuns,      \* bound: daemon starts
  MaxEvents     \* bound: events emitted in one run

ASSUME PipelineAssumption == MaxRuns \in Nat \ {0} /\ MaxEvents \in Nat

Keys == 1..MaxRuns
NoCall == [kind |-> "none"]

VARIABLES
  up, key, prev,
  emitted,      \* per run, the events built; ctr is how many
  chan,         \* the unbounded channel: envelopes flush_loop has not taken
  call,         \* the request a blocking call of the daemon waits for
  wire,         \* requests sent that the server has not handled
  server,       \* registered devices, seen ids, events credited, events refused
  lost          \* history: the network lost a request, or delivered one late

vars == <<up, key, prev, emitted, chan, call, wire, server, lost>>

Registration(k) == [kind |-> "register", device |-> k]
Batch(k, events) == [kind |-> "ingest", device |-> k, events |-> events]

Init ==
  /\ up = FALSE /\ key = 0 /\ prev = GENESIS_PREV
  /\ emitted = [k \in Keys |-> <<>>]
  /\ chan = <<>> /\ call = NoCall /\ wire = {} /\ lost = FALSE
  /\ server = [devices |-> [k \in {} |-> NewDevice(k)], seen |-> {},
               credited |-> [k \in Keys |-> <<>>], refused |-> {}]

-----------------------------------------------------------------------------
\* A blocking call: the request goes out and the caller waits.
Calls(request) == call' = request /\ wire' = wire \cup {request}

\* main: a new key, then the registration.
Start ==
  /\ ~up /\ key < MaxRuns
  /\ up' = TRUE /\ key' = key + 1 /\ prev' = GENESIS_PREV /\ chan' = <<>>
  /\ Calls(Registration(key + 1))
  /\ UNCHANGED <<emitted, server, lost>>

\* The request of a call cut short by a crash arrives or does not.
Crash ==
  /\ up /\ up' = FALSE /\ chan' = <<>> /\ call' = NoCall
  /\ wire' \in {wire, wire \ {call}}
  /\ UNCHANGED <<key, prev, emitted, server, lost>>

\* emit_impressions, once main has entered its receive loop.
Emit ==
  LET e == NewEvent(key, Len(emitted[key]), prev, 1)
  IN  /\ up /\ call.kind # "register" /\ Len(emitted[key]) < MaxEvents
      /\ prev' = e.digest
      /\ emitted' = [emitted EXCEPT ![key] = Append(@, e)]
      /\ chan' = Append(chan, e)
      /\ UNCHANGED <<up, key, call, wire, server, lost>>

\* flush_loop takes everything the channel holds and posts it.
Bug_NewestFirst(events) == [i \in DOMAIN events |-> events[Len(events) + 1 - i]]
Taken(events) == events
Flush ==
  /\ up /\ call = NoCall /\ chan # <<>>
  /\ Calls(Batch(key, Taken(chan)))
  /\ chan' = <<>>
  /\ UNCHANGED <<up, key, prev, emitted, server, lost>>

\* The call ends, with an answer or with an error; both are ignored.
Bug_ReturnAtOnce == TRUE
CallOver == call \notin wire
Return ==
  /\ call # NoCall /\ CallOver
  /\ call' = NoCall
  /\ UNCHANGED <<up, key, prev, emitted, chan, wire, server, lost>>

-----------------------------------------------------------------------------
\* register: replaces the record of a device it knows.
Registered(s, k) ==
  [s EXCEPT !.devices = [d \in DOMAIN @ \cup {k} |-> IF d = k THEN NewDevice(k) ELSE @[d]]]

\* accept_event.
Ingested(s, e) ==
  IF e.key \in DOMAIN s.devices /\ Verdict(s.devices[e.key], s.seen, e) = "accepted"
    THEN [s EXCEPT !.devices[e.key] = Advanced(@, e), !.seen = @ \cup {e.id},
                   !.credited[e.key] = Append(@, e)]
    ELSE [s EXCEPT !.refused = @ \cup {e}]

\* ingest holds the mutex over all events of the request.
IngestedAll(s, events) ==
  LET after[i \in 0..Len(events)] ==
        IF i = 0 THEN s ELSE Ingested(after[i - 1], events[i])
  IN  after[Len(events)]

Handle(request) ==
  /\ wire' = wire \ {request}
  /\ server' = IF request.kind = "register" THEN Registered(server, request.device)
               ELSE IngestedAll(server, request.events)
  /\ UNCHANGED <<up, key, prev, emitted, chan, call, lost>>
HandleAny == \E request \in wire : Handle(request)

\* The network drops a request, or the caller gives up on one that will
\* still arrive.
Drop ==
  /\ \E request \in wire : wire' = wire \ {request}
  /\ lost' = TRUE
  /\ UNCHANGED <<up, key, prev, emitted, chan, call, server>>
GiveUp ==
  /\ call \in wire /\ call' = NoCall
  /\ lost' = TRUE
  /\ UNCHANGED <<up, key, prev, emitted, chan, wire, server>>

-----------------------------------------------------------------------------
Daemon == Start \/ Crash \/ Emit \/ Flush \/ Return

\* flush_loop is a task of its own that is always runnable, a blocking call
\* ends, and the server handles what reaches it.
Fairness == WF_vars(Flush) /\ WF_vars(Return) /\ WF_vars(HandleAny)

Next == Daemon \/ HandleAny \/ Drop \/ GiveUp
Spec == Init /\ [][Next]_vars /\ Fairness

-----------------------------------------------------------------------------
(* PROPERTIES *)

TypeOK ==
  /\ up \in BOOLEAN /\ key \in 0..MaxRuns
  /\ \A k \in Keys : k > key => emitted[k] = <<>>
  /\ \A i \in DOMAIN chan : chan[i].key = key
  /\ \A r \in wire : r.kind \in {"register", "ingest"} /\ r.device \in 1..key
  /\ call.kind \in {"none", "register", "ingest"}
  /\ DOMAIN server.devices \subseteq 1..key
  /\ \A k \in DOMAIN server.devices : server.devices[k].ctr \in NoCtr..(Len(emitted[k]) - 1)

\* As long as no request is lost, the server refuses no event an unmodified
\* daemon signed: it has the device's registration first, and the batches in
\* the order of the chain, over any number of daemon restarts (main.rs:341-351;
\* server main.rs:859-885).
NoHonestEventRefused == ~lost => server.refused = {}

\* As long as no request is lost, an event signed by a daemon that stays up is
\* credited in the end (main.rs:341-351).
EveryEventCredited ==
  \A k \in Keys : \A n \in 1..MaxEvents :
    Len(emitted[k]) >= n ~> (Len(server.credited[k]) >= n \/ key # k \/ ~up \/ lost)

\* Lost and overtaken requests, crashes and restarts included, the server
\* credits each device's events in order, skipping none and none twice: its view
\* of a device is a prefix of what the device made (server main.rs:859-893).
Credits == INSTANCE AttestedCredit WITH
  Makers <- Keys,
  made <- [k \in Keys |-> Len(emitted[k])],
  credited <- [k \in Keys |-> [i \in DOMAIN server.credited[k] |-> server.credited[k][i].ctr]]
CreditsInOrder == Credits!Spec
=============================================================================
