---------------------------- MODULE StreamManager ----------------------------
(***************************************************************************)
(* hts::StreamManager of the CUDA build (src/src/cuda/stream_manager.cu)   *)
(* and of the CPU-only build (src/src/cuda/cuda_stubs.cpp), with the       *)
(* streams and events the runtime knows of.  The builds differ where       *)
(* events are made: the CUDA build does all of it under mutex_, the        *)
(* CPU-only one asks its stub of the runtime first, and the stub's counter *)
(* has no lock at all.                                                     *)
(*                                                                         *)
(* A client may lease several streams, and releases those it leased.       *)
(* release_stream refuses a foreign stream and one nobody leases, with an  *)
(* exception and no effect.                                                *)
(***************************************************************************)
EXTENDS Naturals, Sequences, SequencesExt

CONSTANTS
    Streams,    \* the streams of a manager, num_streams of them
    Clients,    \* threads
    Makers,     \* those of them that create events
    Builds,     \* the builds considered, among "cuda" and "cpu"
    MaxEvents   \* bound: event ids handed out

ASSUME StreamAssumption ==
    /\ IsFiniteSet(Streams) /\ IsFiniteSet(Clients) /\ Makers \subseteq Clients
    /\ Builds \subseteq {"cuda", "cpu"}
    /\ MaxEvents \in Nat

VARIABLES
    build,         \* which of the two sources was compiled
    phase,         \* the manager: "constructing", "alive", "failed", "gone"
    deviceStreams, \* streams that exist in the runtime
    available,     \* available_streams_, a queue
    leases,        \* leased_streams_, and who holds each
    acquirer,      \* where each client is in acquire_stream
    events,        \* events_
    deviceEvents,  \* events that exist in the runtime
    nextEvent,     \* next_event_id(), or the CUDA runtime's own counter
    maker,         \* where each client is in create_event, and what it holds
    given,         \* history: the events create_event has returned
    overlapped     \* history: two clients of the stub ran cudaEventCreate at once

streamVars == <<build, phase, deviceStreams, available, leases, acquirer,
                events, deviceEvents, nextEvent, maker, given, overlapped>>

NoEvent == 0
Leased == DOMAIN leases
HeldBy(c) == {s \in Leased : leases[s] = c}

(* A thread is in one call at a time. *)
idleMaker == [at |-> "outside", event |-> NoEvent]
CanCall(c) == acquirer[c] = "outside" /\ (c \in Makers => maker[c] = idleMaker)

StreamTypeOK ==
    /\ build \in Builds
    /\ phase \in {"constructing", "alive", "failed", "gone"}
    /\ deviceStreams \subseteq Streams
    /\ available \in Seq(deviceStreams)
    /\ Leased \subseteq deviceStreams /\ leases \in [Leased -> Clients]
    /\ acquirer \in [Clients -> {"outside", "asleep", "woken"}]
    /\ maker \in [Makers -> [at : {"outside", "read", "made"}, event : 0 .. MaxEvents]]
    /\ events \cup deviceEvents \cup given \subseteq 1 .. MaxEvents
    /\ nextEvent \in 1 .. MaxEvents + 1

StreamInit ==
    /\ build \in Builds
    /\ phase = "constructing"
    /\ deviceStreams = {}
    /\ available = <<>>
    /\ leases = [s \in {} |-> NoEvent]
    /\ acquirer = [c \in Clients |-> "outside"]
    /\ events = {} /\ deviceEvents = {} /\ nextEvent = 1
    /\ maker = [c \in Makers |-> idleMaker]
    /\ given = {}
    /\ overlapped = FALSE
-----------------------------------------------------------------------------
poolVars == <<available, leases, acquirer>>
eventVars == <<events, deviceEvents, nextEvent, maker, given, overlapped>>

(* One turn of the constructor's loop. *)
MakeStream(s) ==
    /\ phase = "constructing" /\ s \notin deviceStreams
    /\ deviceStreams' = deviceStreams \cup {s}
    /\ available' = Append(available, s)
    /\ phase' = IF deviceStreams' = Streams THEN "alive" ELSE phase
    /\ UNCHANGED <<build, leases, acquirer, eventVars>>

(* cudaStreamCreate fails: what was made is destroyed, the constructor     *)
(* throws.  The stub does not fail.                                        *)
ConstructionFails ==
    /\ phase = "constructing" /\ build = "cuda"
    /\ phase' = "failed"
    /\ deviceStreams' = {}
    /\ available' = <<>>
    /\ UNCHANGED <<build, leases, acquirer, eventVars>>

(* acquire_stream: the queue is not empty, on the way in or after waking. *)
LeaseStream(c) ==
    /\ phase = "alive" /\ (CanCall(c) \/ acquirer[c] # "outside")
    /\ available # <<>>
    /\ available' = Tail(available)
    /\ leases' = [s \in Leased \cup {Head(available)} |->
                      IF s = Head(available) THEN c ELSE leases[s]]
    /\ acquirer' = [acquirer EXCEPT ![c] = "outside"]
    /\ UNCHANGED <<build, phase, deviceStreams, eventVars>>

SleepForStream(c) ==
    /\ phase = "alive"
    /\ CanCall(c) \/ acquirer[c] = "woken"
    /\ available = <<>>
    /\ acquirer' = [acquirer EXCEPT ![c] = "asleep"]
    /\ UNCHANGED <<build, phase, deviceStreams, available, leases, eventVars>>

(* Plausible bug: one is woken only where the queue was empty, because     *)
(* otherwise nobody could be asleep.                                       *)
BugWakesIfEmpty(c, s) ==
    /\ phase = "alive" /\ CanCall(c) /\ s \in HeldBy(c)
    /\ leases' = [x \in Leased \ {s} |-> leases[x]]
    /\ available' = Append(available, s)
    /\ \/ /\ available = <<>>
          /\ \E d \in Clients : acquirer[d] = "asleep"
                 /\ acquirer' = [acquirer EXCEPT ![d] = "woken"]
       \/ /\ available # <<>> \/ \A d \in Clients : acquirer[d] # "asleep"
          /\ UNCHANGED acquirer
    /\ UNCHANGED <<build, phase, deviceStreams, eventVars>>

(* release_stream, with its notify_one. *)
ReleaseStream(c, s) ==
    /\ phase = "alive" /\ CanCall(c) /\ s \in HeldBy(c)
    /\ leases' = [x \in Leased \ {s} |-> leases[x]]
    /\ available' = Append(available, s)
    /\ \/ \E d \in Clients : acquirer[d] = "asleep"
              /\ acquirer' = [acquirer EXCEPT ![d] = "woken"]
       \/ (\A d \in Clients : acquirer[d] # "asleep") /\ UNCHANGED acquirer
    /\ UNCHANGED <<build, phase, deviceStreams, eventVars>>
-----------------------------------------------------------------------------
(* create_event of the CUDA build, under the mutex; a failure has no       *)
(* effect.                                                                 *)
CreateEvent(c) ==
    /\ phase = "alive" /\ build = "cuda"
    /\ CanCall(c) /\ nextEvent <= MaxEvents
    /\ nextEvent' = nextEvent + 1
    /\ deviceEvents' = deviceEvents \cup {nextEvent}
    /\ events' = events \cup {nextEvent}
    /\ given' = given \cup {nextEvent}
    /\ UNCHANGED <<build, phase, deviceStreams, poolVars, maker, overlapped>>

(* create_event of the CPU-only build: the stub reads its counter, stores  *)
(* the next value and registers the event; then the mutex, and events_.    *)
StubReadsId(c) ==
    /\ phase = "alive" /\ build = "cpu"
    /\ CanCall(c) /\ nextEvent <= MaxEvents
    /\ maker' = [maker EXCEPT ![c] = [at |-> "read", event |-> nextEvent]]
    /\ overlapped' = (overlapped \/ \E d \in Makers : maker[d].at = "read")
    /\ UNCHANGED <<build, phase, deviceStreams, poolVars, events, deviceEvents, nextEvent, given>>

StubRegisters(c) ==
    /\ maker[c].at = "read"
    /\ nextEvent' = maker[c].event + 1
    /\ deviceEvents' = deviceEvents \cup {maker[c].event}
    /\ maker' = [maker EXCEPT ![c].at = "made"]
    /\ UNCHANGED <<build, phase, deviceStreams, poolVars, events, given, overlapped>>

KeepEvent(c) ==
    /\ maker[c].at = "made"
    /\ events' = events \cup {maker[c].event}
    /\ given' = given \cup {maker[c].event}
    /\ maker' = [maker EXCEPT ![c] = idleMaker]
    /\ UNCHANGED <<build, phase, deviceStreams, poolVars, deviceEvents, nextEvent, overlapped>>

(* destroy_event, of any event a client was given, again perhaps: the CUDA *)
(* build looks whether the manager knows it, the CPU-only build does not.  *)
DestroyEvent(e) ==
    /\ phase = "alive" /\ e \in given
    /\ events' = events \ {e}
    /\ deviceEvents' = IF build = "cuda" THEN deviceEvents \ (events \cap {e})
                                         ELSE deviceEvents \ {e}
    /\ UNCHANGED <<build, phase, deviceStreams, poolVars, nextEvent, maker, given, overlapped>>

(* The destructor, when no client is in a call. *)
DestroyManager ==
    /\ phase = "alive"
    /\ \A c \in Clients : CanCall(c)
    /\ phase' = "gone"
    /\ deviceStreams' = {}
    /\ available' = <<>>
    /\ leases' = [s \in {} |-> NoEvent]
    /\ deviceEvents' = deviceEvents \ events
    /\ events' = {}
    /\ UNCHANGED <<build, acquirer, nextEvent, maker, given, overlapped>>

StreamNext ==
    \/ \E s \in Streams : MakeStream(s)
    \/ ConstructionFails
    \/ \E c \in Clients : LeaseStream(c)
    \/ \E c \in Clients : SleepForStream(c)
    \/ \E c \in Clients, s \in Streams : ReleaseStream(c, s)
    \/ \E c \in Makers : CreateEvent(c)
    \/ \E c \in Makers : StubReadsId(c)
    \/ \E c \in Makers : StubRegisters(c)
    \/ \E c \in Makers : KeepEvent(c)
    \/ \E e \in given : DestroyEvent(e)
    \/ DestroyManager

StreamSpec == StreamInit /\ [][StreamNext]_streamVars
-----------------------------------------------------------------------------
(* Every stream the runtime has is in the queue once or leased to one      *)
(* client; while a client sleeps for one, each stream in the queue has a   *)
(* client on its way that was woken for it; and a manager that was         *)
(* destroyed, or never came to be, leaves none behind.                     *)
StreamsExact ==
    /\ IsInjective(available)
    /\ Range(available) \cup Leased = deviceStreams
    /\ Range(available) \cap Leased = {}
    /\ (\E c \in Clients : acquirer[c] = "asleep") =>
           Len(available) <= Cardinality({c \in Clients : acquirer[c] = "woken"})
    /\ phase \in {"failed", "gone"} => deviceStreams = {}

(* The runtime's events are those of the manager and those on their way to *)
(* it, each on its way once: none leaks and none is shared.  The stub's    *)
(* unlocked counter keeps this only while no two clients create events at  *)
(* once.                                                                   *)
EventsExact ==
    ~ overlapped =>
        /\ deviceEvents = events \cup {maker[c].event :
                              c \in {d \in Makers : maker[d].at = "made"}}
        /\ \A c \in Makers : maker[c].at # "outside" => maker[c].event \notin events

(* The manager and the runtime agree on what exists and who has it. *)
ResourcesExact == StreamsExact /\ EventsExact
==============================================================================
