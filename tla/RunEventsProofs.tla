---------------------------- MODULE RunEventsProofs ----------------------------
(***************************************************************************)
(* Proofs about RunEvents, for any number of events, facts, reconnects and *)
(* faults.                                                                 *)
(*                                                                         *)
(* The invariant follows an event from place to place: the agent's edits   *)
(* into the buffer (BufferInOrder), the buffer into a connection           *)
(* (StreamInOrder), the connection into the database (StoreFollows), the   *)
(* facts beside it (FactsFollow), and the database into a browser          *)
(* (PageFollows).                                                          *)
(***************************************************************************)
EXTENDS RunEvents, SequenceTheorems, WellFoundedInduction, TLAPS

Kinds == Endings \cup Hidden \cup {"action", "memory"}
Statuses == {"running", "succeeded", "failed", "cancelled", "lost"}
Streaming == {"replay", "live", "drain"}
Connected == {"read", "apply", "store", "emit"}
Handling == {"apply", "store", "emit"}
Serving == {"get", "list", "check", "wait", "again", "fin"}

StreamRecords == [st : Streaming \cup {"none", "closed", "broken"}, replay : Seq(Int),
                  queue : Seq(Int), last : Int]
JobRecords == [st : Connected \cup {"connect", "finish", "announce", "over", "boot"},
               after : Int, last : Int, item : Int, attempt : Nat, idle : Nat,
               ends : Statuses, resumed : BOOLEAN]
PageRecords == [st : Serving \cup {"away", "load", "off", "over", "greeted"}, from : Int,
                after : Int, run : Statuses, pending : SUBSET Nat, ending : BOOLEAN]

AgentTypes == fact \in Nat /\ unsaid \in Seq(Nat) /\ buffer \in Seq([kind : Kinds, fact : Nat])
StreamTypes == sub \in StreamRecords /\ wire \in Seq(Int)
JobTypes == job \in JobRecords
DatabaseTypes ==
  stored \subseteq Nat /\ missed \subseteq Nat /\ memory \in Nat /\ status \in Statuses
BrowserTypes == page \in PageRecords /\ seen \subseteq Nat
Types == AgentTypes /\ StreamTypes /\ JobTypes /\ DatabaseTypes /\ BrowserTypes

\* Edits come into the buffer in order and an ending is its last event.
Said == fact - Len(unsaid)
BufferInOrder ==
  /\ \A k \in 1..Len(unsaid) : unsaid[k] = Said + k
  /\ Said \in Nat
  /\ \A k \in 1..Len(buffer) : buffer[k].kind \in Endings => k = Len(buffer)
  /\ \A k \in 1..Len(buffer) : buffer[k].kind = "memory" => buffer[k].fact <= Said
  /\ \A j, k \in 1..Len(buffer) : j < k /\ buffer[j].kind = "memory" /\ buffer[k].kind = "memory"
                                    => buffer[j].fact <= buffer[k].fact

\* A result comes after all the facts.
LastSaid == Said = 0 \/ \E k \in 1..Len(buffer) : buffer[k].kind = "memory" /\ buffer[k].fact = Said
ResultHasAll ==
  /\ Running => LastSaid
  /\ \A k \in 1..Len(buffer) : buffer[k].kind = "result" => unsaid = <<>> /\ LastSaid

\* The generator sends one event after the other: what it replays and then what
\* its queue holds follows what it sent last, without a gap.
NextSeq == sub.last + Len(sub.replay) + 1
Follows(queue, next, length, done) ==
  /\ ~done => next + Len(queue) = length
  /\ \A k \in 1..Len(queue) : \/ queue[k] = next + k - 1 /\ queue[k] < length
                              \/ queue[k] = Closed /\ done /\ k = Len(queue)
InOrder ==
  /\ sub.last >= -1 /\ NextSeq <= Len(buffer)
  /\ \A k \in 1..Len(sub.replay) : sub.replay[k] = sub.last + k
  /\ sub.st # "replay" => sub.replay = <<>>
  /\ Follows(sub.queue, NextSeq, Len(buffer), Done)
Streams == job.st \in Connected /\ sub.st \in Streaming
StreamInOrder == Len(wire) <= 1 /\ (Streams => InOrder)

\* What the job has got to: the event on the wire follows it, and the generator
\* has sent just that one.
Cur == IF job.st = "read" THEN job.last ELSE job.item
WireFollows ==
  job.st \in Connected =>
    /\ wire # <<>> => wire[1] = Cur + 1 /\ wire[1] < Len(buffer)
    /\ sub.st \in Streaming => sub.last = IF wire = <<>> THEN Cur ELSE wire[1]

\* What is stored is a prefix of the buffer, and the job is within it or at the
\* event after it.
StoreFollows ==
  /\ NoHoleInStore /\ LastOf(stored) \in -1..Len(buffer) - 1 /\ missed \subseteq stored
  /\ job.st \in Connected \cup {"connect"} => job.after >= -1 /\ job.after <= LastOf(stored)
  /\ job.st \in Connected => job.after <= job.last /\ job.last <= LastOf(stored)
  /\ job.st \in Handling => job.item = job.last + 1 /\ job.item < Len(buffer)
  /\ job.st = "apply" => Kind(job.item) = "memory"
  /\ job.st = "emit" => /\ job.item = LastOf(stored) /\ job.item \notin missed
                        /\ Kind(job.item) \notin Hidden

Succeeds == status = "succeeded" \/ (job.st = "finish" /\ job.ends = "succeeded")
StatusFollows ==
  /\ job.st \in Connected \cup {"connect", "finish"} => status = "running"
  /\ job.st \in {"announce", "over"} => status # "running"
  /\ job.st = "finish" => job.ends # "running"
  /\ Succeeds => buffer # <<>> /\ buffer[Len(buffer)].kind = "result"

\* The memory is not older than the events the job has got past in this
\* connection, nor, at the end of the run or after a crash, than any stored one.
AppliedIn(events, n, mem) ==
  \A s \in 0..n : s < Len(events) /\ events[s + 1].kind = "memory" => events[s + 1].fact <= mem
Applied(n) == AppliedIn(buffer, n, memory)
FactsFollow ==
  /\ memory <= fact
  /\ ~failed /\ ~rewound =>
       /\ job.st = "connect" => Applied(job.after)
       /\ job.st \in {"read", "apply"} => Applied(job.last)
       /\ job.st \in {"store", "emit"} => Applied(job.item)
       /\ job.st = "boot" => Applied(LastOf(stored))
       /\ Succeeds => Applied(Len(buffer) - 1)

\* A browser has a prefix of what is shown, and the route knows how long it is:
\* of what comes after it, only an event the bus has not told yet is not kept.
Due == Shown(stored) \ missed
Held == IF job.st = "emit" THEN {job.item} ELSE {}
PageOK(p, sn, held) ==
  /\ sn \subseteq stored
  /\ \A s \in Due, t \in sn : s <= t => s \in sn
  /\ p.pending \subseteq stored
  /\ p.st \in Serving => p.after <= LastOf(stored) /\ \A s \in Due : s <= p.after => s \in sn
  /\ p.st = "check" => \A s \in Due : s > p.after => s \in p.pending \cup held
  /\ p.st \in {"wait", "again"} => \A s \in Due : s > p.after => s \in held
  /\ p.st \in {"fin", "over"} \/ p.ending => status # "running"
  /\ p.run # "running" => status # "running"
  /\ p.st = "over" => Due \subseteq sn
PageFollows == PageOK(page, seen, Held)

IInv == /\ Types /\ BufferInOrder /\ ResultHasAll /\ StreamInOrder /\ WireFollows
        /\ StoreFollows /\ StatusFollows /\ FactsFollow /\ PageFollows

-----------------------------------------------------------------------------
(* The newest event of a set.                                              *)

LEMMA LastOfBounded ==
  ASSUME NEW S \in SUBSET Int, S # {}, NEW b \in Int, \A s \in S : s <= b
  PROVE  LastOf(S) \in S /\ \A t \in S : t <= LastOf(S)
<1> DEFINE T == {b - s : s \in S}
<1>1. T \subseteq Nat /\ T # {}
  <2>1. \A s \in S : b - s \in Nat
    BY SMT
  <2>2. PICK s \in S : TRUE
    OBVIOUS
  <2>3. b - s \in T
    OBVIOUS
  <2> QED  BY <2>1, <2>3
<1>2. PICK x \in T : \A y \in T : ~ (<<y, x>> \in OpToRel(<, Nat))
  <2> HIDE DEF T
  <2> QED  BY <1>1, NatLessThanWellFounded, WFMin, Zenon
<1>3. PICK s \in S : x = b - s
  BY <1>2
<1>4. \A t \in S : t <= s
  <2> TAKE t \in S
  <2>1. b - t \in T
    OBVIOUS
  <2>0. b - t \in Nat /\ b - s \in Nat
    OBVIOUS
  <2>2. ~ (b - t < b - s)
    BY <1>2, <1>3, <2>0, <2>1 DEF OpToRel
  <2> HIDE DEF T
  <2> QED  BY <2>2
<1> QED  BY <1>4 DEF LastOf

LEMMA LastOfPrefix ==
  ASSUME NEW n \in Int, n >= -1
  PROVE  LastOf(0..n) = n
<1>1. CASE n = -1
  BY <1>1 DEF LastOf
<1>2. CASE n # -1
  <2>1. n \in 0..n /\ 0..n \in SUBSET Int /\ \A s \in 0..n : s <= n
    BY <1>2
  <2>2. LastOf(0..n) \in 0..n /\ \A t \in 0..n : t <= LastOf(0..n)
    <3> HIDE DEF LastOf
    <3> QED  BY <2>1, LastOfBounded
  <2> QED  BY <2>1, <2>2
<1> QED  BY <1>1, <1>2

LEMMA LastOfEmpty == LastOf({}) = -1
BY DEF LastOf

\* With one event more that comes after the others, or is among them already.
LEMMA PrefixGrows ==
  ASSUME NEW n \in Int, n >= -1, NEW i \in 0..n + 1
  PROVE  LET S == (0..n) \cup {i}
         IN  S = 0..LastOf(S) /\ LastOf(S) = IF i = n + 1 THEN n + 1 ELSE n
<1>1. CASE i = n + 1
  <2>1. (0..n) \cup {i} = 0..n + 1
    BY <1>1, SMTT(30)
  <2>2. LastOf(0..n + 1) = n + 1
    BY LastOfPrefix
  <2> QED  BY <1>1, <2>1, <2>2
<1>2. CASE i # n + 1
  <2>1. (0..n) \cup {i} = 0..n
    BY <1>2, SMTT(30)
  <2> QED  BY <1>2, <2>1, LastOfPrefix
<1> QED  BY <1>1, <1>2

-----------------------------------------------------------------------------
(* What a publication adds to the buffer and to the stream's queue.        *)

Events == [kind : Kinds, fact : Nat]

\* The events es, published by the agent while its run is on.
Published(es) ==
  /\ es \in Seq(Events) /\ Running /\ Publish(es)
  /\ \A k \in 1..Len(es) : es[k].kind \in Endings => k = Len(es)
  /\ \A k \in 1..Len(es) : es[k].kind = "memory" => Said <= es[k].fact /\ es[k].fact <= Said'
  /\ \A j, k \in 1..Len(es) : j < k /\ es[j].kind = "memory" /\ es[k].kind = "memory"
                                => es[j].fact <= es[k].fact
  /\ \/ unsaid' = unsaid
     \/ unsaid' = <<>> /\ unsaid # <<>> /\ \E k \in 1..Len(es) : es[k].kind = "memory" /\ es[k].fact = fact
     \/ unsaid' = <<>> /\ Len(es) > 0 /\ es[Len(es)].kind \in {"error", "cancelled"}
  /\ \A k \in 1..Len(es) : es[k].kind = "result" => unsaid' = <<>>
  /\ UNCHANGED <<fact, known, wire, job, database, browser, failed, missed, rewound>>

Publishes == AgentEmits \/ RecordLlmCall \/ AgentEnds \/ AgentBreaks

LEMMA DrainedEvents ==
  ASSUME Types, BufferInOrder
  PROVE  /\ Drained \in Seq(Events) /\ Len(Drained) = Len(unsaid)
         /\ \A k \in 1..Len(unsaid) : Drained[k].kind = "memory" /\ Drained[k].fact = Said + k
         /\ Said + Len(unsaid) = fact
<1>1. unsaid \in Seq(Nat) /\ Len(unsaid) \in Nat /\ fact \in Nat
  BY DEF Types, AgentTypes
<1>2. \A k \in 1..Len(unsaid) : [kind |-> "memory", fact |-> unsaid[k]] \in Events
  BY <1>1 DEF Events, Kinds
<1>3. Drained \in Seq(Events) /\ Len(Drained) = Len(unsaid)
  BY <1>1, <1>2 DEF Drained
<1>4. \A k \in 1..Len(unsaid) : Drained[k] = [kind |-> "memory", fact |-> unsaid[k]]
  BY <1>1 DEF Drained
<1>5. \A k \in 1..Len(unsaid) : unsaid[k] = Said + k
  BY DEF BufferInOrder
<1>6. Said + Len(unsaid) = fact
  BY <1>1 DEF Said
<1>7. \A k \in 1..Len(unsaid) : Drained[k].kind = "memory" /\ Drained[k].fact = Said + k
  <2> TAKE k \in 1..Len(unsaid)
  <2>1. Drained[k] = [kind |-> "memory", fact |-> unsaid[k]] /\ unsaid[k] = Said + k
    BY <1>4, <1>5
  <2> HIDE DEF Drained, Said
  <2> QED  BY <2>1
<1> QED  BY <1>3, <1>6, <1>7

LEMMA EventTypes ==
  ASSUME NEW es \in Seq(Events)
  PROVE  Len(es) \in Nat /\ \A k \in 1..Len(es) : es[k].kind \in Kinds /\ es[k].fact \in Nat
<1>1. \A k \in 1..Len(es) : es[k] \in Events
  OBVIOUS
<1> QED  BY <1>1 DEF Events

LEMMA OneEvent ==
  ASSUME NEW kind \in Kinds
  PROVE  <<Event(kind)>> \in Seq(Events) /\ Len(<<Event(kind)>>) = 1
         /\ <<Event(kind)>>[1].kind = kind
BY DEF Event, Events

LEMMA PublicationFacts == Types /\ BufferInOrder /\ Publishes => \E es : Published(es)
<1> SUFFICES ASSUME Types, BufferInOrder, Publishes  PROVE \E es : Published(es)
  OBVIOUS
<1>0. /\ unsaid \in Seq(Nat) /\ Len(unsaid) \in Nat /\ fact \in Nat /\ Said \in Nat
      /\ unsaid # <<>> => Len(unsaid) > 0
  <2>1. unsaid \in Seq(Nat) /\ fact \in Nat /\ Said \in Nat
    BY DEF Types, AgentTypes, BufferInOrder
  <2>2. unsaid # <<>> => Len(unsaid) \in Nat \ {0}
    BY <2>1, EmptySeq, Zenon
  <2> QED  BY <2>1, <2>2
<1>d. /\ Drained \in Seq(Events) /\ Len(Drained) = Len(unsaid)
      /\ \A k \in 1..Len(unsaid) : Drained[k].kind = "memory" /\ Drained[k].fact = Said + k
      /\ Said + Len(unsaid) = fact
  BY DrainedEvents
<1>k. /\ "memory" \notin Endings /\ "action" \notin Endings /\ "llm_call" \notin Endings
      /\ Endings \subseteq Kinds /\ {"action", "llm_call"} \subseteq Kinds
  BY DEF Endings, Kinds, Hidden
<1>1. CASE AgentEmits
  <2>1. PICK es \in {<<>>, <<Event("action")>>} : Publish(es \o Drained)
    BY <1>1 DEF AgentEmits
  <2>2. es \in Seq(Events) /\ Len(es) \in 0..1 /\ \A k \in 1..Len(es) : es[k].kind = "action"
    <3>1. CASE es = <<>>
      BY <3>1
    <3>2. CASE es = <<Event("action")>>
      <4>1. "action" \in Kinds
        BY <1>k
      <4>2. es \in Seq(Events) /\ Len(es) = 1 /\ es[1].kind = "action"
        BY <3>2, <4>1, OneEvent, Zenon
      <4> QED  BY <4>2
    <3> QED  BY <3>1, <3>2
  <2>3. /\ es \o Drained \in Seq(Events) /\ Len(es \o Drained) = Len(es) + Len(unsaid)
        /\ \A k \in 1..Len(es) + Len(unsaid) :
             (es \o Drained)[k] = IF k <= Len(es) THEN es[k] ELSE Drained[k - Len(es)]
    <3>1. es \in Seq(Events) /\ Drained \in Seq(Events) /\ Len(Drained) = Len(unsaid)
      BY <1>d, <2>2
    <3> HIDE DEF Drained
    <3>2. es \in Seq(Events) /\ Drained \in Seq(Events)
      BY <3>1
    <3>3. es \o Drained \in Seq(Events) /\ Len(es \o Drained) = Len(es) + Len(Drained)
      BY <3>2, ConcatProperties, Zenon
    <3>4. \A k \in 1..Len(es) + Len(Drained) :
            (es \o Drained)[k] = IF k <= Len(es) THEN es[k] ELSE Drained[k - Len(es)]
      BY <3>2, ConcatProperties, Zenon
    <3> QED  BY <3>1, <3>3, <3>4, Zenon
  <2>4. \A k \in 1..Len(es) + Len(unsaid) :
          \/ (es \o Drained)[k].kind = "action"
          \/ k > Len(es) /\ (es \o Drained)[k].kind = "memory" /\ (es \o Drained)[k].fact = Said + (k - Len(es))
    BY <1>0, <1>d, <2>2, <2>3
  <2>5. unsaid' = <<>> /\ fact' = fact /\ Said' = fact
    BY <1>1, <1>0 DEF AgentEmits, Said
  <2>6. unsaid # <<>> =>
          \E k \in 1..Len(es \o Drained) : (es \o Drained)[k].kind = "memory" /\ (es \o Drained)[k].fact = fact
    <3> DEFINE n == Len(es) + Len(unsaid)
    <3> SUFFICES ASSUME unsaid # <<>>  PROVE (es \o Drained)[n].kind = "memory" /\ (es \o Drained)[n].fact = fact
                                            /\ n \in 1..Len(es \o Drained)
      OBVIOUS
    <3>1. n \in 1..n /\ n > Len(es) /\ n - Len(es) = Len(unsaid) /\ Len(unsaid) \in 1..Len(unsaid)
      BY <1>0, <2>2
    <3>2. (es \o Drained)[n] = Drained[Len(unsaid)] /\ n \in 1..Len(es \o Drained)
      <4>1. n \in Int /\ Len(es) \in Int /\ ~ (n <= Len(es)) /\ Len(es \o Drained) = n
        BY <1>0, <2>2, <2>3, <3>1
      <4> HIDE DEF Drained
      <4> QED  BY <2>3, <3>1, <4>1
    <3>3. Drained[Len(unsaid)].kind = "memory" /\ Drained[Len(unsaid)].fact = fact
      BY <1>d, <3>1
    <3> QED  BY <3>2, <3>3
  <2>7. Published(es \o Drained)
    <3> DEFINE x == es \o Drained
    <3>1. /\ \A k \in 1..Len(x) : x[k].kind \notin Endings /\ x[k].kind # "result"
          /\ \A k \in 1..Len(x) : x[k].kind = "memory" => Said <= x[k].fact /\ x[k].fact <= fact
          /\ \A j, k \in 1..Len(x) : j < k /\ x[j].kind = "memory" /\ x[k].kind = "memory"
                                       => x[j].fact <= x[k].fact
      <4>1. Len(x) = Len(es) + Len(unsaid) /\ Len(es) \in Nat
        BY <2>2, <2>3
      <4>2. \A k \in 1..Len(x) :
              \/ x[k].kind = "action"
              \/ k > Len(es) /\ x[k].kind = "memory" /\ x[k].fact = Said + (k - Len(es))
        BY <2>4, <4>1
      <4>3. Said \in Nat /\ Len(unsaid) \in Nat /\ Said + Len(unsaid) = fact
        BY <1>0, <1>d
      <4> HIDE DEF x
      <4>4. \A k \in 1..Len(x) : x[k].kind \notin Endings /\ x[k].kind # "result"
        BY <1>k, <4>2
      <4>5. \A k \in 1..Len(x) : x[k].kind = "memory" =>
              k > Len(es) /\ x[k].fact = Said + (k - Len(es))
        BY <4>2
      <4>6. /\ \A k \in 1..Len(x) : x[k].kind = "memory" => Said <= x[k].fact /\ x[k].fact <= fact
            /\ \A j, k \in 1..Len(x) : j < k /\ x[j].kind = "memory" /\ x[k].kind = "memory"
                                         => x[j].fact <= x[k].fact
        BY <4>1, <4>3, <4>5
      <4> QED  BY <4>4, <4>6
    <3>2. Running /\ Publish(x) /\ x \in Seq(Events)
      BY <1>1, <2>1, <2>3 DEF AgentEmits
    <3>3. UNCHANGED <<fact, known, wire, job, database, browser, failed, missed, rewound>>
      BY <1>1 DEF AgentEmits
    <3> HIDE DEF x
    <3>4. unsaid # <<>> => \E k \in 1..Len(x) : x[k].kind = "memory" /\ x[k].fact = fact
      BY <2>6 DEF x
    <3>5. Published(x)
      BY <2>5, <3>1, <3>2, <3>3, <3>4 DEF Published
    <3> QED  BY <3>5 DEF x
  <2> QED  BY <2>7
<1>2. CASE RecordLlmCall
  <2> DEFINE x == <<Event("llm_call")>>
  <2>1. x \in Seq(Events) /\ Len(x) = 1 /\ x[1].kind = "llm_call"
    BY <1>k, OneEvent
  <2>2. Running /\ Publish(x) /\ unsaid' = unsaid
        /\ UNCHANGED <<fact, known, wire, job, database, browser, failed, missed, rewound>>
    BY <1>2 DEF RecordLlmCall, agent
  <2> HIDE DEF x
  <2>3. Published(x)
    BY <1>k, <2>1, <2>2 DEF Published
  <2> QED  BY <2>3
<1>3. CASE AgentBreaks
  <2>1. PICK kind \in {"error", "cancelled"} : Publish(<<Event(kind)>>)
    BY <1>3 DEF AgentBreaks
  <2> DEFINE x == <<Event(kind)>>
  <2>2. x \in Seq(Events) /\ Len(x) = 1 /\ x[1].kind = kind
    BY <1>k, OneEvent DEF Endings
  <2>3. Running /\ Publish(x) /\ unsaid' = <<>>
        /\ UNCHANGED <<fact, known, wire, job, database, browser, failed, missed, rewound>>
    BY <1>3, <2>1 DEF AgentBreaks
  <2> HIDE DEF x
  <2>4. Published(x)
    BY <1>k, <2>2, <2>3 DEF Published
  <2> QED  BY <2>4
<1>4. CASE AgentEnds
  <2>1. PICK kind \in {"result", "cancelled"} : Publish(Drained \o <<Event(kind)>>)
    BY <1>4 DEF AgentEnds
  <2> DEFINE x == Drained \o <<Event(kind)>>
  <2>2. <<Event(kind)>> \in Seq(Events) /\ Len(<<Event(kind)>>) = 1 /\ <<Event(kind)>>[1].kind = kind
    BY <1>k, OneEvent DEF Endings
  <2>3. /\ x \in Seq(Events) /\ Len(x) = Len(unsaid) + 1
        /\ \A k \in 1..Len(unsaid) + 1 :
             x[k] = IF k <= Len(unsaid) THEN Drained[k] ELSE <<Event(kind)>>[k - Len(unsaid)]
    <3> DEFINE e == <<Event(kind)>>
    <3>1. e \in Seq(Events) /\ Len(e) = 1 /\ Drained \in Seq(Events) /\ Len(Drained) = Len(unsaid)
      BY <1>d, <2>2
    <3> HIDE DEF e, Drained
    <3>2. /\ Drained \o e \in Seq(Events) /\ Len(Drained \o e) = Len(unsaid) + 1
          /\ \A k \in 1..Len(unsaid) + 1 :
               (Drained \o e)[k] = IF k <= Len(unsaid) THEN Drained[k] ELSE e[k - Len(unsaid)]
      <4>0. e \in Seq(Events) /\ Drained \in Seq(Events)
        BY <3>1
      <4>1. Drained \o e \in Seq(Events) /\ Len(Drained \o e) = Len(Drained) + Len(e)
        BY <4>0, ConcatProperties, Zenon
      <4>2. \A k \in 1..Len(Drained) + Len(e) :
              (Drained \o e)[k] = IF k <= Len(Drained) THEN Drained[k] ELSE e[k - Len(Drained)]
        BY <4>0, ConcatProperties, Zenon
      <4> QED  BY <3>1, <4>1, <4>2
    <3> QED  BY <3>2 DEF e
  <2>4. Running /\ Publish(x) /\ unsaid' = <<>> /\ Said' = fact
        /\ UNCHANGED <<fact, known, wire, job, database, browser, failed, missed, rewound>>
    BY <1>0, <1>4, <2>1 DEF AgentEnds, Said
  <2> HIDE DEF x
  <2>5. /\ \A k \in 1..Len(unsaid) : x[k].kind = "memory" /\ x[k].fact = Said + k
        /\ x[Len(unsaid) + 1].kind = kind /\ kind # "memory"
    <3>1. x[Len(unsaid) + 1] = <<Event(kind)>>[1]
      BY <1>0, <2>3
    <3>2. \A k \in 1..Len(unsaid) : x[k] = Drained[k]
      BY <1>0, <2>3
    <3> QED  BY <1>d, <2>2, <3>1, <3>2
  <2>6. /\ \A k \in 1..Len(x) : x[k].kind \in Endings => k = Len(x)
        /\ \A k \in 1..Len(x) : x[k].kind = "memory" => Said <= x[k].fact /\ x[k].fact <= fact
        /\ \A j, k \in 1..Len(x) : j < k /\ x[j].kind = "memory" /\ x[k].kind = "memory"
                                     => x[j].fact <= x[k].fact
    <3>1. Len(x) = Len(unsaid) + 1 /\ Len(unsaid) \in Nat
          /\ Said \in Nat /\ Said + Len(unsaid) = fact
      BY <1>0, <1>d, <2>3
    <3>2. \A k \in 1..Len(x) : k # Len(x) => k \in 1..Len(unsaid)
      BY <3>1
    <3>3. x[Len(x)].kind # "memory"
      BY <2>5, <3>1
    <3> QED  BY <1>k, <2>5, <3>1, <3>2, <3>3
  <2>7. unsaid # <<>> => \E k \in 1..Len(x) : x[k].kind = "memory" /\ x[k].fact = fact
    <3> SUFFICES ASSUME unsaid # <<>>
                 PROVE  /\ Len(unsaid) \in 1..Len(x)
                        /\ x[Len(unsaid)].kind = "memory" /\ x[Len(unsaid)].fact = fact
      OBVIOUS
    <3>1. Len(unsaid) \in 1..Len(unsaid) /\ Len(unsaid) \in 1..Len(unsaid) + 1
      BY <1>0
    <3>2. x[Len(unsaid)] = Drained[Len(unsaid)] /\ Len(unsaid) \in 1..Len(x)
      BY <2>3, <3>1
    <3>3. Drained[Len(unsaid)].kind = "memory" /\ Drained[Len(unsaid)].fact = fact
      BY <1>d, <3>1
    <3> QED  BY <3>2, <3>3
  <2>8. Published(x)
    BY <2>3, <2>4, <2>6, <2>7 DEF Published
  <2> QED  BY <2>8
<1> QED  BY <1>1, <1>2, <1>3, <1>4 DEF Publishes

\* The buffer and the queue after a publication.
LEMMA PublicationEffect ==
  ASSUME Types, BufferInOrder, NEW es, Published(es)
  PROVE  /\ buffer' \in Seq(Events) /\ Len(buffer') = Len(buffer) + Len(es)
         /\ \A k \in 1..Len(buffer) : buffer'[k] = buffer[k]
         /\ \A k \in 1..Len(es) : buffer'[Len(buffer) + k] = es[k]
         /\ \A k \in 1..Len(buffer') :
              \/ k \in 1..Len(buffer) /\ buffer'[k] = buffer[k]
              \/ k > Len(buffer) /\ k - Len(buffer) \in 1..Len(es) /\ buffer'[k] = es[k - Len(buffer)]
         /\ Len(es) \in Nat /\ Len(buffer) \in Nat
<1>1. es \in Seq(Events) /\ buffer \in Seq(Events) /\ buffer' = buffer \o es
  BY DEF Published, Publish, Types, AgentTypes, Events
<1>2. /\ buffer' \in Seq(Events) /\ Len(buffer') = Len(buffer) + Len(es)
      /\ \A i \in 1..Len(buffer) + Len(es) :
           buffer'[i] = IF i <= Len(buffer) THEN buffer[i] ELSE es[i - Len(buffer)]
  BY <1>1, ConcatProperties, Zenon
<1> QED  BY <1>1, <1>2

-----------------------------------------------------------------------------
(* The agent's edits and the buffer.                                       *)

\* Every other step leaves the agent and the buffer alone.
LEMMA AgentAlone ==
  [Next]_vars => \/ Publishes \/ AgentRemembers \/ ExecutorRestarts
                 \/ UNCHANGED <<fact, unsaid, buffer>> /\ (known' => known)
<1>1. StreamSteps => UNCHANGED <<fact, unsaid, buffer, known>>
  BY DEF StreamSteps, StreamTurns, StreamReplays, StreamFollows, StreamDrained, agent
<1>2. JobSteps => UNCHANGED <<fact, unsaid, buffer, known>>
  BY DEF JobSteps, JobConnects, JobReads, JobApplies, JobStores, JobEmits, JobFinishes, JobAnnounces,
         JobLosesStream, JobResumes, UnchangedByJob, agent, stream
<1>3. BrowserSteps => UNCHANGED <<fact, unsaid, buffer, known>>
  BY DEF BrowserSteps, BrowserAsks, BrowserLoads, BrowserOpens, BrowserSubscribes, BrowserReplays,
         BrowserChecks, BrowserResyncs, BrowserRechecks, BrowserFinishes, ListAndSend,
         UnchangedByPage, agent, stream
<1>4. ExecutorSweeps => UNCHANGED <<fact, unsaid, buffer>> /\ ~known'
  BY DEF ExecutorSweeps, agent
<1>5. ConnectionBreaks \/ JobCannotConnect \/ JobCannotStore \/ AppCrashes \/ BrowserDrops
        => UNCHANGED <<fact, unsaid, buffer, known>>
  BY DEF ConnectionBreaks, JobCannotConnect, JobCannotStore, AppCrashes,
         BrowserDrops, UnchangedByPage, agent, stream
<1> QED  BY <1>1, <1>2, <1>3, <1>4, <1>5 DEF Next, AgentSteps, Faults, Publishes, vars

LEMMA EditsInOrder ==
  ASSUME Types, BufferInOrder, ResultHasAll, [Next]_vars
  PROVE  BufferInOrder' /\ ResultHasAll'
<1>t. /\ fact \in Nat /\ unsaid \in Seq(Nat) /\ Len(unsaid) \in Nat /\ Said \in Nat
      /\ Len(buffer) \in Nat
      /\ \A k \in 1..Len(buffer) : buffer[k].fact \in Nat
  <2>1. buffer \in Seq(Events) /\ fact \in Nat /\ unsaid \in Seq(Nat) /\ Said \in Nat
    BY DEF Types, AgentTypes, BufferInOrder, Events
  <2>2. Len(buffer) \in Nat /\ \A k \in 1..Len(buffer) : buffer[k].fact \in Nat
    <3> HIDE DEF Events
    <3> QED  BY <2>1, EventTypes, Zenon
  <2> QED  BY <2>1, <2>2
<1>k. "memory" \notin Endings /\ "result" \in Endings
  BY DEF Endings
<1>1. CASE Publishes
  <2>1. PICK es : Published(es)
    BY <1>1, PublicationFacts
  <2>2. /\ Len(buffer') = Len(buffer) + Len(es) /\ Len(es) \in Nat
        /\ \A k \in 1..Len(buffer) : buffer'[k] = buffer[k]
        /\ \A k \in 1..Len(es) : buffer'[Len(buffer) + k] = es[k]
        /\ \A k \in 1..Len(buffer') :
             \/ k \in 1..Len(buffer) /\ buffer'[k] = buffer[k]
             \/ k > Len(buffer) /\ k - Len(buffer) \in 1..Len(es) /\ buffer'[k] = es[k - Len(buffer)]
    BY <2>1, PublicationEffect
  <2>3. /\ Running /\ fact' = fact /\ known' = known
        /\ \/ unsaid' = unsaid
           \/ unsaid' = <<>> /\ unsaid # <<>> /\ \E k \in 1..Len(es) : es[k].kind = "memory" /\ es[k].fact = fact
           \/ unsaid' = <<>> /\ Len(es) > 0 /\ es[Len(es)].kind \in {"error", "cancelled"}
        /\ \A k \in 1..Len(es) : es[k].kind = "result" => unsaid' = <<>>
    BY <2>1 DEF Published
  <2>4. /\ \A k \in 1..Len(es) : es[k].kind \in Endings => k = Len(es)
        /\ \A k \in 1..Len(es) : es[k].kind = "memory" => Said <= es[k].fact /\ es[k].fact <= Said'
        /\ \A j, k \in 1..Len(es) : j < k /\ es[j].kind = "memory" /\ es[k].kind = "memory"
                                      => es[j].fact <= es[k].fact
        /\ \A k \in 1..Len(es) : es[k].fact \in Nat
    <3>1. es \in Seq(Events)
      BY <2>1 DEF Published
    <3>2. \A k \in 1..Len(es) : es[k].fact \in Nat
      BY <3>1, EventTypes
    <3> QED  BY <2>1, <3>2 DEF Published
  <2>5. Said' \in Nat /\ Said <= Said' /\ (unsaid' = <<>> => Said' = fact) /\ (unsaid' = unsaid => Said' = Said)
    <3>1. unsaid' = unsaid => Said' = Said
      BY <2>3 DEF Said
    <3>2. unsaid' = <<>> => Said' = fact /\ Said <= fact
      BY <1>t, <2>3 DEF Said
    <3> QED  BY <1>t, <2>3, <3>1, <3>2
  <2>6. \A k \in 1..Len(buffer) : buffer[k].kind \notin Endings
    BY <2>3 DEF Running, Done
  <2>7. \A k \in 1..Len(unsaid') : unsaid'[k] = Said' + k
    <3>1. CASE unsaid' = unsaid
      BY <2>5, <3>1 DEF BufferInOrder
    <3>2. CASE unsaid' = <<>>
      BY <3>2
    <3> QED  BY <2>3, <3>1, <3>2
  <2>8. \A k \in 1..Len(buffer') : buffer'[k].kind \in Endings => k = Len(buffer')
    <3> SUFFICES ASSUME NEW k \in 1..Len(buffer'), buffer'[k].kind \in Endings
                 PROVE  k = Len(buffer')
      OBVIOUS
    <3>1. k > Len(buffer) /\ k - Len(buffer) \in 1..Len(es) /\ es[k - Len(buffer)].kind \in Endings
      BY <2>2, <2>6
    <3>2. k - Len(buffer) = Len(es)
      BY <2>4, <3>1
    <3> QED  BY <1>t, <2>2, <3>1, <3>2
  <2>9. \A k \in 1..Len(buffer') : buffer'[k].kind = "memory" => buffer'[k].fact <= Said'
    <3> SUFFICES ASSUME NEW k \in 1..Len(buffer'), buffer'[k].kind = "memory"
                 PROVE  buffer'[k].fact <= Said'
      OBVIOUS
    <3>1. CASE k \in 1..Len(buffer) /\ buffer'[k] = buffer[k]
      <4>1. buffer[k].fact <= Said /\ buffer[k].fact \in Nat
        BY <1>t, <3>1 DEF BufferInOrder
      <4> QED  BY <1>t, <2>5, <3>1, <4>1
    <3>2. CASE k - Len(buffer) \in 1..Len(es) /\ buffer'[k] = es[k - Len(buffer)]
      BY <2>4, <3>2
    <3> QED  BY <2>2, <3>1, <3>2
  <2>10. \A j, k \in 1..Len(buffer') : j < k /\ buffer'[j].kind = "memory" /\ buffer'[k].kind = "memory"
                                    => buffer'[j].fact <= buffer'[k].fact
    <3> SUFFICES ASSUME NEW j \in 1..Len(buffer'), NEW k \in 1..Len(buffer'), j < k,
                        buffer'[j].kind = "memory", buffer'[k].kind = "memory"
                 PROVE  buffer'[j].fact <= buffer'[k].fact
      OBVIOUS
    <3> DEFINE Old(i) == i \in 1..Len(buffer) /\ buffer'[i] = buffer[i]
               Fresh(i) == /\ i > Len(buffer) /\ i - Len(buffer) \in 1..Len(es)
                           /\ buffer'[i] = es[i - Len(buffer)]
    <3>1. CASE Old(j) /\ Old(k)
      BY <3>1 DEF BufferInOrder
    <3>2. CASE Fresh(j) /\ Fresh(k)
      <4>1. j - Len(buffer) < k - Len(buffer)
        BY <1>t
      <4> QED  BY <2>4, <3>2, <4>1
    <3>3. CASE Old(j) /\ Fresh(k)
      <4>1. buffer[j].fact <= Said /\ buffer[j].fact \in Nat
        BY <1>t, <3>3 DEF BufferInOrder
      <4>2. Said <= buffer'[k].fact /\ buffer'[k].fact \in Nat
        BY <2>4, <3>3
      <4>3. buffer'[j] = buffer[j] /\ Said \in Nat
        BY <1>t, <3>3
      <4>4. buffer[j].fact <= buffer'[k].fact
        BY <4>1, <4>2, <4>3
      <4> QED  BY <4>3, <4>4
    <3>4. ~ (Fresh(j) /\ Old(k))
      BY <1>t
    <3> QED  BY <2>2, <3>1, <3>2, <3>3, <3>4
  <2>11. LastSaid /\ (unsaid' = unsaid \/ \E k \in 1..Len(es) : es[k].kind = "memory" /\ es[k].fact = fact)
           /\ (unsaid' = unsaid \/ unsaid' = <<>>)
           => LastSaid'
    <3> SUFFICES ASSUME LastSaid, unsaid' = unsaid \/ unsaid' = <<>>,
                        unsaid' = unsaid \/ \E k \in 1..Len(es) : es[k].kind = "memory" /\ es[k].fact = fact
                 PROVE  LastSaid'
      OBVIOUS
    <3>1. CASE unsaid' = unsaid
      <4>1. Said' = Said
        BY <2>5, <3>1
      <4>2. \A k \in 1..Len(buffer) : k \in 1..Len(buffer') /\ buffer'[k] = buffer[k]
        <5>1. Len(buffer') = Len(buffer) + Len(es) /\ Len(es) \in Nat /\ Len(buffer) \in Nat
          BY <1>t, <2>2
        <5>2. \A k \in 1..Len(buffer) : k \in 1..Len(buffer')
          BY <5>1
        <5> QED  BY <2>2, <5>2
      <4> QED  BY <4>1, <4>2 DEF LastSaid
    <3>2. CASE unsaid' = <<>> /\ \E k \in 1..Len(es) : es[k].kind = "memory" /\ es[k].fact = fact
      <4>1. PICK k \in 1..Len(es) : es[k].kind = "memory" /\ es[k].fact = fact
        BY <3>2
      <4>2. Len(buffer) + k \in 1..Len(buffer') /\ buffer'[Len(buffer) + k] = es[k]
        BY <1>t, <2>2
      <4>3. Said' = fact
        BY <2>5, <3>2
      <4> QED  BY <4>1, <4>2, <4>3 DEF LastSaid
    <3> QED  BY <3>1, <3>2
  <2>12. LastSaid
    BY <2>3 DEF ResultHasAll
  <2>13. Running' => LastSaid'
    <3> SUFFICES ASSUME Running'  PROVE LastSaid'
      OBVIOUS
    <3>1. ~ (Len(es) > 0 /\ es[Len(es)].kind \in {"error", "cancelled"})
      <4> SUFFICES ASSUME Len(es) > 0, es[Len(es)].kind \in {"error", "cancelled"}  PROVE FALSE
        OBVIOUS
      <4>1. Len(buffer') \in 1..Len(buffer') /\ buffer'[Len(buffer')] = es[Len(es)]
        BY <1>t, <2>2
      <4> QED  BY <4>1 DEF Running, Done, Endings
    <3> QED  BY <2>3, <2>11, <2>12, <3>1
  <2>14. \A k \in 1..Len(buffer') : buffer'[k].kind = "result" => unsaid' = <<>> /\ LastSaid'
    <3> SUFFICES ASSUME NEW k \in 1..Len(buffer'), buffer'[k].kind = "result"
                 PROVE  unsaid' = <<>> /\ LastSaid'
      OBVIOUS
    <3>1. k - Len(buffer) \in 1..Len(es) /\ es[k - Len(buffer)].kind = "result"
      BY <1>k, <2>2, <2>6
    <3>2. k - Len(buffer) = Len(es)
      BY <1>k, <2>4, <3>1
    <3>3. es[Len(es)].kind = "result" /\ unsaid' = <<>>
      BY <2>3, <3>1, <3>2
    <3>4. "result" \notin {"error", "cancelled"}
      OBVIOUS
    <3> QED  BY <2>3, <2>11, <2>12, <3>3, <3>4
  <2> QED  BY <2>5, <2>7, <2>8, <2>9, <2>10, <2>13, <2>14 DEF BufferInOrder, ResultHasAll
<1>2. CASE AgentRemembers
  <2>1. fact' = fact + 1 /\ unsaid' = Append(unsaid, fact + 1) /\ UNCHANGED <<buffer, known>> /\ Running
    BY <1>2 DEF AgentRemembers, stream
  <2>2. /\ Len(unsaid') = Len(unsaid) + 1 /\ unsaid'[Len(unsaid) + 1] = fact + 1
        /\ \A k \in 1..Len(unsaid) : unsaid'[k] = unsaid[k]
    BY <1>t, <2>1
  <2>3. Said' = Said /\ fact + 1 = Said + Len(unsaid) + 1
    BY <1>t, <2>1, <2>2 DEF Said
  <2>4. \A k \in 1..Len(unsaid') : unsaid'[k] = Said' + k
    <3> TAKE k \in 1..Len(unsaid')
    <3>1. CASE k \in 1..Len(unsaid)
      BY <2>2, <2>3, <3>1 DEF BufferInOrder
    <3>2. CASE k = Len(unsaid) + 1
      BY <1>t, <2>2, <2>3, <3>2
    <3> QED  BY <1>t, <2>2, <3>1, <3>2
  <2>5. BufferInOrder'
    BY <1>t, <2>1, <2>3, <2>4 DEF BufferInOrder
  <2>6. LastSaid' /\ \A k \in 1..Len(buffer) : buffer[k].kind # "result"
    BY <1>k, <2>1, <2>3 DEF ResultHasAll, LastSaid, Running, Done
  <2> QED  BY <2>1, <2>5, <2>6 DEF ResultHasAll
<1>3. CASE ExecutorRestarts
  <2>1. UNCHANGED <<fact, buffer>> /\ unsaid' = <<>> /\ ~known'
    BY <1>3 DEF ExecutorRestarts
  <2>2. Said' = fact /\ Said <= fact
    BY <1>t, <2>1 DEF Said
  <2>3. BufferInOrder'
    BY <1>t, <2>1, <2>2 DEF BufferInOrder
  <2>4. unsaid = <<>> /\ LastSaid => LastSaid'
    BY <1>t, <2>1, <2>2 DEF LastSaid, Said
  <2> QED  BY <2>1, <2>3, <2>4 DEF ResultHasAll, Running
<1>4. CASE UNCHANGED <<fact, unsaid, buffer>> /\ (known' => known)
  <2>1. Said' = Said /\ (Done' <=> Done) /\ (known' => known)
    BY <1>4 DEF Said, Done
  <2>2. Running' => Running
    BY <2>1 DEF Running
  <2> QED  BY <1>4, <2>1, <2>2 DEF BufferInOrder, ResultHasAll, LastSaid
<1> QED  BY <1>1, <1>2, <1>3, <1>4, AgentAlone

-----------------------------------------------------------------------------
(* Who writes what.                                                        *)

Writers ==
  /\ Publishes \/ StreamSteps \/ ExecutorRestarts \/ ConnectionBreaks \/ JobConnects \/ JobReads
       \/ JobFinishes \/ JobLosesStream \/ JobCannotStore \/ AppCrashes \/ UNCHANGED <<sub, wire>>
  /\ JobSteps \/ JobCannotConnect \/ JobCannotStore \/ AppCrashes \/ job' = job
  /\ JobStores \/ JobCannotStore \/ UNCHANGED <<stored, missed>>
  /\ JobApplies \/ memory' = memory
  /\ JobFinishes \/ status' = status
  /\ JobEmits \/ JobAnnounces \/ AppCrashes \/ BrowserSteps \/ BrowserDrops \/ UNCHANGED <<page, seen>>
  /\ failed => failed'
  /\ rewound => rewound'

LEMMA EveryWriter == [Next]_vars => Writers
<1> SUFFICES ASSUME [Next]_vars  PROVE Writers
  OBVIOUS
<1> USE DEF agent, stream, database, browser, UnchangedByJob, UnchangedByPage
<1>1. CASE AgentSteps \/ AgentEnds
  <2>1. CASE Publishes
    BY <2>1 DEF Writers, Publishes, AgentEmits, RecordLlmCall, AgentEnds, AgentBreaks
  <2>2. CASE AgentRemembers
    BY <2>2 DEF Writers, AgentRemembers
  <2> QED  BY <1>1, <2>1, <2>2 DEF AgentSteps, Publishes
<1>2. CASE StreamSteps
  BY <1>2 DEF Writers, StreamSteps, StreamTurns, StreamReplays, StreamFollows, StreamDrained
<1>3. CASE JobSteps
  <2>1. CASE JobConnects
    BY <1>3, <2>1 DEF Writers, JobConnects
  <2>2. CASE JobReads
    BY <1>3, <2>2 DEF Writers, JobReads
  <2>3. CASE JobApplies
    BY <1>3, <2>3 DEF Writers, JobApplies
  <2>4. CASE JobStores
    BY <1>3, <2>4 DEF Writers, JobStores
  <2>5. CASE JobEmits
    BY <1>3, <2>5 DEF Writers, JobEmits
  <2>6. CASE JobFinishes
    BY <1>3, <2>6 DEF Writers, JobFinishes
  <2>7. CASE JobAnnounces
    BY <1>3, <2>7 DEF Writers, JobAnnounces
  <2>8. CASE JobLosesStream
    BY <1>3, <2>8 DEF Writers, JobLosesStream
  <2>9. CASE JobResumes
    BY <1>3, <2>9 DEF Writers, JobResumes
  <2> QED  BY <1>3, <2>1, <2>2, <2>3, <2>4, <2>5, <2>6, <2>7, <2>8, <2>9 DEF JobSteps
<1>4. CASE BrowserSteps
  BY <1>4 DEF Writers, BrowserSteps, BrowserAsks, BrowserLoads, BrowserOpens, BrowserSubscribes,
              BrowserReplays, BrowserChecks, BrowserResyncs, BrowserRechecks, BrowserFinishes,
              ListAndSend
<1>5. CASE Faults
  <2>1. CASE ExecutorRestarts
    BY <2>1 DEF Writers, ExecutorRestarts
  <2>2. CASE ExecutorSweeps
    BY <2>2 DEF Writers, ExecutorSweeps
  <2>3. CASE ConnectionBreaks
    BY <2>3 DEF Writers, ConnectionBreaks
  <2>4. CASE JobCannotConnect
    BY <2>4 DEF Writers, JobCannotConnect
  <2>5. CASE JobCannotStore
    BY <2>5 DEF Writers, JobCannotStore
  <2>6. CASE AppCrashes
    BY <2>6 DEF Writers, AppCrashes
  <2>7. CASE BrowserDrops
    BY <2>7 DEF Writers, BrowserDrops
  <2> QED  BY <1>5, <2>1, <2>2, <2>3, <2>4, <2>5, <2>6, <2>7 DEF Faults
<1>6. CASE UNCHANGED vars
  BY <1>6 DEF Writers, vars
<1> QED  BY <1>1, <1>2, <1>3, <1>4, <1>5, <1>6 DEF Next

-----------------------------------------------------------------------------
(* Types.                                                                  *)

LEMMA JobFields ==
  JobTypes => /\ job.after \in Int /\ job.last \in Int /\ job.item \in Int
              /\ job.attempt \in Nat /\ job.idle \in Nat /\ job.ends \in Statuses
BY DEF JobTypes, JobRecords

LEMMA SubFields ==
  StreamTypes => /\ sub.replay \in Seq(Int) /\ sub.queue \in Seq(Int) /\ sub.last \in Int
                 /\ Len(sub.replay) \in Nat /\ Len(sub.queue) \in Nat /\ Len(wire) \in Nat
BY DEF StreamTypes, StreamRecords

LEMMA QueuedType ==
  ASSUME AgentTypes, NEW es \in Seq(Events)
  PROVE  Queued(es) \in Seq(Int)
<1>1. Len(buffer) \in Nat /\ Len(es) \in Nat
  BY DEF AgentTypes
<1>2. [k \in 1..Len(es) |-> Len(buffer) + k - 1] \in Seq(Int)
  BY <1>1
<1>3. <<Closed>> \in Seq(Int) /\ <<>> \in Seq(Int)
  BY DEF Closed
<1> QED  BY <1>2, <1>3 DEF Queued

LEMMA ReplayedType ==
  ASSUME AgentTypes, NEW after \in Int, after < Len(buffer)
  PROVE  Replayed(after) \in Seq(Int) /\ Len(Replayed(after)) = Len(buffer) - after - 1
         /\ \A k \in 1..Len(Replayed(after)) : Replayed(after)[k] = after + k
<1>1. Len(buffer) - after - 1 \in Nat
  BY DEF AgentTypes
<1>2. Len(buffer) \in Nat
  BY DEF AgentTypes
<1> QED  BY <1>1, <1>2 DEF Replayed

LEMMA AgentTypesKept ==
  ASSUME Types, BufferInOrder, [Next]_vars
  PROVE  AgentTypes'
<1>1. CASE Publishes
  <2>1. PICK es : Published(es)
    BY <1>1, PublicationFacts
  <2>2. buffer' \in Seq([kind : Kinds, fact : Nat])
    BY <2>1, PublicationEffect DEF Events
  <2>3. fact' = fact /\ (unsaid' = unsaid \/ unsaid' = <<>>)
    BY <2>1 DEF Published
  <2>4. fact' \in Nat /\ unsaid' \in Seq(Nat)
    <3>1. fact \in Nat /\ unsaid \in Seq(Nat)
      BY DEF Types, AgentTypes
    <3>2. <<>> \in Seq(Nat)
      OBVIOUS
    <3> QED  BY <2>3, <3>1, <3>2
  <2> QED  BY <2>2, <2>4 DEF AgentTypes
<1>2. CASE AgentRemembers
  BY <1>2 DEF AgentRemembers, Types, AgentTypes
<1>3. CASE ExecutorRestarts
  BY <1>3 DEF ExecutorRestarts, Types, AgentTypes
<1>4. CASE UNCHANGED <<fact, unsaid, buffer>>
  BY <1>4 DEF Types, AgentTypes
<1> QED  BY <1>1, <1>2, <1>3, <1>4, AgentAlone

LEMMA StreamTypesKept ==
  ASSUME Types, BufferInOrder, StoreFollows, [Next]_vars
  PROVE  StreamTypes'
<1>t. /\ StreamTypes /\ AgentTypes /\ JobTypes
      /\ \A st \in {"none", "broken", "closed", "replay"} : NoStream(st) \in StreamRecords
  BY DEF Types, NoStream, Streaming, StreamRecords
<1> USE DEF StreamTypes, StreamRecords
<1>1. CASE Publishes
  <2>1. PICK es : Published(es)
    BY <1>1, PublicationFacts
  <2>2. es \in Seq(Events) /\ wire' = wire
        /\ sub' \in {sub, [sub EXCEPT !.queue = @ \o Queued(es)]}
    BY <2>1 DEF Published, Publish
  <2>3. Queued(es) \in Seq(Int)
    BY <1>t, <2>2, QueuedType
  <2>4. sub.queue \o Queued(es) \in Seq(Int)
    BY <1>t, <2>3
  <2> QED  BY <1>t, <2>2, <2>4
<1>2. CASE StreamTurns
  BY <1>t, <1>2 DEF StreamTurns, Streaming
<1>3. CASE StreamReplays
  <2>1. Head(sub.replay) \in Int /\ Tail(sub.replay) \in Seq(Int)
    BY <1>t, <1>3 DEF StreamReplays
  <2>2. wire' = <<Head(sub.replay)>>
        /\ sub' = [sub EXCEPT !.replay = Tail(sub.replay), !.last = Head(sub.replay)]
    BY <1>3 DEF StreamReplays
  <2>3. wire' \in Seq(Int)
    BY <2>1, <2>2
  <2> QED  BY <1>t, <2>1, <2>2, <2>3
<1>4. CASE StreamFollows
  <2>1. Head(sub.queue) \in Int /\ Tail(sub.queue) \in Seq(Int)
    BY <1>t, <1>4 DEF StreamFollows
  <2>2. \/ wire' = <<Head(sub.queue)>> /\ sub' = [sub EXCEPT !.queue = Tail(@), !.last = Head(sub.queue)]
        \/ wire' = wire /\ (sub' = NoStream("closed") \/ sub' = [sub EXCEPT !.queue = Tail(@)])
    BY <1>t, <1>4 DEF StreamFollows
  <2>3. wire' \in Seq(Int)
    <3>1. wire \in Seq(Int) /\ <<Head(sub.queue)>> \in Seq(Int)
      BY <1>t, <2>1
    <3> QED  BY <2>2, <3>1
  <2>4. CASE sub' = NoStream("closed")
    BY <1>t, <2>3, <2>4
  <2>5. CASE sub' = [sub EXCEPT !.queue = Tail(@), !.last = Head(sub.queue)]
    BY <1>t, <2>1, <2>3, <2>5
  <2>6. CASE sub' = [sub EXCEPT !.queue = Tail(@)]
    BY <1>t, <2>1, <2>3, <2>6
  <2> QED  BY <2>2, <2>4, <2>5, <2>6
<1>5. CASE StreamDrained
  BY <1>t, <1>5 DEF StreamDrained
<1>6. CASE ExecutorRestarts
  BY <1>t, <1>6 DEF ExecutorRestarts
<1>7. CASE ConnectionBreaks
  BY <1>t, <1>7 DEF ConnectionBreaks
<1>8. CASE JobConnects
  <2>1. CASE known
    <3>1. sub' = [NoStream("replay") EXCEPT !.replay = Replayed(job.after), !.last = job.after] /\ wire' = <<>>
          /\ job.st = "connect"
      BY <1>8, <2>1 DEF JobConnects
    <3>2. job.after \in Int /\ job.after < Len(buffer)
      <4>1. job.after <= LastOf(stored) /\ LastOf(stored) \in -1..Len(buffer) - 1
        BY <3>1 DEF StoreFollows
      <4>2. job.after \in Int /\ Len(buffer) \in Nat
        BY <1>t, JobFields DEF AgentTypes
      <4> QED  BY <4>1, <4>2
    <3>3. Replayed(job.after) \in Seq(Int)
      BY <1>t, <3>2, ReplayedType
    <3> HIDE DEF Replayed
    <3> DEFINE r == Replayed(job.after)
               a == job.after
    <3>4. sub' = [NoStream("replay") EXCEPT !.replay = r, !.last = a] /\ r \in Seq(Int) /\ a \in Int
      BY <3>1, <3>2, <3>3
    <3> HIDE DEF r, a
    <3>5. wire' \in Seq(Int)
      BY <3>1
    <3>6. NoStream("replay") \in StreamRecords
      BY <1>t
    <3> QED  BY <3>4, <3>5, <3>6
  <2>2. CASE ~known
    BY <1>t, <1>8, <2>2 DEF JobConnects
  <2> QED  BY <2>1, <2>2
<1>9. CASE JobReads
  BY <1>t, <1>9 DEF JobReads
<1>10. CASE JobFinishes
  BY <1>t, <1>10 DEF JobFinishes
<1>11. CASE JobLosesStream
  BY <1>t, <1>11 DEF JobLosesStream
<1>12. CASE JobCannotStore
  BY <1>t, <1>12 DEF JobCannotStore
<1>13. CASE AppCrashes
  BY <1>t, <1>13 DEF AppCrashes
<1>14. CASE UNCHANGED <<sub, wire>>
  BY <1>t, <1>14
<1> QED  BY <1>1, <1>2, <1>3, <1>4, <1>5, <1>6, <1>7, <1>8, <1>9, <1>10, <1>11, <1>12, <1>13,
            <1>14, EveryWriter DEF Writers, StreamSteps

LEMMA AfterGapType ==
  ASSUME NEW j \in JobRecords, NEW threw \in BOOLEAN
  PROVE  /\ AfterGap(j, threw) \in JobRecords
         /\ AfterGap(j, threw).st \in {"connect", "finish"}
         /\ AfterGap(j, threw).st = "finish" => AfterGap(j, threw).ends = "failed"
         /\ AfterGap(j, threw).after = IF threw THEN j.after ELSE j.last
<1> DEFINE progress == j.last > j.after
           attempt == (IF progress /\ ~threw THEN 0 ELSE j.attempt) + 1
           idle == (IF progress THEN 0 ELSE j.idle) + 1
           after == IF threw THEN j.after ELSE j.last
           st == IF attempt < RECONNECT_ATTEMPTS THEN "connect" ELSE "finish"
           ends == IF attempt < RECONNECT_ATTEMPTS THEN j.ends ELSE "failed"
<1>1. attempt \in Nat /\ idle \in Nat /\ after \in Int /\ ends \in Statuses /\ -1 \in Int
      /\ st \in {"connect", "finish"} /\ (st = "finish" => ends = "failed")
      /\ after = IF threw THEN j.after ELSE j.last
  BY DEF Statuses, JobRecords
<1>2. AfterGap(j, threw) =
        [j EXCEPT !.attempt = attempt, !.item = -1, !.idle = idle, !.after = after, !.st = st, !.ends = ends]
  BY DEF AfterGap, JobRecords
<1> HIDE DEF attempt, idle, after, st, ends
<1>3. /\ st \in Connected \cup {"connect", "finish", "announce", "over", "boot"}
      /\ attempt \in Nat /\ idle \in Nat /\ after \in Int /\ ends \in Statuses /\ -1 \in Int
  BY <1>1
<1> DEFINE a == [j EXCEPT !.attempt = attempt, !.item = -1, !.idle = idle]
           b == [a EXCEPT !.after = after, !.st = st, !.ends = ends]
<1>4. a \in JobRecords
  BY <1>3 DEF JobRecords
<1>5. AfterGap(j, threw) = b
  BY <1>2 DEF JobRecords
<1> HIDE DEF a
<1>6. b \in JobRecords /\ b.st = st /\ b.ends = ends /\ b.after = after
  BY <1>3, <1>4 DEF JobRecords
<1> HIDE DEF b
<1> QED  BY <1>1, <1>5, <1>6

LEMMA StatusOfEnding ==
  ASSUME NEW kind \in Endings
  PROVE  /\ StatusOf(kind) \in Statuses /\ StatusOf(kind) # "running"
         /\ StatusOf(kind) = "succeeded" => kind = "result"
BY DEF Endings, StatusOf, Statuses

\* Where the job is when an event has been stored.
LEMMA PastType ==
  ASSUME JobTypes
  PROVE  /\ Past(job) \in JobRecords
         /\ Past(job).last = job.item /\ Past(job).after = job.after
         /\ IF Kind(job.item) \in Endings
              THEN Past(job).st = "finish" /\ Past(job).ends = StatusOf(Kind(job.item))
              ELSE Past(job).st = "read"
<1> DEFINE st == IF Kind(job.item) \in Endings THEN "finish" ELSE "read"
           ends == IF Kind(job.item) \in Endings THEN StatusOf(Kind(job.item)) ELSE job.ends
<1>1. st \in {"finish", "read"} /\ ends \in Statuses
  BY StatusOfEnding, JobFields
<1>2. Past(job) = [job EXCEPT !.last = job.item, !.item = -1, !.st = st, !.ends = ends]
  BY DEF Past, JobTypes, JobRecords
<1>3. st = (IF Kind(job.item) \in Endings THEN "finish" ELSE "read")
      /\ ends = (IF Kind(job.item) \in Endings THEN StatusOf(Kind(job.item)) ELSE job.ends)
  OBVIOUS
<1> HIDE DEF st, ends
<1>4. job.item \in Int /\ st \in Connected \cup {"finish"} /\ job \in JobRecords
  BY <1>1, JobFields DEF JobTypes, Connected
<1>5. \A x, i : i \in Int /\ x = [job EXCEPT !.last = i, !.item = -1, !.st = st, !.ends = ends]
        => x \in JobRecords
  <2>1. st \in Connected \cup {"connect", "finish", "announce", "over", "boot"} /\ -1 \in Int
    BY <1>1 DEF Connected
  <2> QED  BY <1>1, <1>4, <2>1 DEF JobRecords
<1>6. \A x, i : x = [job EXCEPT !.last = i, !.item = -1, !.st = st, !.ends = ends]
        => x.last = i /\ x.after = job.after /\ x.st = st /\ x.ends = ends
  BY <1>4 DEF JobRecords
<1> QED  BY <1>2, <1>3, <1>4, <1>5, <1>6

LEMMA NoJobType ==
  ASSUME NEW st \in {"announce", "over", "boot"}
  PROVE  NoJob(st) \in JobRecords /\ NoJob(st).st = st /\ NoJob(st).ends = "running"
BY DEF NoJob, JobRecords, Statuses

\* What JobResumes starts with.
Resumed == [job EXCEPT !.after = LastOf(stored), !.last = LastOf(stored), !.resumed = TRUE]

LEMMA Resuming ==
  ASSUME JobTypes, StoreFollows, JobResumes
  PROVE  \/ job' = NoJob("over") /\ status # "running"
         \/ /\ job' \in JobRecords /\ status = "running" /\ LastOf(stored) >= 0
            /\ job'.st = "finish" /\ Kind(LastOf(stored)) \in Endings
            /\ job'.ends = StatusOf(Kind(LastOf(stored)))
         \/ /\ job' \in JobRecords /\ status = "running"
            /\ job'.st = "connect" /\ job'.after = LastOf(stored)
<1>1. LastOf(stored) \in Int
  BY DEF StoreFollows
<1>2. Resumed \in JobRecords /\ Resumed.after = LastOf(stored)
  BY <1>1 DEF Resumed, JobTypes, JobRecords
<1>3. \/ job' = NoJob("over") /\ status # "running"
      \/ /\ status = "running" /\ LastOf(stored) >= 0 /\ Kind(LastOf(stored)) \in Endings
         /\ job' = [Resumed EXCEPT !.st = "finish", !.ends = StatusOf(Kind(LastOf(stored)))]
      \/ status = "running" /\ job' = [Resumed EXCEPT !.st = "connect"]
  BY DEF JobResumes, Resumed
<1>4. CASE /\ status = "running" /\ LastOf(stored) >= 0 /\ Kind(LastOf(stored)) \in Endings
           /\ job' = [Resumed EXCEPT !.st = "finish", !.ends = StatusOf(Kind(LastOf(stored)))]
  <2>1. StatusOf(Kind(LastOf(stored))) \in Statuses
    BY <1>4, StatusOfEnding
  <2> QED  BY <1>2, <1>4, <2>1 DEF JobRecords
<1>5. CASE status = "running" /\ job' = [Resumed EXCEPT !.st = "connect"]
  BY <1>2, <1>5 DEF JobRecords
<1> QED  BY <1>3, <1>4, <1>5

LEMMA JobTypesKept ==
  ASSUME Types, StoreFollows, [Next]_vars
  PROVE  JobTypes'
<1>t. JobTypes /\ StreamTypes /\ job \in JobRecords
  BY DEF Types, JobTypes
<1>1. CASE JobConnects
  <2>1. \/ job' = [job EXCEPT !.st = "read", !.last = job.after]
        \/ job' = [job EXCEPT !.st = "finish", !.ends = "lost"]
        \/ job' = [job EXCEPT !.st = "finish", !.ends = "failed"]
    BY <1>1 DEF JobConnects
  <2>2. {"lost", "failed"} \subseteq Statuses /\ "read" \in Connected
    BY DEF Statuses, Connected
  <2> QED  BY <1>t, <2>1, <2>2 DEF JobTypes, JobRecords
<1>2. CASE JobReads
  <2>1. Head(wire) \in Int
    BY <1>t, <1>2 DEF JobReads, StreamTypes
  <2>2. \E st \in {"apply", "store"} : job' = [job EXCEPT !.item = Head(wire), !.st = st]
    BY <1>2 DEF JobReads
  <2> QED  BY <1>t, <2>1, <2>2 DEF JobTypes, JobRecords, Connected
<1>3. CASE JobApplies
  BY <1>t, <1>3 DEF JobApplies, JobTypes, JobRecords, Connected
<1>4. CASE JobStores
  <2>1. job' = Past(job) \/ job' = [job EXCEPT !.st = "emit"]
    BY <1>4 DEF JobStores
  <2>2. [job EXCEPT !.st = "emit"] \in JobRecords
    BY <1>t DEF JobRecords, Connected
  <2> QED  BY <1>t, <2>1, <2>2, PastType DEF JobTypes
<1>5. CASE JobEmits
  BY <1>t, <1>5, PastType DEF JobEmits, JobTypes
<1>6. CASE JobFinishes
  BY <1>6, NoJobType DEF JobFinishes, JobTypes
<1>7. CASE JobAnnounces
  BY <1>7, NoJobType DEF JobAnnounces, JobTypes
<1>8. CASE JobLosesStream
  BY <1>t, <1>8, AfterGapType DEF JobLosesStream, JobTypes
<1>9. CASE JobResumes
  BY <1>t, <1>9, Resuming, NoJobType DEF JobTypes
<1>10. CASE JobCannotConnect
  <2>1. [job EXCEPT !.last = job.after] \in JobRecords
    BY <1>t DEF JobRecords
  <2> QED  BY <1>10, <2>1, AfterGapType DEF JobCannotConnect, JobTypes
<1>11. CASE JobCannotStore
  BY <1>t, <1>11, AfterGapType DEF JobCannotStore, JobTypes
<1>12. CASE AppCrashes
  BY <1>12, NoJobType DEF AppCrashes, JobTypes
<1>13. CASE job' = job
  BY <1>t, <1>13 DEF JobTypes
<1> QED  BY <1>1, <1>2, <1>3, <1>4, <1>5, <1>6, <1>7, <1>8, <1>9, <1>10, <1>11, <1>12, <1>13,
            EveryWriter DEF Writers, JobSteps

LEMMA DatabaseTypesKept ==
  ASSUME Types, StoreFollows, [Next]_vars
  PROVE  DatabaseTypes'
<1>t. DatabaseTypes /\ JobTypes /\ AgentTypes
  BY DEF Types
<1>i. job.st = "store" => job.item \in Nat
  BY <1>t, JobFields DEF StoreFollows, Handling, Connected
<1>1. stored' \subseteq Nat /\ missed' \subseteq Nat
  <2>1. CASE JobStores \/ JobCannotStore
    <3>1. /\ stored' \subseteq stored \cup {job.item} /\ missed' \subseteq missed \cup {job.item}
          /\ job.st = "store"
      BY <2>1 DEF JobStores, JobCannotStore, UnchangedByJob
    <3> QED  BY <1>t, <1>i, <3>1 DEF DatabaseTypes
  <2>2. CASE UNCHANGED <<stored, missed>>
    BY <1>t, <2>2 DEF DatabaseTypes
  <2> QED  BY <2>1, <2>2, EveryWriter DEF Writers
<1>2. memory' \in Nat
  <2>1. CASE JobApplies
    <3>1. memory' = buffer[job.item + 1].fact \/ memory' = memory
      BY <2>1 DEF JobApplies
    <3>2. job.item + 1 \in 1..Len(buffer)
      <4>1. job.st = "apply" /\ job.item \in Int
        BY <1>t, <2>1, JobFields DEF JobApplies
      <4>2. job.item < Len(buffer) /\ job.item = job.last + 1 /\ job.last >= job.after /\ job.after >= -1
        BY <4>1 DEF StoreFollows, Handling, Connected
      <4>3. job.last \in Int /\ job.after \in Int /\ Len(buffer) \in Nat
        BY <1>t, JobFields DEF AgentTypes
      <4> QED  BY <4>1, <4>2, <4>3
    <3>3. buffer[job.item + 1].fact \in Nat
      BY <1>t, <3>2, EventTypes DEF AgentTypes, Events
    <3> QED  BY <1>t, <3>1, <3>3 DEF DatabaseTypes
  <2>2. CASE memory' = memory
    BY <1>t, <2>2 DEF DatabaseTypes
  <2> QED  BY <2>1, <2>2, EveryWriter DEF Writers
<1>3. status' \in Statuses
  BY <1>t, JobFields, EveryWriter DEF Writers, JobFinishes, DatabaseTypes
<1> QED  BY <1>1, <1>2, <1>3 DEF DatabaseTypes

\* What has been sent moves the route on to the newest event.
LEMMA SendFacts ==
  ASSUME NEW p \in PageRecords, NEW S \in SUBSET Int, NEW n \in Int, \A s \in S : s <= n
  PROVE  /\ Send(p, S) \in PageRecords
         /\ Send(p, S).after \in {p.after} \cup S
         /\ \A s \in {p.after} \cup S : s <= Send(p, S).after
         /\ Send(p, S).st = p.st /\ Send(p, S).run = p.run
         /\ Send(p, S).pending = p.pending /\ Send(p, S).ending = p.ending
<1> DEFINE T == {p.after} \cup S
           b == IF p.after > n THEN p.after ELSE n
<1>1. p.after \in Int /\ T \in SUBSET Int /\ T # {} /\ b \in Int /\ \A s \in T : s <= b
  <2>1. p.after \in Int
    BY DEF PageRecords
  <2>2. b \in Int /\ p.after <= b /\ n <= b
    BY <2>1
  <2>3. \A s \in S : s \in Int /\ s <= b
    BY <2>2
  <2> QED  BY <2>1, <2>2, <2>3
<1>2. LastOf(T) \in T /\ \A s \in T : s <= LastOf(T)
  <2> HIDE DEF T, b
  <2> QED  BY <1>1, LastOfBounded
<1> DEFINE l == LastOf(T)
<1>3. Send(p, S) = [p EXCEPT !.after = l] /\ l \in Int
  BY <1>1, <1>2 DEF Send, PageRecords
<1>4. l \in T /\ \A s \in T : s <= l
  BY <1>2
<1> HIDE DEF l, T
<1>5. \A x : x = [p EXCEPT !.after = l]
        => x \in PageRecords /\ x.after = l /\ x.st = p.st /\ x.run = p.run
           /\ x.pending = p.pending /\ x.ending = p.ending
  BY <1>3 DEF PageRecords
<1>6. Send(p, S) \in PageRecords /\ Send(p, S).after = l
      /\ Send(p, S).st = p.st /\ Send(p, S).run = p.run
      /\ Send(p, S).pending = p.pending /\ Send(p, S).ending = p.ending
  BY <1>3, <1>5
<1> QED  BY <1>4, <1>6 DEF T

LEMMA NoPageType ==
  ASSUME NEW st \in {"away", "off", "over", "greeted"}
  PROVE  /\ NoPage(st) \in PageRecords
         /\ NoPage(st).st = st /\ NoPage(st).run = "running"
         /\ NoPage(st).pending = {} /\ ~NoPage(st).ending
BY DEF NoPage, PageRecords, Statuses

LEMMA DropsFacts ==
  ASSUME page \in PageRecords, seen \subseteq Nat, Drops
  PROVE  \/ UNCHANGED <<page, seen>> /\ page.st \notin Serving
         \/ page' = NoPage("away") /\ seen' = seen
         \/ page' = NoPage("off") /\ \E k \in Int : seen' = {s \in seen : s <= k}
<1>1. page.from \in Int /\ \A s \in seen : s \in Int
  <2>1. page.from \in Int
    BY DEF PageRecords
  <2> QED  BY <2>1
<1>2. page.st \in {"away", "off", "over", "greeted"} => page.st \notin Serving
  BY DEF Serving
<1>3. \/ page.st \in {"away", "off", "over", "greeted"} /\ UNCHANGED browser
      \/ page' = NoPage("away") /\ UNCHANGED seen
      \/ page' = NoPage("off") /\ \E k \in {page.from} \cup {s \in seen : s > page.from} :
                                    seen' = {s \in seen : s <= k}
  BY DEF Drops
<1>4. CASE page' = NoPage("off") /\ \E k \in {page.from} \cup {s \in seen : s > page.from} :
                                      seen' = {s \in seen : s <= k}
  <2>1. PICK k \in {page.from} \cup {s \in seen : s > page.from} : seen' = {s \in seen : s <= k}
    BY <1>4
  <2>2. k \in Int
    BY <1>1, <2>1
  <2> QED  BY <1>4, <2>1, <2>2
<1> QED  BY <1>2, <1>3, <1>4 DEF browser

\* The item of a job that emits is the newest stored event.
LEMMA ItemIsStored ==
  ASSUME Types, StoreFollows, job.st = "emit"
  PROVE  job.item \in stored /\ job.item \in Nat /\ \A s \in stored : s <= job.item
<1>1. job.item = LastOf(stored) /\ stored = 0..LastOf(stored) /\ LastOf(stored) \in Int
  BY DEF StoreFollows, NoHoleInStore
<1>2. job.item >= 0
  BY JobFields DEF Types, StoreFollows, Handling, Connected
<1> QED  BY <1>1, <1>2

LEMMA StoredBounded ==
  ASSUME Types, StoreFollows, NEW S, S \subseteq stored
  PROVE  S \in SUBSET Int /\ LastOf(stored) \in Int /\ \A s \in S : s <= LastOf(stored)
BY DEF StoreFollows, NoHoleInStore

LEMMA BrowserTypesKept ==
  ASSUME Types, StoreFollows, PageFollows, [Next]_vars
  PROVE  BrowserTypes'
<1>t. /\ page \in PageRecords /\ seen \subseteq Nat /\ stored \subseteq Nat
      /\ status \in Statuses /\ page.pending \subseteq Nat
  BY DEF Types, BrowserTypes, DatabaseTypes, PageRecords
<1>d. Drops => BrowserTypes'
  BY <1>t, DropsFacts, NoPageType DEF BrowserTypes
<1>l. \A next \in Serving \cup {"over"} : ListAndSend(next) => BrowserTypes'
  <2> TAKE next \in Serving \cup {"over"}
  <2> SUFFICES ASSUME ListAndSend(next)  PROVE BrowserTypes'
    OBVIOUS
  <2>1. Stored(page) \subseteq stored
    BY DEF Stored, Shown
  <2>2. Send(page, Stored(page)) \in PageRecords
    BY <1>t, <2>1, StoredBounded, SendFacts
  <2>3. page' = [Send(page, Stored(page)) EXCEPT !.st = next] /\ seen' = seen \cup Stored(page)
    BY DEF ListAndSend
  <2>4. page' \in PageRecords
    BY <2>2, <2>3 DEF PageRecords
  <2> QED  BY <1>t, <2>1, <2>3, <2>4 DEF BrowserTypes
<1>1. CASE JobEmits
  <2>1. job.item \in stored /\ job.item \in Nat
    BY <1>1, ItemIsStored DEF JobEmits
  <2>2. CASE page' = [page EXCEPT !.pending = @ \cup {job.item}] /\ seen' = seen
    BY <1>t, <2>1, <2>2 DEF BrowserTypes, PageRecords
  <2>3. CASE page' = Send(page, {job.item}) /\ seen' = seen \cup New(page, {job.item})
    <3>1. page' \in PageRecords
      <4>1. {job.item} \in SUBSET Int /\ job.item \in Int /\ \A s \in {job.item} : s <= job.item
        BY <2>1
      <4> QED  BY <1>t, <2>3, <4>1, SendFacts
    <3> QED  BY <1>t, <2>1, <2>3, <3>1 DEF BrowserTypes, New
  <2>4. CASE UNCHANGED <<page, seen>>
    BY <1>t, <2>4 DEF BrowserTypes
  <2> QED  BY <1>1, <2>2, <2>3, <2>4 DEF JobEmits, browser
<1>2. CASE JobAnnounces
  BY <1>t, <1>2 DEF JobAnnounces, BrowserTypes, PageRecords
<1>3. CASE AppCrashes
  BY <1>d, <1>3 DEF AppCrashes
<1>4. CASE BrowserDrops
  BY <1>d, <1>4 DEF BrowserDrops
<1>5. CASE BrowserAsks
  <2>1. page' = [NoPage("load") EXCEPT !.run = status] /\ seen' = seen
    BY <1>5 DEF BrowserAsks
  <2>2. NoPage("load") \in PageRecords
    BY DEF NoPage, PageRecords, Statuses
  <2> QED  BY <1>t, <2>1, <2>2 DEF BrowserTypes, PageRecords
<1>6. CASE BrowserLoads
  BY <1>t, <1>6, NoPageType DEF BrowserLoads, BrowserTypes, Shown
<1>7. CASE BrowserOpens
  <2>1. page' = [NoPage("get") EXCEPT !.from = LastOf(seen), !.after = LastOf(seen), !.run = status]
        /\ seen' = seen
    BY <1>7 DEF BrowserOpens
  <2>2. LastOf(seen) \in Int
    <3>1. seen \subseteq stored
      BY DEF PageFollows, PageOK
    <3>2. seen # {} => LastOf(seen) \in seen
      BY <1>t, <3>1, StoredBounded, LastOfBounded
    <3> QED  BY <1>t, <3>2, LastOfEmpty
  <2> QED  BY <1>t, <2>1, <2>2 DEF BrowserTypes, PageRecords, NoPage, Serving
<1>8. CASE BrowserSubscribes
  <2>1. seen' = seen /\ (page' = [page EXCEPT !.st = "list"] \/ page' = NoPage("greeted"))
    BY <1>8 DEF BrowserSubscribes
  <2> QED  BY <1>t, <2>1, NoPageType DEF BrowserTypes, PageRecords, Serving
<1>9. CASE BrowserReplays
  BY <1>l, <1>9 DEF BrowserReplays, Serving
<1>10. CASE BrowserChecks
  <2>1. CASE page' = [page EXCEPT !.st = "fin"] /\ seen' = seen
    BY <1>t, <2>1 DEF BrowserTypes, PageRecords, Serving
  <2>2. CASE /\ page' = [Send(page, page.pending) EXCEPT !.st = "wait", !.pending = {}]
             /\ seen' = seen \cup New(page, page.pending)
    <3>1. page.pending \subseteq stored
      BY DEF PageFollows, PageOK
    <3>2. Send(page, page.pending) \in PageRecords
      BY <1>t, <3>1, StoredBounded, SendFacts
    <3>3. page' \in PageRecords
      BY <2>2, <3>2 DEF PageRecords, Serving
    <3> QED  BY <1>t, <2>2, <3>3 DEF BrowserTypes, New
  <2> QED  BY <1>10, <2>1, <2>2 DEF BrowserChecks
<1>11. CASE BrowserResyncs
  BY <1>l, <1>11 DEF BrowserResyncs, Serving
<1>12. CASE BrowserRechecks
  BY <1>t, <1>12 DEF BrowserRechecks, BrowserTypes, PageRecords, Serving
<1>13. CASE BrowserFinishes
  BY <1>l, <1>13 DEF BrowserFinishes
<1>14. CASE UNCHANGED <<page, seen>>
  BY <1>t, <1>14 DEF BrowserTypes
<1> QED  BY <1>1, <1>2, <1>3, <1>4, <1>5, <1>6, <1>7, <1>8, <1>9, <1>10, <1>11, <1>12, <1>13,
            <1>14, EveryWriter DEF Writers, BrowserSteps

LEMMA TypesKept ==
  Types /\ BufferInOrder /\ StoreFollows /\ PageFollows /\ [Next]_vars => Types'
BY AgentTypesKept, StreamTypesKept, JobTypesKept, DatabaseTypesKept, BrowserTypesKept DEF Types

-----------------------------------------------------------------------------
(* The connection.                                                         *)

\* An ending that is in the buffer is all that is to come.
LEMMA OldPlaces ==
  ASSUME Types, BufferInOrder, NEW es, Published(es)
  PROVE  /\ Len(buffer) <= Len(buffer') /\ ~Done /\ (Done => Done')
         /\ (Done' <=> es # <<>> /\ es[Len(es)].kind \in Endings)
<1>1. /\ Len(buffer') = Len(buffer) + Len(es) /\ Len(es) \in Nat /\ Len(buffer) \in Nat
      /\ \A k \in 1..Len(es) : buffer'[Len(buffer) + k] = es[k]
      /\ \A k \in 1..Len(buffer') :
           \/ k \in 1..Len(buffer) /\ buffer'[k] = buffer[k]
           \/ k > Len(buffer) /\ k - Len(buffer) \in 1..Len(es) /\ buffer'[k] = es[k - Len(buffer)]
  BY PublicationEffect
<1>2. ~Done /\ es \in Seq(Events) /\ \A k \in 1..Len(es) : es[k].kind \in Endings => k = Len(es)
  BY DEF Published, Running
<1>3. es # <<>> <=> Len(es) > 0
  BY <1>1, <1>2, EmptySeq
<1>4. ASSUME Done'  PROVE es # <<>> /\ es[Len(es)].kind \in Endings
  <2>1. PICK k \in 1..Len(buffer') : buffer'[k].kind \in Endings
    BY <1>4 DEF Done
  <2>2. k - Len(buffer) \in 1..Len(es) /\ es[k - Len(buffer)].kind \in Endings
    BY <1>1, <1>2, <2>1 DEF Done
  <2>3. k - Len(buffer) = Len(es)
    BY <1>2, <2>2
  <2> QED  BY <1>1, <1>3, <2>2, <2>3
<1>5. ASSUME es # <<>>, es[Len(es)].kind \in Endings  PROVE Done'
  <2>1. Len(es) \in 1..Len(es) /\ Len(buffer) + Len(es) \in 1..Len(buffer')
    BY <1>1, <1>3, <1>5
  <2>2. buffer'[Len(buffer) + Len(es)].kind \in Endings
    BY <1>1, <1>5, <2>1
  <2> QED  BY <2>1, <2>2 DEF Done
<1> QED  BY <1>1, <1>2, <1>4, <1>5

LEMMA QueuedFacts ==
  ASSUME AgentTypes, NEW es \in Seq(Events)
  PROVE  LET ends == es # <<>> /\ es[Len(es)].kind \in Endings
         IN  /\ Queued(es) \in Seq(Int)
             /\ Len(Queued(es)) = Len(es) + (IF ends THEN 1 ELSE 0)
             /\ \A k \in 1..Len(es) : Queued(es)[k] = Len(buffer) + k - 1
             /\ ends => Queued(es)[Len(es) + 1] = Closed
<1> DEFINE q == [k \in 1..Len(es) |-> Len(buffer) + k - 1]
           c == IF es # <<>> /\ es[Len(es)].kind \in Endings THEN <<Closed>> ELSE <<>>
<1>1. Len(buffer) \in Nat /\ Len(es) \in Nat
  BY DEF AgentTypes
<1>2. q \in Seq(Int) /\ Len(q) = Len(es) /\ \A k \in 1..Len(es) : q[k] = Len(buffer) + k - 1
  BY <1>1
<1>3. c \in Seq(Int) /\ Len(c) = (IF es # <<>> /\ es[Len(es)].kind \in Endings THEN 1 ELSE 0)
      /\ (es # <<>> /\ es[Len(es)].kind \in Endings => c[1] = Closed)
  BY DEF Closed
<1>4. Queued(es) = q \o c
  BY DEF Queued
<1> HIDE DEF q, c
<1>5. /\ q \o c \in Seq(Int) /\ Len(q \o c) = Len(q) + Len(c)
      /\ \A i \in 1..Len(q) + Len(c) : (q \o c)[i] = IF i <= Len(q) THEN q[i] ELSE c[i - Len(q)]
  BY <1>2, <1>3, ConcatProperties
<1> QED  BY <1>1, <1>2, <1>3, <1>4, <1>5

\* What m events add to the queue of a buffer of this length.
Fresh(q, length, m, ends) ==
  /\ ~ends => Len(q) = m
  /\ ends => Len(q) = m + 1 /\ q[m + 1] = Closed
  /\ \A k \in 1..m : q[k] = length + k - 1

\* A queue that is followed, after a publication and after its first item.
LEMMA FollowsMore ==
  ASSUME NEW queue \in Seq(Int), NEW q \in Seq(Int), NEW next \in Int, NEW length \in Nat,
         NEW m \in Nat, NEW ends \in BOOLEAN,
         Follows(queue, next, length, FALSE), Fresh(q, length, m, ends)
  PROVE  Follows(queue \o q, next, length + m, ends)
<1>1. /\ Len(queue \o q) = Len(queue) + Len(q) /\ Len(queue) \in Nat /\ Len(q) \in Nat
      /\ \A k \in 1..Len(queue) + Len(q) :
           (queue \o q)[k] = IF k <= Len(queue) THEN queue[k] ELSE q[k - Len(queue)]
  <2>1. Len(queue) \in Nat /\ Len(q) \in Nat
    OBVIOUS
  <2>2. Len(queue \o q) = Len(queue) + Len(q)
    BY ConcatProperties, Zenon
  <2>3. \A k \in 1..Len(queue) + Len(q) :
          (queue \o q)[k] = IF k <= Len(queue) THEN queue[k] ELSE q[k - Len(queue)]
    BY ConcatProperties, Zenon
  <2> QED  BY <2>1, <2>2, <2>3
<1>2. next + Len(queue) = length /\ \A k \in 1..Len(queue) : queue[k] = next + k - 1 /\ queue[k] < length
  BY DEF Follows
<1> DEFINE r == queue \o q
<1>3. ASSUME NEW k \in 1..Len(r)
      PROVE  \/ r[k] = next + k - 1 /\ r[k] < length + m
             \/ r[k] = Closed /\ ends /\ k = Len(r)
  <2>1. CASE k <= Len(queue)
    <3>1. r[k] = queue[k] /\ k \in 1..Len(queue)
      BY <1>1, <2>1
    <3> QED  BY <1>1, <1>2, <3>1
  <2>2. CASE k > Len(queue) /\ k - Len(queue) <= m
    <3>1. r[k] = q[k - Len(queue)] /\ k - Len(queue) \in 1..m
      BY <1>1, <2>2
    <3>2. r[k] = length + (k - Len(queue)) - 1
      BY <3>1 DEF Fresh
    <3>3. k \in Int /\ Len(queue) \in Nat /\ next + Len(queue) = length
      BY <1>1, <1>2
    <3> HIDE DEF r
    <3>4. r[k] = next + k - 1
      <4> DEFINE l == Len(queue)
      <4>2. next \in Int /\ l \in Int /\ k \in Int /\ next + l = length
        BY <3>3
      <4>3. length + (k - l) - 1 = next + k - 1
        <5> HIDE DEF l
        <5> QED  BY <4>2
      <4> QED  BY <3>2, <4>3 DEF l
    <3>5. r[k] < length + m
      BY <2>2, <3>2, <3>3
    <3> QED  BY <3>4, <3>5
  <2>3. CASE k > Len(queue) /\ k - Len(queue) > m
    <3>1. ends /\ k - Len(queue) = m + 1 /\ k = Len(r)
      BY <1>1, <2>3 DEF Fresh
    <3>2. r[k] = q[m + 1]
      BY <1>1, <2>3, <3>1
    <3> QED  BY <3>1, <3>2 DEF Fresh
  <2>4. \/ k <= Len(queue)
        \/ k > Len(queue) /\ k - Len(queue) <= m
        \/ k > Len(queue) /\ k - Len(queue) > m
    <3>1. k \in Int /\ Len(queue) \in Int
      BY <1>1
    <3> HIDE DEF r
    <3> QED  BY <3>1
  <2> HIDE DEF r
  <2> QED  BY <2>1, <2>2, <2>3, <2>4
<1>4. ~ends => next + Len(r) = length + m
  <2>1. ~ends => Len(q) = m
    BY DEF Fresh
  <2>2. Len(r) = Len(queue) + Len(q) /\ Len(queue) \in Nat /\ next + Len(queue) = length
    BY <1>1, <1>2
  <2>3. ~ends => Len(r) = Len(queue) + m
    BY <2>1, <2>2
  <2> DEFINE l == Len(queue)
             lr == Len(r)
  <2>4. l \in Nat /\ next + l = length /\ (~ends => lr = l + m)
    BY <2>2, <2>3
  <2> HIDE DEF l, lr
  <2>5. ~ends => next + lr = length + m
    BY <2>4
  <2> QED  BY <2>5 DEF lr
<1> HIDE DEF r
<1> QED  BY <1>3, <1>4 DEF Follows, r

LEMMA FollowsTail ==
  ASSUME NEW queue \in Seq(Int), queue # <<>>, NEW next \in Nat, NEW length \in Nat,
         NEW done \in BOOLEAN, Follows(queue, next, length, done)
  PROVE  \/ Head(queue) = next /\ next < length /\ Follows(Tail(queue), next + 1, length, done)
         \/ Head(queue) = Closed /\ done /\ Follows(Tail(queue), next, length, done)
<1>1. /\ Len(queue) \in Nat /\ Len(queue) > 0 /\ Head(queue) = queue[1]
      /\ Tail(queue) \in Seq(Int) /\ Len(Tail(queue)) = Len(queue) - 1
      /\ \A k \in 1..Len(queue) - 1 : Tail(queue)[k] = queue[k + 1]
  BY EmptySeq, HeadTailProperties
<1> DEFINE r == Tail(queue)
<1>2. CASE queue[1] = next + 1 - 1 /\ queue[1] < length
  <2>1. ASSUME NEW k \in 1..Len(r)
        PROVE  \/ r[k] = (next + 1) + k - 1 /\ r[k] < length
               \/ r[k] = Closed /\ done /\ k = Len(r)
    <3>1. k + 1 \in 1..Len(queue) /\ r[k] = queue[k + 1]
      BY <1>1
    <3>2. \/ queue[k + 1] = next + (k + 1) - 1 /\ queue[k + 1] < length
          \/ queue[k + 1] = Closed /\ done /\ k + 1 = Len(queue)
      BY <3>1 DEF Follows
    <3>3. Len(r) = Len(queue) - 1 /\ k \in Int
      BY <1>1
    <3>4. next + (k + 1) - 1 = (next + 1) + k - 1 /\ (k + 1 = Len(queue) => k = Len(queue) - 1)
      <4>1. k \in Int /\ Len(queue) \in Int
        BY <1>1, <3>3
      <4> QED  BY <4>1
    <3> HIDE DEF r
    <3> QED  BY <3>1, <3>2, <3>3, <3>4
  <2>2. ~done => (next + 1) + Len(r) = length
    <3>1. ~done => next + Len(queue) = length
      BY DEF Follows
    <3>2. Len(r) = Len(queue) - 1
      BY <1>1
    <3> HIDE DEF r
    <3> QED  BY <1>1, <3>1, <3>2
  <2> HIDE DEF r
  <2>3. Follows(r, next + 1, length, done)
    BY <2>1, <2>2 DEF Follows
  <2> QED  BY <1>1, <1>2, <2>3 DEF r
<1>3. CASE queue[1] = Closed /\ done /\ 1 = Len(queue)
  <2>1. Len(r) = 0
    <3>1. Len(r) = Len(queue) - 1
      BY <1>1
    <3> HIDE DEF r
    <3> QED  BY <1>3, <3>1
  <2> HIDE DEF r
  <2>2. Follows(r, next, length, done)
    BY <1>3, <2>1 DEF Follows
  <2> QED  BY <1>1, <1>3, <2>2 DEF r
<1>4. 1 \in 1..Len(queue)
  BY <1>1
<1> QED  BY <1>2, <1>3, <1>4 DEF Follows

\* The steps that leave a connection, or are taken outside of one.
Leaves == \/ JobFinishes \/ JobAnnounces \/ AppCrashes \/ JobLosesStream
          \/ JobCannotConnect \/ JobCannotStore \/ JobResumes

LEMMA Leaving ==
  ASSUME Types, StoreFollows, Leaves
  PROVE  job'.st \notin Connected
<1>n. \A st \in {"announce", "over", "boot"} : NoJob(st).st \notin Connected
  BY DEF NoJob, Connected
<1>a. \A j \in JobRecords, threw \in BOOLEAN : AfterGap(j, threw).st \notin Connected
  <2> TAKE j \in JobRecords, threw \in BOOLEAN
  <2>1. AfterGap(j, threw).st \in {"connect", "finish"}
    BY AfterGapType
  <2> QED  BY <2>1 DEF Connected
<1>j. job \in JobRecords /\ [job EXCEPT !.last = job.after] \in JobRecords
  BY DEF Types, JobTypes, JobRecords
<1>2. CASE JobFinishes \/ JobAnnounces \/ AppCrashes
  BY <1>2, <1>n DEF JobFinishes, JobAnnounces, AppCrashes
<1>3. CASE JobLosesStream \/ JobCannotConnect \/ JobCannotStore
  BY <1>3, <1>a, <1>j DEF JobLosesStream, JobCannotConnect, JobCannotStore
<1>4. CASE JobResumes
  BY <1>4, <1>n, Resuming DEF Types, Connected
<1> QED  BY <1>2, <1>3, <1>4 DEF Leaves

\* Only JobConnects begins a connection.
LEMMA Connecting ==
  ASSUME Types, StoreFollows, [Next]_vars, job'.st \in Connected
  PROVE  job.st \in Connected \/ JobConnects
<1>1. CASE JobReads \/ JobApplies \/ JobStores \/ JobEmits
  BY <1>1 DEF JobReads, JobApplies, JobStores, JobEmits, Connected
<1> QED  BY <1>1, Leaving, EveryWriter DEF Writers, JobSteps, Leaves

LEMMA BufferStays ==
  ASSUME [Next]_vars, ~Publishes
  PROVE  buffer' = buffer /\ (Done' <=> Done)
<1>1. buffer' = buffer
  BY AgentAlone DEF AgentRemembers, ExecutorRestarts
<1> QED  BY <1>1 DEF Done

LEMMA StreamKeepsOrder ==
  ASSUME Types, BufferInOrder, StoreFollows, StreamInOrder, [Next]_vars
  PROVE  StreamInOrder'
<1>t. /\ StreamTypes /\ AgentTypes /\ JobTypes /\ sub \in StreamRecords
      /\ sub.replay \in Seq(Int) /\ sub.queue \in Seq(Int) /\ sub.last \in Int
      /\ Len(sub.replay) \in Nat /\ Len(sub.queue) \in Nat /\ Len(buffer) \in Nat
  BY SubFields DEF Types, StreamTypes, AgentTypes
<1>s. \A st \in {"none", "closed", "broken"} : NoStream(st).st \notin Streaming
  BY DEF NoStream, Streaming
<1>w. Len(wire') <= 1
  <2>1. \A x : Len(<<x>>) = 1
    OBVIOUS
  <2>2. wire' = wire \/ wire' = <<>> \/ \E x : wire' = <<x>>
    <3>1. CASE Publishes
      BY <3>1, PublicationFacts DEF Published
    <3> QED  BY <3>1, EveryWriter DEF Writers, StreamSteps, StreamTurns, StreamReplays, StreamFollows,
             StreamDrained, ExecutorRestarts, ConnectionBreaks, JobConnects, JobReads, JobFinishes,
             JobLosesStream, JobCannotStore, AppCrashes, UnchangedByJob
  <2> QED  BY <2>1, <2>2 DEF StreamInOrder
<1> SUFFICES ASSUME Streams'  PROVE InOrder'
  BY <1>w DEF StreamInOrder
<1>1. CASE Publishes
  <2>1. PICK es : Published(es)
    BY <1>1, PublicationFacts
  <2>2. Streams /\ InOrder /\ sub' = [sub EXCEPT !.queue = @ \o Queued(es)] /\ es \in Seq(Events)
    BY <2>1 DEF Published, Publish, Streams, Streaming, StreamInOrder
  <2> DEFINE q == Queued(es)
             ends == es # <<>> /\ es[Len(es)].kind \in Endings
  <2>3. /\ q \in Seq(Int) /\ Len(q) = Len(es) + (IF ends THEN 1 ELSE 0)
        /\ \A k \in 1..Len(es) : q[k] = Len(buffer) + k - 1
        /\ ends => q[Len(es) + 1] = Closed
    BY <1>t, <2>2, QueuedFacts
  <2>4. /\ Len(buffer') = Len(buffer) + Len(es) /\ Len(es) \in Nat /\ ~Done /\ (Done' <=> ends)
    BY <2>1, PublicationEffect, OldPlaces
  <2> HIDE DEF q, ends
  <2>5. /\ sub'.replay = sub.replay /\ sub'.last = sub.last /\ sub'.st = sub.st
        /\ sub'.queue = sub.queue \o q
    BY <1>t, <2>2 DEF StreamRecords, q
  <2>6. NextSeq' = NextSeq /\ NextSeq \in Int
    BY <1>t, <2>5 DEF NextSeq
  <2>7. Follows(sub.queue, NextSeq, Len(buffer), FALSE) /\ NextSeq <= Len(buffer)
    BY <2>2, <2>4 DEF InOrder, Follows
  <2>8. Follows(sub.queue \o q, NextSeq, Len(buffer) + Len(es), ends)
    <3>1. ends \in BOOLEAN
      BY DEF ends
    <3>2. Fresh(q, Len(buffer), Len(es), ends)
      BY <2>3, <2>4 DEF Fresh
    <3> QED  BY <1>t, <2>3, <2>4, <2>6, <2>7, <3>1, <3>2, FollowsMore
  <2>9. Follows(sub'.queue, NextSeq', Len(buffer'), Done')
    BY <2>4, <2>5, <2>6, <2>8 DEF Follows
  <2>10. NextSeq' <= Len(buffer')
    BY <1>t, <2>4, <2>6, <2>7
  <2> QED  BY <2>2, <2>5, <2>9, <2>10 DEF InOrder
<1>2. CASE ~Publishes /\ StreamTurns
  <2>1. /\ buffer' = buffer /\ (Done' <=> Done) /\ Streams /\ InOrder
        /\ sub'.replay = sub.replay /\ sub'.queue = sub.queue /\ sub'.last = sub.last /\ sub.replay = <<>>
    BY <1>t, <1>2, BufferStays DEF StreamTurns, Streams, StreamInOrder, StreamRecords, Streaming
  <2> QED  BY <2>1 DEF InOrder, NextSeq, Follows
<1>3. CASE ~Publishes /\ StreamReplays
  <2>1. /\ buffer' = buffer /\ (Done' <=> Done) /\ Streams /\ InOrder /\ sub.replay # <<>>
        /\ sub'.replay = Tail(sub.replay) /\ sub'.queue = sub.queue /\ sub'.last = Head(sub.replay)
        /\ sub'.st = "replay"
    BY <1>t, <1>3, BufferStays DEF StreamReplays, Streams, StreamInOrder, StreamRecords, Streaming
  <2>2. Len(sub.replay) > 0
    BY <1>t, <2>1, EmptySeq
  <2>3. /\ sub'.last = sub.last + 1 /\ Len(sub'.replay) = Len(sub.replay) - 1
        /\ \A k \in 1..Len(sub'.replay) : sub'.replay[k] = sub.replay[k + 1]
    BY <1>t, <2>1, <2>2 DEF InOrder
  <2>4. \A k \in 1..Len(sub'.replay) : sub'.replay[k] = sub'.last + k
    <3> TAKE k \in 1..Len(sub'.replay)
    <3>1. k + 1 \in 1..Len(sub.replay) /\ sub'.replay[k] = sub.replay[k + 1] /\ k \in Int
      BY <1>t, <2>3
    <3>2. sub.replay[k + 1] = sub.last + (k + 1)
      BY <2>1, <3>1 DEF InOrder
    <3>3. sub'.last = sub.last + 1 /\ sub.last \in Int
      BY <1>t, <2>3
    <3> QED  BY <3>1, <3>2, <3>3
  <2>5. NextSeq' = NextSeq
    BY <1>t, <2>3 DEF NextSeq
  <2> QED  BY <1>t, <2>1, <2>3, <2>4, <2>5 DEF InOrder, Follows
<1>4. CASE ~Publishes /\ StreamFollows
  <2>1. /\ buffer' = buffer /\ (Done' <=> Done) /\ Streams /\ InOrder /\ sub.queue # <<>>
        /\ sub.replay = <<>> /\ Len(sub.replay) = 0
    BY <1>t, <1>4, BufferStays DEF StreamFollows, Streams, StreamInOrder, InOrder, Streaming
  <2>2. NextSeq = sub.last + 1 /\ NextSeq \in Nat
    BY <1>t, <2>1 DEF NextSeq, InOrder
  <2>3. \/ /\ Head(sub.queue) = NextSeq /\ NextSeq < Len(buffer)
           /\ Follows(Tail(sub.queue), NextSeq + 1, Len(buffer), Done)
        \/ Head(sub.queue) = Closed /\ Done /\ Follows(Tail(sub.queue), NextSeq, Len(buffer), Done)
    <3>1. Follows(sub.queue, NextSeq, Len(buffer), Done) /\ Done \in BOOLEAN
      BY <2>1 DEF InOrder, Done
    <3> QED  BY <1>t, <2>1, <2>2, <3>1, FollowsTail
  <2>4. CASE Head(sub.queue) = NextSeq /\ NextSeq < Len(buffer)
             /\ Follows(Tail(sub.queue), NextSeq + 1, Len(buffer), Done)
    <3>1. Head(sub.queue) > sub.last
      BY <1>t, <2>2, <2>4
    <3>2. sub'.replay = <<>> /\ sub'.queue = Tail(sub.queue) /\ sub'.last = NextSeq
      BY <1>t, <1>4, <2>1, <2>4, <3>1 DEF StreamFollows, StreamRecords
    <3>3. NextSeq' = NextSeq + 1 /\ Len(sub'.replay) = 0
      BY <2>2, <3>2 DEF NextSeq
    <3>4. sub'.last >= -1 /\ NextSeq' <= Len(buffer') /\ \A k \in 1..Len(sub'.replay) : FALSE
      BY <1>t, <2>1, <2>2, <2>4, <3>2, <3>3
    <3>5. Follows(sub'.queue, NextSeq', Len(buffer'), Done')
      BY <2>1, <2>4, <3>2, <3>3 DEF Follows
    <3> QED  BY <3>2, <3>4, <3>5 DEF InOrder
  <2>5. CASE Head(sub.queue) = Closed /\ Done /\ Follows(Tail(sub.queue), NextSeq, Len(buffer), Done)
    <3>1. ~ (Head(sub.queue) > sub.last)
      BY <1>t, <2>1, <2>5 DEF InOrder, Closed
    <3>2. sub' = [sub EXCEPT !.queue = Tail(@)]
      BY <1>4, <1>s, <2>5, <3>1 DEF StreamFollows, Streams
    <3>3. sub'.replay = sub.replay /\ sub'.queue = Tail(sub.queue) /\ sub'.last = sub.last
      BY <1>t, <3>2 DEF StreamRecords
    <3>4. NextSeq' = NextSeq
      BY <3>3 DEF NextSeq
    <3>5. Follows(sub'.queue, NextSeq', Len(buffer'), Done')
      BY <2>1, <2>5, <3>3, <3>4 DEF Follows
    <3> QED  BY <2>1, <3>3, <3>4, <3>5 DEF InOrder
  <2> QED  BY <2>3, <2>4, <2>5
<1>5. CASE JobConnects /\ ~Publishes
  <2>1. known
    BY <1>5, <1>t DEF JobConnects, Streams, JobTypes, JobRecords, Connected
  <2>2. /\ sub' = [NoStream("replay") EXCEPT !.replay = Replayed(job.after), !.last = job.after]
        /\ job.st = "connect" /\ buffer' = buffer /\ (Done' <=> Done)
    BY <1>5, <2>1, BufferStays DEF JobConnects
  <2>3. job.after \in Int /\ job.after >= -1 /\ job.after < Len(buffer)
    <3>1. job.after >= -1 /\ job.after <= LastOf(stored) /\ LastOf(stored) \in -1..Len(buffer) - 1
      BY <2>2 DEF StoreFollows
    <3> QED  BY <1>t, <3>1, JobFields
  <2>4. /\ Replayed(job.after) \in Seq(Int) /\ Len(Replayed(job.after)) = Len(buffer) - job.after - 1
        /\ \A k \in 1..Len(Replayed(job.after)) : Replayed(job.after)[k] = job.after + k
    BY <1>t, <2>3, ReplayedType
  <2>5. sub'.replay = Replayed(job.after) /\ sub'.queue = <<>> /\ sub'.last = job.after /\ sub'.st = "replay"
    BY <2>2 DEF NoStream
  <2>6. NextSeq' = Len(buffer)
    BY <1>t, <2>3, <2>4, <2>5 DEF NextSeq
  <2>7. Len(sub'.queue) = 0 /\ \A k \in 1..Len(sub'.queue) : FALSE
    BY <2>5
  <2> QED  BY <1>t, <2>2, <2>3, <2>4, <2>5, <2>6, <2>7 DEF InOrder, Follows
<1>6. CASE ~Publishes /\ ~JobConnects /\ sub' = sub
  <2>1. buffer' = buffer /\ (Done' <=> Done) /\ Streams
    BY <1>6, BufferStays, Connecting DEF Streams
  <2> QED  BY <1>6, <2>1 DEF StreamInOrder, InOrder, NextSeq, Follows
<1>7. CASE StreamDrained \/ ConnectionBreaks \/ JobFinishes \/ JobLosesStream \/ JobCannotStore \/ AppCrashes
  BY <1>7, <1>s DEF StreamDrained, ConnectionBreaks, JobFinishes, JobLosesStream, JobCannotStore,
                    AppCrashes, Streams
<1>8. CASE ExecutorRestarts
  BY <1>8, <1>s DEF ExecutorRestarts, Streams, Streaming
<1> QED  BY <1>1, <1>2, <1>3, <1>4, <1>5, <1>6, <1>7, <1>8, EveryWriter
         DEF Writers, StreamSteps, JobReads

\* Where the places of events stay: nothing is taken out of the buffer.
LEMMA BufferGrows ==
  ASSUME Types, BufferInOrder, [Next]_vars
  PROVE  /\ Len(buffer) \in Nat /\ Len(buffer') \in Nat /\ Len(buffer) <= Len(buffer')
         /\ \A k \in 1..Len(buffer) : buffer'[k] = buffer[k] /\ k \in 1..Len(buffer')
<1>1. Len(buffer) \in Nat
  BY DEF Types, AgentTypes
<1>2. CASE Publishes
  <2>1. PICK es : Published(es)
    BY <1>2, PublicationFacts
  <2>2. Len(buffer') = Len(buffer) + Len(es) /\ Len(es) \in Nat
        /\ \A k \in 1..Len(buffer) : buffer'[k] = buffer[k]
    BY <2>1, PublicationEffect
  <2>3. \A k \in 1..Len(buffer) : k \in 1..Len(buffer')
    BY <1>1, <2>2
  <2> QED  BY <1>1, <2>2, <2>3
<1>3. CASE ~Publishes
  BY <1>1, <1>3, BufferStays
<1> QED  BY <1>2, <1>3

LEMMA WireKeepsUp ==
  ASSUME Types, BufferInOrder, StoreFollows, StreamInOrder, WireFollows, [Next]_vars
  PROVE  WireFollows'
<1>t. /\ sub \in StreamRecords /\ wire \in Seq(Int) /\ job \in JobRecords
      /\ sub.replay \in Seq(Int) /\ sub.queue \in Seq(Int) /\ sub.last \in Int
      /\ Len(sub.replay) \in Nat /\ Len(sub.queue) \in Nat
      /\ Len(buffer) \in Nat /\ Len(buffer') \in Nat /\ Len(buffer) <= Len(buffer')
      /\ job.last \in Int /\ job.item \in Int /\ job.after \in Int
  BY SubFields, JobFields, BufferGrows DEF Types, StreamTypes, AgentTypes, JobTypes
<1>s. \A st \in {"none", "closed", "broken"} : NoStream(st).st \notin Streaming
  BY DEF NoStream, Streaming
<1>c. Cur \in Int
  BY <1>t DEF Cur
<1>h. (wire # <<>> => wire[1] \in Int) /\ \A x : <<x>>[1] = x /\ <<x>> # <<>>
  BY <1>t, EmptySeq
<1> SUFFICES ASSUME job'.st \in Connected
             PROVE  /\ wire' # <<>> => wire'[1] = Cur' + 1 /\ wire'[1] < Len(buffer')
                    /\ sub'.st \in Streaming => sub'.last = IF wire' = <<>> THEN Cur' ELSE wire'[1]
  BY DEF WireFollows
<1>w. ASSUME job.st \in Connected
      PROVE  /\ wire # <<>> => wire[1] = Cur + 1 /\ wire[1] < Len(buffer)
             /\ sub.st \in Streaming => sub.last = IF wire = <<>> THEN Cur ELSE wire[1]
  BY <1>w DEF WireFollows
<1>e. wire # <<>> /\ wire[1] < Len(buffer) => wire[1] < Len(buffer')
  BY <1>t, <1>h
<1>1. CASE Publishes
  <2>1. PICK es : Published(es)
    BY <1>1, PublicationFacts
  <2>2. job' = job /\ wire' = wire /\ (sub' = sub \/ sub' = [sub EXCEPT !.queue = @ \o Queued(es)])
    BY <2>1 DEF Published, Publish
  <2>3. sub'.last = sub.last /\ sub'.st = sub.st
    BY <1>t, <2>2 DEF StreamRecords
  <2>4. Cur' = Cur
    BY <2>2 DEF Cur
  <2> QED  BY <1>w, <1>e, <2>2, <2>3, <2>4
<1>2. CASE StreamTurns
  <2>1. /\ job' = job /\ wire' = wire /\ sub'.last = sub.last /\ sub.st \in Streaming
    BY <1>t, <1>2 DEF StreamTurns, StreamRecords, Streaming
  <2>2. Cur' = Cur
    BY <2>1 DEF Cur
  <2> QED  BY <1>w, <1>e, <2>1, <2>2
<1>3. CASE StreamReplays
  <2>1. /\ job' = job /\ wire = <<>> /\ wire' = <<Head(sub.replay)>> /\ sub'.last = Head(sub.replay)
        /\ sub.st \in Streaming /\ sub.replay # <<>>
    BY <1>t, <1>3 DEF StreamReplays, StreamRecords, Streaming
  <2>2. Cur' = Cur /\ job.st \in Connected /\ InOrder
    BY <2>1 DEF Cur, StreamInOrder, Streams
  <2>3. Len(sub.replay) > 0 /\ Head(sub.replay) = sub.replay[1]
    BY <1>t, <2>1, EmptySeq
  <2>4. Head(sub.replay) = sub.last + 1 /\ sub.last + 1 < Len(buffer)
    <3>1. sub.replay[1] = sub.last + 1
      BY <1>t, <2>2, <2>3 DEF InOrder
    <3>2. sub.last + Len(sub.replay) + 1 <= Len(buffer)
      BY <2>2 DEF InOrder, NextSeq
    <3> QED  BY <1>t, <2>3, <3>1, <3>2
  <2>5. sub.last = Cur
    BY <1>w, <2>1, <2>2
  <2>6. wire'[1] = Cur + 1 /\ wire' # <<>> /\ wire'[1] < Len(buffer')
    BY <1>t, <1>h, <2>1, <2>4, <2>5
  <2> QED  BY <1>h, <2>1, <2>2, <2>6
<1>4. CASE StreamFollows
  <2>1. /\ job' = job /\ wire = <<>> /\ sub.st \in {"live", "drain"} /\ sub.st \in Streaming
        /\ sub.queue # <<>>
    BY <1>4 DEF StreamFollows, Streaming
  <2>2. Cur' = Cur /\ job.st \in Connected /\ InOrder
    BY <2>1 DEF Cur, StreamInOrder, Streams
  <2>3. sub.last = Cur /\ NextSeq = sub.last + 1 /\ NextSeq \in Nat
    <3>1. Len(sub.replay) = 0 /\ sub.last >= -1
      BY <2>1, <2>2 DEF InOrder
    <3>2. sub.last = Cur
      BY <1>w, <2>1, <2>2
    <3>3. sub.last \in Int
      BY <1>t
    <3>4. NextSeq = sub.last + 1
      BY <3>1, <3>3 DEF NextSeq
    <3> QED  BY <3>1, <3>2, <3>3, <3>4
  <2>4. CASE Head(sub.queue) > sub.last
    <3>1. wire' = <<Head(sub.queue)>> /\ sub'.last = Head(sub.queue)
      BY <1>t, <1>4, <2>4 DEF StreamFollows, StreamRecords
    <3>2. Head(sub.queue) = NextSeq /\ NextSeq < Len(buffer)
      <4>1. Follows(sub.queue, NextSeq, Len(buffer), Done) /\ Done \in BOOLEAN /\ sub.last >= -1
        BY <2>2 DEF InOrder, Done
      <4>2. Head(sub.queue) # Closed
        BY <1>t, <2>4, <4>1 DEF Closed
      <4> QED  BY <1>t, <2>1, <2>3, <4>1, <4>2, FollowsTail
    <3>3. wire'[1] = Cur + 1 /\ wire' # <<>> /\ wire'[1] < Len(buffer')
      BY <1>t, <1>h, <2>3, <3>1, <3>2
    <3> QED  BY <1>h, <2>2, <3>1, <3>3
  <2>5. CASE ~ (Head(sub.queue) > sub.last)
    <3>1. wire' = <<>> /\ (sub'.st \notin Streaming \/ sub'.last = sub.last)
      BY <1>t, <1>4, <1>s, <2>1, <2>5 DEF StreamFollows, StreamRecords
    <3> QED  BY <2>2, <2>3, <3>1
  <2> QED  BY <2>4, <2>5
<1>5. CASE StreamDrained
  <2>1. job' = job /\ wire' = wire /\ sub'.st \notin Streaming
    BY <1>5, <1>s DEF StreamDrained
  <2>2. Cur' = Cur
    BY <2>1 DEF Cur
  <2> QED  BY <1>w, <1>e, <2>1, <2>2
<1>6. CASE ExecutorRestarts \/ ConnectionBreaks
  BY <1>6, <1>s DEF ExecutorRestarts, ConnectionBreaks, Streaming
<1>7. CASE JobConnects
  <2>1. known
    BY <1>t, <1>7 DEF JobConnects, JobRecords, Connected
  <2>2. /\ job' = [job EXCEPT !.st = "read", !.last = job.after] /\ wire' = <<>>
        /\ sub' = [NoStream("replay") EXCEPT !.replay = Replayed(job.after), !.last = job.after]
    BY <1>7, <2>1 DEF JobConnects
  <2>3. Cur' = job.after /\ sub'.last = job.after
    BY <1>t, <2>2 DEF Cur, NoStream, JobRecords
  <2> QED  BY <2>2, <2>3
<1>8. CASE JobReads
  <2>1. job.st = "read" /\ wire # <<>> /\ wire' = <<>> /\ sub' = sub /\ job'.item = Head(wire) /\ job'.st # "read"
    BY <1>t, <1>8 DEF JobReads, JobRecords
  <2>2. Cur' = wire[1]
    BY <1>t, <2>1 DEF Cur
  <2> QED  BY <1>w, <2>1, <2>2 DEF Connected
<1>9. CASE JobApplies
  <2>1. job.st = "apply" /\ wire' = wire /\ sub' = sub /\ job'.item = job.item /\ job'.st # "read"
    BY <1>t, <1>9 DEF JobApplies, JobRecords, stream
  <2>2. Cur' = Cur /\ job.st \in Connected
    BY <2>1 DEF Cur, Connected
  <2> QED  BY <1>w, <1>e, <2>1, <2>2
<1>10. CASE JobStores \/ JobEmits
  <2>1. job.st \in {"store", "emit"} /\ wire' = wire /\ sub' = sub
        /\ (job' = Past(job) \/ job' = [job EXCEPT !.st = "emit"])
    BY <1>10 DEF JobStores, JobEmits, stream
  <2>2. job.st \in Connected /\ Cur = job.item
    BY <2>1 DEF Cur, Connected
  <2>3. Cur' = job.item
    <3>1. CASE job' = [job EXCEPT !.st = "emit"]
      BY <1>t, <3>1 DEF Cur, JobRecords
    <3>2. CASE job' = Past(job)
      <4>1. job'.last = job.item /\ job'.st \in {"finish", "read"}
        BY <3>2, PastType DEF Types
      <4>2. job'.st = "read"
        BY <4>1 DEF Connected
      <4> QED  BY <4>1, <4>2 DEF Cur
    <3> QED  BY <2>1, <3>1, <3>2
  <2> QED  BY <1>w, <1>e, <2>1, <2>2, <2>3
<1>11. CASE job' = job /\ UNCHANGED <<sub, wire>>
  <2>1. Cur' = Cur
    BY <1>11 DEF Cur
  <2> QED  BY <1>w, <1>e, <1>11, <2>1
<1>12. CASE Leaves
  BY <1>12, Leaving
<1> QED  BY <1>1, <1>2, <1>3, <1>4, <1>5, <1>6, <1>7, <1>8, <1>9, <1>10, <1>11, <1>12, EveryWriter
         DEF Writers, JobSteps, StreamSteps, Leaves

-----------------------------------------------------------------------------
(* The store.                                                              *)

\* Where the job is within the run.
LEMMA JobIsWithin ==
  ASSUME Types, StoreFollows
  PROVE  /\ job \in JobRecords /\ job.after \in Int /\ job.last \in Int /\ job.item \in Int
         /\ Len(buffer) \in Nat /\ LastOf(stored) \in Int
         /\ LastOf(stored) >= -1 /\ LastOf(stored) < Len(buffer)
         /\ stored = 0..LastOf(stored)
         /\ job.st \in Handling => /\ job.item = job.last + 1 /\ job.item \in Nat
                                   /\ job.item < Len(buffer) /\ job.item <= LastOf(stored) + 1
<1>1. /\ job \in JobRecords /\ job.after \in Int /\ job.last \in Int /\ job.item \in Int
      /\ Len(buffer) \in Nat
  BY JobFields DEF Types, JobTypes, AgentTypes
<1>2. LastOf(stored) \in Int /\ LastOf(stored) >= -1 /\ LastOf(stored) < Len(buffer)
      /\ stored = 0..LastOf(stored)
  <2>1. LastOf(stored) \in -1..Len(buffer) - 1 /\ stored = 0..LastOf(stored)
    BY DEF StoreFollows, NoHoleInStore
  <2> HIDE DEF LastOf
  <2> QED  BY <1>1, <2>1
<1>3. ASSUME job.st \in Handling
      PROVE  /\ job.item = job.last + 1 /\ job.item \in Nat
             /\ job.item < Len(buffer) /\ job.item <= LastOf(stored) + 1
  <2>1. job.st \in Connected
    BY <1>3 DEF Handling, Connected
  <2>2. /\ job.item = job.last + 1 /\ job.item < Len(buffer) /\ job.after >= -1
        /\ job.after <= job.last /\ job.last <= LastOf(stored)
    BY <1>3, <2>1 DEF StoreFollows
  <2> QED  BY <1>1, <1>2, <2>2
<1> QED  BY <1>1, <1>2, <1>3

LEMMA StoreGrows ==
  ASSUME Types, BufferInOrder, StoreFollows, [Next]_vars
  PROVE  /\ NoHoleInStore' /\ LastOf(stored') \in -1..Len(buffer') - 1 /\ LastOf(stored') \in Int
         /\ LastOf(stored) <= LastOf(stored') /\ missed' \subseteq stored' /\ stored \subseteq stored'
         /\ stored' # stored => /\ stored' = stored \cup {job.item} /\ job.item = LastOf(stored')
                                /\ job.st = "store" /\ job.item \notin stored
<1>t. /\ LastOf(stored) \in Int /\ LastOf(stored) >= -1 /\ LastOf(stored) < Len(buffer)
      /\ stored = 0..LastOf(stored) /\ missed \subseteq stored
      /\ Len(buffer) \in Nat /\ Len(buffer') \in Nat /\ Len(buffer) <= Len(buffer')
  BY JobIsWithin, BufferGrows DEF StoreFollows
<1>1. CASE UNCHANGED <<stored, missed>>
  <2>1. LastOf(stored') = LastOf(stored)
    BY <1>1
  <2> QED  BY <1>1, <1>t, <2>1 DEF NoHoleInStore
<1>2. CASE (JobStores \/ JobCannotStore) /\ stored' # stored
  <2>1. job.st = "store" /\ stored' = stored \cup {job.item} /\ missed' \subseteq missed \cup {job.item}
    BY <1>2 DEF JobStores, JobCannotStore, UnchangedByJob
  <2>2. job.item \in Nat /\ job.item < Len(buffer) /\ job.item <= LastOf(stored) + 1
    BY <2>1, JobIsWithin DEF Handling
  <2>3. job.item \notin stored
    BY <1>2, <2>1
  <2>4. job.item = LastOf(stored) + 1
    BY <1>t, <2>2, <2>3
  <2> DEFINE n == LastOf(stored)
  <2>5. n \in Int /\ n >= -1 /\ job.item \in 0..n + 1 /\ stored' = (0..n) \cup {job.item} /\ job.item = n + 1
    BY <1>t, <2>1, <2>2, <2>4
  <2>6. stored' = 0..LastOf(stored') /\ LastOf(stored') = n + 1
    <3> HIDE DEF n
    <3> QED  BY <2>5, PrefixGrows
  <2>7. NoHoleInStore' /\ LastOf(stored') \in Int /\ LastOf(stored') = job.item
    BY <1>t, <2>2, <2>4, <2>6 DEF NoHoleInStore
  <2>8. LastOf(stored') \in -1..Len(buffer') - 1 /\ LastOf(stored) <= LastOf(stored')
    BY <1>t, <2>2, <2>4, <2>6
  <2> HIDE DEF n, LastOf
  <2> QED  BY <1>t, <2>1, <2>3, <2>7, <2>8
<1>3. CASE (JobStores \/ JobCannotStore) /\ stored' = stored
  <2>1. missed' = missed
    BY <1>3 DEF JobStores, JobCannotStore, UnchangedByJob
  <2> QED  BY <1>1, <1>3, <2>1
<1> QED  BY <1>1, <1>2, <1>3, EveryWriter DEF Writers

LEMMA StoreKeepsUp ==
  ASSUME Types, BufferInOrder, WireFollows, StoreFollows, [Next]_vars
  PROVE  StoreFollows'
<1>t. /\ job \in JobRecords /\ job.after \in Int /\ job.last \in Int /\ job.item \in Int
      /\ LastOf(stored) \in Int /\ LastOf(stored') \in Int /\ LastOf(stored) <= LastOf(stored')
      /\ LastOf(stored) >= -1 /\ stored = 0..LastOf(stored)
      /\ Len(buffer) \in Nat /\ Len(buffer') \in Nat /\ Len(buffer) <= Len(buffer')
  BY JobIsWithin, StoreGrows, BufferGrows
<1>k. \A s \in Nat : s < Len(buffer) => buffer'[s + 1].kind = Kind(s)
  <2> TAKE s \in Nat
  <2>1. s < Len(buffer) => s + 1 \in 1..Len(buffer)
    BY <1>t
  <2> QED  BY <2>1, BufferGrows DEF Kind
<1> SUFFICES
      /\ job'.st \in Connected \cup {"connect"} => job'.after >= -1 /\ job'.after <= LastOf(stored')
      /\ job'.st \in Connected => job'.after <= job'.last /\ job'.last <= LastOf(stored')
      /\ job'.st \in Handling => job'.item = job'.last + 1 /\ job'.item < Len(buffer')
      /\ job'.st = "apply" => buffer'[job'.item + 1].kind = "memory"
      /\ job'.st = "emit" => /\ job'.item = LastOf(stored') /\ job'.item \notin missed'
                             /\ buffer'[job'.item + 1].kind \notin Hidden
  BY StoreGrows DEF StoreFollows, Kind
<1>o. /\ "connect" \notin Connected \cup Handling /\ Handling \subseteq Connected
      /\ {"announce", "over", "boot", "finish"} \cap (Connected \cup Handling \cup {"connect"}) = {}
      /\ {"connect", "announce", "over", "boot", "finish", "read"} \cap {"apply", "emit"} = {}
  BY DEF Connected, Handling
<1>1. CASE JobConnects
  <2>1. \/ job'.st = "finish"
        \/ job'.st = "read" /\ job'.last = job.after /\ job'.after = job.after /\ job.st = "connect"
    BY <1>t, <1>1 DEF JobConnects, JobRecords
  <2>2. job.st = "connect" => job.after >= -1 /\ job.after <= LastOf(stored)
    BY DEF StoreFollows
  <2> QED  BY <1>t, <1>o, <2>1, <2>2 DEF Handling
<1>2. CASE JobReads
  <2>1. /\ job.st = "read" /\ wire # <<>> /\ job'.item = wire[1] /\ job'.last = job.last /\ job'.after = job.after
        /\ job'.st = IF Kind(wire[1]) = "memory" THEN "apply" ELSE "store"
    BY <1>t, <1>2 DEF JobReads, JobRecords
  <2>2. wire[1] = job.last + 1 /\ wire[1] < Len(buffer)
    BY <2>1 DEF WireFollows, Cur, Connected
  <2>3. /\ job.after >= -1 /\ job.after <= LastOf(stored)
        /\ job.after <= job.last /\ job.last <= LastOf(stored)
    BY <2>1 DEF StoreFollows, Connected
  <2>4. wire[1] \in Nat
    BY <1>t, <2>2, <2>3
  <2>5. job'.st = "apply" => buffer'[job'.item + 1].kind = "memory"
    BY <1>k, <2>1, <2>2, <2>4
  <2> QED  BY <1>t, <2>1, <2>2, <2>3, <2>5
<1>3. CASE JobApplies
  <2>1. /\ job.st = "apply" /\ job'.st = "store"
        /\ job'.item = job.item /\ job'.last = job.last /\ job'.after = job.after
    BY <1>t, <1>3 DEF JobApplies, JobRecords
  <2>2. /\ job.after >= -1 /\ job.after <= LastOf(stored)
        /\ job.after <= job.last /\ job.last <= LastOf(stored)
        /\ job.item = job.last + 1 /\ job.item < Len(buffer)
    BY <2>1 DEF StoreFollows, Connected, Handling
  <2> QED  BY <1>t, <2>1, <2>2
<1>4. CASE JobStores
  <2>1. /\ job.st = "store" /\ stored' = stored \cup {job.item} /\ missed' = missed
        /\ \/ job' = Past(job)
           \/ job' = [job EXCEPT !.st = "emit"] /\ job.item \notin stored /\ Kind(job.item) \notin Hidden
    BY <1>4 DEF JobStores, UnchangedByJob
  <2>2. /\ job.after >= -1 /\ job.after <= LastOf(stored)
        /\ job.after <= job.last /\ job.last <= LastOf(stored)
        /\ job.item = job.last + 1 /\ job.item < Len(buffer) /\ job.item \in Nat
    BY <2>1, JobIsWithin DEF StoreFollows, Connected, Handling
  <2>3. job.item <= LastOf(stored')
    <3>1. job.item \in stored' /\ stored' = 0..LastOf(stored')
      BY <2>1, StoreGrows DEF NoHoleInStore
    <3> QED  BY <1>t, <3>1
  <2>4. CASE job' = Past(job)
    <3>1. job'.st \in {"finish", "read"} /\ job'.last = job.item /\ job'.after = job.after
      BY <2>4, PastType DEF Types
    <3> QED  BY <1>t, <1>o, <2>2, <2>3, <3>1 DEF Handling
  <2>5. CASE job' = [job EXCEPT !.st = "emit"] /\ job.item \notin stored /\ Kind(job.item) \notin Hidden
    <3>1. job'.st = "emit" /\ job'.item = job.item /\ job'.last = job.last /\ job'.after = job.after
      BY <1>t, <2>5 DEF JobRecords
    <3>2. stored' # stored /\ missed \subseteq stored
      BY <2>1, <2>5 DEF StoreFollows
    <3>3. job.item = LastOf(stored') /\ job.item \notin missed'
      BY <2>1, <2>5, <3>2, StoreGrows
    <3>4. buffer'[job'.item + 1].kind \notin Hidden
      BY <1>k, <2>2, <2>5, <3>1
    <3> QED  BY <1>t, <2>2, <3>1, <3>3, <3>4
  <2> QED  BY <2>1, <2>4, <2>5
<1>5. CASE JobEmits
  <2>1. job.st = "emit" /\ job' = Past(job)
    BY <1>5 DEF JobEmits
  <2>2. /\ job.after >= -1 /\ job.after <= LastOf(stored)
        /\ job.after <= job.last /\ job.last <= LastOf(stored)
        /\ job.item = job.last + 1 /\ job.item = LastOf(stored)
    BY <2>1 DEF StoreFollows, Connected, Handling
  <2>3. job'.st \in {"finish", "read"} /\ job'.last = job.item /\ job'.after = job.after
    BY <2>1, PastType DEF Types
  <2> QED  BY <1>t, <1>o, <2>2, <2>3 DEF Handling
<1>6. CASE JobFinishes \/ JobAnnounces \/ AppCrashes
  <2>1. job'.st \in {"announce", "over", "boot"}
    BY <1>6, NoJobType DEF JobFinishes, JobAnnounces, AppCrashes
  <2> QED  BY <1>o, <2>1
<1>7. CASE JobLosesStream \/ JobCannotConnect \/ JobCannotStore
  <2>1. /\ job'.st \in {"connect", "finish"} /\ job'.after \in {job.after, job.last}
        /\ job'.after = job.last => job.st \in Connected \/ job'.after = job.after
    <3>1. CASE JobLosesStream
      <4>1. job.st = "read" /\ \E threw \in BOOLEAN : job' = AfterGap(job, threw)
        BY <3>1 DEF JobLosesStream
      <4> QED  BY <1>t, <4>1, AfterGapType DEF Connected
    <3>2. CASE JobCannotStore
      <4>1. job.st = "store" /\ job' = AfterGap(job, TRUE)
        BY <3>2 DEF JobCannotStore
      <4> QED  BY <1>t, <4>1, AfterGapType DEF Connected
    <3>3. CASE JobCannotConnect
      <4>1. [job EXCEPT !.last = job.after] \in JobRecords /\ [job EXCEPT !.last = job.after].after = job.after
        BY <1>t DEF JobRecords
      <4>2. job' = AfterGap([job EXCEPT !.last = job.after], TRUE)
        BY <3>3 DEF JobCannotConnect
      <4> QED  BY <4>1, <4>2, AfterGapType
    <3> QED  BY <1>7, <3>1, <3>2, <3>3
  <2>2. job.st \in Connected \cup {"connect"}
    BY <1>7 DEF JobLosesStream, JobCannotConnect, JobCannotStore, Connected
  <2>3. job'.after >= -1 /\ job'.after <= LastOf(stored)
    BY <1>t, <2>1, <2>2 DEF StoreFollows
  <2> QED  BY <1>t, <1>o, <2>1, <2>3
<1>8. CASE JobResumes
  <2>1. job'.st \in {"over", "finish"} \/ (job'.st = "connect" /\ job'.after = LastOf(stored))
    BY <1>8, Resuming, NoJobType DEF Types
  <2> QED  BY <1>t, <1>o, <2>1
<1>9. CASE job' = job /\ ~JobStores
  <2>1. job.st = "emit" => stored' = stored /\ missed' = missed
    BY <1>9, EveryWriter DEF Writers, JobCannotStore
  <2>2. job.st \in Handling => job.item \in Nat /\ job.item < Len(buffer)
    BY JobIsWithin
  <2>3. job.st \in {"apply", "emit"} => buffer'[job.item + 1].kind = Kind(job.item)
    BY <1>k, <2>2 DEF Handling
  <2>4. job.st = "apply" => buffer'[job'.item + 1].kind = "memory"
    BY <1>9, <2>3 DEF StoreFollows
  <2>5. job.st = "emit" => /\ job'.item = LastOf(stored') /\ job'.item \notin missed'
                           /\ buffer'[job'.item + 1].kind \notin Hidden
    BY <1>9, <2>1, <2>3 DEF StoreFollows
  <2>6. /\ job.st \in Connected \cup {"connect"} => job.after >= -1 /\ job.after <= LastOf(stored)
        /\ job.st \in Connected => job.after <= job.last /\ job.last <= LastOf(stored)
        /\ job.st \in Handling => job.item = job.last + 1 /\ job.item < Len(buffer)
    BY DEF StoreFollows
  <2> QED  BY <1>t, <1>9, <2>4, <2>5, <2>6
<1> QED  BY <1>1, <1>2, <1>3, <1>4, <1>5, <1>6, <1>7, <1>8, <1>9, EveryWriter DEF Writers, JobSteps

-----------------------------------------------------------------------------
(* The run's status.                                                       *)

\* A run comes to its success when its result is stored or found in the store.
LEMMA Succeeding ==
  ASSUME Types, StoreFollows, [Next]_vars, Succeeds', ~Succeeds
  PROVE  /\ ~Publishes
         /\ \E s \in Nat : /\ s < Len(buffer) /\ Kind(s) = "result"
                           /\ \/ job.st \in {"store", "emit"} /\ s = job.item
                              \/ job.st = "boot" /\ s = LastOf(stored)
<1>t. /\ job \in JobRecords /\ Len(buffer) \in Nat /\ LastOf(stored) \in Int
      /\ LastOf(stored) < Len(buffer)
      /\ job.st \in {"store", "emit"} => job.item \in Nat /\ job.item < Len(buffer)
  BY JobIsWithin DEF Handling
<1>1. CASE status' = "succeeded" /\ status # "succeeded"
  <2>1. JobFinishes
    BY <1>1, EveryWriter DEF Writers
  <2> QED  BY <1>1, <2>1 DEF JobFinishes, Succeeds
<1>2. CASE job'.st = "finish" /\ job'.ends = "succeeded" /\ ~ (job.st = "finish" /\ job.ends = "succeeded")
  <2>1. job' # job
    BY <1>2
  <2>2. ~Publishes
    <3>1. Publishes => job' = job
      BY DEF Publishes, AgentEmits, RecordLlmCall, AgentEnds, AgentBreaks
    <3> QED  BY <2>1, <3>1
  <2>3. CASE JobStores \/ JobEmits
    <3>1. job.st \in {"store", "emit"} /\ (job' = Past(job) \/ job' = [job EXCEPT !.st = "emit"])
      BY <2>3 DEF JobStores, JobEmits
    <3>2. job' = Past(job)
      BY <1>t, <1>2, <3>1 DEF JobRecords
    <3>3. Kind(job.item) \in Endings /\ StatusOf(Kind(job.item)) = "succeeded"
      BY <1>2, <3>2, PastType DEF Types
    <3>4. Kind(job.item) = "result"
      BY <3>3, StatusOfEnding
    <3> QED  BY <1>t, <2>2, <3>1, <3>4
  <2>4. CASE JobResumes
    <3>1. job.st = "boot"
      BY <2>4 DEF JobResumes
    <3>2. /\ LastOf(stored) >= 0 /\ Kind(LastOf(stored)) \in Endings
          /\ job'.ends = StatusOf(Kind(LastOf(stored)))
      BY <1>2, <2>4, Resuming, NoJobType DEF Types
    <3>3. Kind(LastOf(stored)) = "result"
      BY <1>2, <3>2, StatusOfEnding
    <3> QED  BY <1>t, <2>2, <3>1, <3>2, <3>3
  <2>5. CASE JobConnects \/ JobReads \/ JobApplies
    BY <1>t, <1>2, <2>5 DEF JobConnects, JobReads, JobApplies, JobRecords
  <2>6. CASE JobFinishes \/ JobAnnounces \/ AppCrashes
    BY <1>2, <2>6, NoJobType DEF JobFinishes, JobAnnounces, AppCrashes
  <2>7. CASE JobLosesStream \/ JobCannotConnect \/ JobCannotStore
    <3>1. [job EXCEPT !.last = job.after] \in JobRecords
      BY <1>t DEF JobRecords
    <3>2. \E j \in JobRecords, threw \in BOOLEAN : job' = AfterGap(j, threw)
      BY <1>t, <2>7, <3>1 DEF JobLosesStream, JobCannotConnect, JobCannotStore
    <3>3. job'.st = "finish" => job'.ends = "failed"
      BY <3>2, AfterGapType
    <3> QED  BY <1>2, <3>3
  <2> QED  BY <2>1, <2>3, <2>4, <2>5, <2>6, <2>7, EveryWriter DEF Writers, JobSteps
<1> QED  BY <1>1, <1>2 DEF Succeeds

LEMMA ResultIsLast ==
  ASSUME Types, BufferInOrder, NEW s \in Nat, s < Len(buffer), Kind(s) = "result"
  PROVE  s = Len(buffer) - 1 /\ buffer # <<>> /\ buffer[Len(buffer)].kind = "result"
<1>1. Len(buffer) \in Nat /\ s + 1 \in 1..Len(buffer) /\ buffer[s + 1].kind = "result"
  BY DEF Types, AgentTypes, Kind
<1>2. s + 1 = Len(buffer)
  BY <1>1 DEF BufferInOrder, Endings
<1>3. Len(buffer) # 0 => buffer # <<>>
  OBVIOUS
<1> QED  BY <1>1, <1>2, <1>3

\* A job that serves a run finds it running, and leaves it with a final status.
LEMMA StatusKeepsUp ==
  ASSUME Types, BufferInOrder, StoreFollows, StatusFollows, [Next]_vars
  PROVE  StatusFollows'
<1>t. job \in JobRecords /\ status \in Statuses
  BY DEF Types, JobTypes, DatabaseTypes
<1>1. Succeeds' => buffer' # <<>> /\ buffer'[Len(buffer')].kind = "result"
  <2>1. CASE Succeeds
    <3>1. buffer # <<>> /\ buffer[Len(buffer)].kind = "result" /\ Len(buffer) \in Nat
      BY <2>1 DEF StatusFollows, Types, AgentTypes
    <3>2. Len(buffer) \in 1..Len(buffer)
      BY <3>1, EmptySeq DEF Types, AgentTypes
    <3>3. Done
      BY <3>1, <3>2 DEF Done, Endings
    <3>4. ~Publishes
      BY <3>3 DEF Publishes, AgentEmits, RecordLlmCall, AgentEnds, AgentBreaks, Running
    <3> QED  BY <3>1, <3>4, BufferStays
  <2>2. CASE Succeeds' /\ ~Succeeds
    BY <2>2, Succeeding, BufferStays, ResultIsLast
  <2> QED  BY <2>1, <2>2
<1>o. /\ {"announce", "over", "boot", "connect", "finish"} \cap Connected = {}
      /\ {"read", "apply", "store", "emit"} = Connected
  BY DEF Connected
<1> SUFFICES
      /\ job'.st \in Connected \cup {"connect", "finish"} => status' = "running"
      /\ job'.st \in {"announce", "over"} => status' # "running"
      /\ job'.st = "finish" => job'.ends # "running"
  BY <1>1 DEF StatusFollows
<1>r. job.st \in Connected \cup {"connect", "finish"} => status = "running"
  BY DEF StatusFollows
<1>2. CASE JobConnects
  BY <1>t, <1>r, <1>2 DEF JobConnects, JobRecords, database, Connected
<1>3. CASE JobReads \/ JobApplies
  BY <1>t, <1>r, <1>3 DEF JobReads, JobApplies, JobRecords, database, Connected
<1>4. CASE JobStores \/ JobEmits
  <2>1. /\ job.st \in {"store", "emit"} /\ status' = status
        /\ (job' = Past(job) \/ job' = [job EXCEPT !.st = "emit"])
    BY <1>4 DEF JobStores, JobEmits, database
  <2>2. status = "running"
    BY <1>r, <2>1 DEF Connected
  <2>3. job'.st \in {"emit", "finish", "read"} /\ (job'.st = "finish" => job'.ends # "running")
    <3>1. CASE job' = Past(job)
      BY <3>1, PastType, StatusOfEnding DEF Types
    <3>2. CASE job' = [job EXCEPT !.st = "emit"]
      BY <1>t, <3>2 DEF JobRecords
    <3> QED  BY <2>1, <3>1, <3>2
  <2> QED  BY <2>1, <2>2, <2>3
<1>5. CASE JobFinishes
  <2>1. job.st = "finish" /\ status' = (IF status = "running" THEN job.ends ELSE status) /\ job'.st = "announce"
    BY <1>5, NoJobType DEF JobFinishes
  <2>2. job.ends # "running"
    BY <2>1 DEF StatusFollows
  <2> QED  BY <1>o, <2>1, <2>2
<1>6. CASE JobAnnounces
  <2>1. job.st = "announce" /\ status' = status /\ job'.st = "over"
    BY <1>6, NoJobType DEF JobAnnounces, database
  <2> QED  BY <1>o, <2>1 DEF StatusFollows
<1>7. CASE AppCrashes
  <2>1. job'.st = "boot"
    BY <1>7, NoJobType DEF AppCrashes
  <2> QED  BY <1>o, <2>1
<1>8. CASE JobLosesStream \/ JobCannotConnect \/ JobCannotStore
  <2>1. [job EXCEPT !.last = job.after] \in JobRecords
    BY <1>t DEF JobRecords
  <2>2. \E j \in JobRecords, threw \in BOOLEAN : job' = AfterGap(j, threw)
    BY <1>t, <1>8, <2>1 DEF JobLosesStream, JobCannotConnect, JobCannotStore
  <2>3. job'.st \in {"connect", "finish"} /\ (job'.st = "finish" => job'.ends = "failed")
    BY <2>2, AfterGapType
  <2>4. status = "running" /\ status' = status
    BY <1>r, <1>8 DEF JobLosesStream, JobCannotConnect, JobCannotStore, database, Connected
  <2> QED  BY <2>3, <2>4
<1>9. CASE JobResumes
  <2>1. status' = status
    BY <1>9 DEF JobResumes, database
  <2>2. \/ job'.st = "over" /\ status # "running"
        \/ status = "running" /\ job'.st = "finish" /\ job'.ends # "running"
        \/ status = "running" /\ job'.st = "connect"
    BY <1>9, Resuming, NoJobType, StatusOfEnding DEF Types
  <2> QED  BY <1>o, <2>1, <2>2
<1>10. CASE job' = job /\ ~JobFinishes
  <2>1. status' = status
    BY <1>10, EveryWriter DEF Writers
  <2> QED  BY <1>10, <2>1 DEF StatusFollows
<1> QED  BY <1>2, <1>3, <1>4, <1>5, <1>6, <1>7, <1>8, <1>9, <1>10, EveryWriter DEF Writers, JobSteps

-----------------------------------------------------------------------------
(* The facts.                                                              *)

LEMMA AppliedLess ==
  ASSUME NEW events, NEW mem, NEW m \in Int, NEW n \in Int, m <= n, AppliedIn(events, n, mem)
  PROVE  AppliedIn(events, m, mem)
<1>1. \A s \in 0..m : s \in 0..n
  OBVIOUS
<1> QED  BY <1>1 DEF AppliedIn

LEMMA FactsKeepUp ==
  ASSUME Types, BufferInOrder, WireFollows, StoreFollows, StatusFollows, FactsFollow, [Next]_vars
  PROVE  FactsFollow'
<1>t. /\ job \in JobRecords /\ job.after \in Int /\ job.last \in Int /\ job.item \in Int
      /\ Len(buffer) \in Nat /\ Len(buffer') \in Nat /\ Len(buffer) <= Len(buffer')
      /\ LastOf(stored) \in Int /\ LastOf(stored) < Len(buffer) /\ stored = 0..LastOf(stored)
      /\ job.st \in Handling => job.item = job.last + 1 /\ job.item \in Nat /\ job.item < Len(buffer)
      /\ job.st \in Connected => job.after <= job.last /\ job.last <= LastOf(stored)
      /\ job.st = "connect" => job.after <= LastOf(stored)
  BY JobIsWithin, BufferGrows DEF StoreFollows
<1>b. \A s \in Nat : s < Len(buffer) => s + 1 \in 1..Len(buffer) /\ buffer'[s + 1] = buffer[s + 1]
  <2> TAKE s \in Nat
  <2>1. s < Len(buffer) => s + 1 \in 1..Len(buffer)
    BY <1>t
  <2> QED  BY <2>1, BufferGrows
<1>k. \A n \in Int : n < Len(buffer) /\ AppliedIn(buffer, n, memory') => AppliedIn(buffer', n, memory')
  <2> SUFFICES ASSUME NEW n \in Int, n < Len(buffer), AppliedIn(buffer, n, memory'),
                      NEW s \in 0..n, buffer'[s + 1].kind = "memory"
               PROVE  buffer'[s + 1].fact <= memory'
    BY DEF AppliedIn
  <2>1. s \in Nat /\ s < Len(buffer)
    <3>1. Len(buffer) \in Nat
      BY <1>t
    <3> QED  BY <3>1
  <2>2. buffer'[s + 1] = buffer[s + 1]
    BY <1>b, <2>1
  <2> QED  BY <2>1, <2>2 DEF AppliedIn
<1>m. memory <= fact /\ memory \in Nat /\ fact \in Nat /\ fact' \in Nat /\ fact <= fact'
  <2>1. fact' = fact \/ fact' = fact + 1
    BY AgentAlone, PublicationFacts DEF Published, AgentRemembers, ExecutorRestarts
  <2> QED  BY <2>1 DEF FactsFollow, Types, AgentTypes, DatabaseTypes
<1>a. ASSUME JobApplies, memory' # memory
      PROVE  /\ memory' = buffer[job.item + 1].fact /\ fact' = fact
             /\ memory' \in Nat /\ memory' <= fact /\ AppliedIn(buffer, job.item, memory')
  <2>1. job.st = "apply" /\ memory' = buffer[job.item + 1].fact /\ fact' = fact
    BY <1>a DEF JobApplies, agent
  <2>2. Kind(job.item) = "memory" /\ job.item + 1 \in 1..Len(buffer)
    BY <1>t, <1>b, <2>1 DEF StoreFollows, Handling
  <2>3. buffer[job.item + 1].kind = "memory" /\ memory' \in Nat
    BY <2>1, <2>2, EventTypes DEF Kind, Types, AgentTypes, Events
  <2>4. memory' <= Said /\ Said <= fact
    <3>1. Said \in Nat /\ Len(unsaid) \in Nat
      BY DEF BufferInOrder, Types, AgentTypes
    <3>2. Said <= fact
      BY <1>m, <3>1 DEF Said
    <3> QED  BY <2>1, <2>2, <2>3, <3>2 DEF BufferInOrder
  <2>5. AppliedIn(buffer, job.item, memory')
    <3> SUFFICES ASSUME NEW s \in 0..job.item, buffer[s + 1].kind = "memory"
                 PROVE  buffer[s + 1].fact <= memory'
      BY DEF AppliedIn
    <3>1. CASE s = job.item
      BY <2>1, <2>3, <3>1
    <3>2. CASE s # job.item
      <4>1. s + 1 \in 1..Len(buffer) /\ s + 1 < job.item + 1
        BY <1>t, <2>2, <3>2
      <4> QED  BY <2>1, <2>2, <2>3, <4>1 DEF BufferInOrder
    <3> QED  BY <3>1, <3>2
  <2>6. Said \in Int
    BY DEF BufferInOrder
  <2> QED  BY <1>m, <2>1, <2>3, <2>4, <2>5, <2>6
<1>1. memory' <= fact'
  <2>1. CASE JobApplies /\ memory' # memory
    BY <1>a, <1>m, <2>1
  <2>2. CASE memory' = memory
    BY <1>m, <2>2
  <2> QED  BY <2>1, <2>2, EveryWriter DEF Writers
<1> SUFFICES ASSUME ~failed', ~rewound'
             PROVE  /\ job'.st = "connect" => AppliedIn(buffer', job'.after, memory')
                    /\ job'.st \in {"read", "apply"} => AppliedIn(buffer', job'.last, memory')
                    /\ job'.st \in {"store", "emit"} => AppliedIn(buffer', job'.item, memory')
                    /\ job'.st = "boot" => AppliedIn(buffer', LastOf(stored'), memory')
                    /\ Succeeds' => AppliedIn(buffer', Len(buffer') - 1, memory')
  BY <1>1 DEF FactsFollow, Applied
<1>f. /\ job.st = "connect" => AppliedIn(buffer, job.after, memory)
      /\ job.st \in {"read", "apply"} => AppliedIn(buffer, job.last, memory)
      /\ job.st \in {"store", "emit"} => AppliedIn(buffer, job.item, memory)
      /\ job.st = "boot" => AppliedIn(buffer, LastOf(stored), memory)
      /\ Succeeds => AppliedIn(buffer, Len(buffer) - 1, memory)
  <2>1. ~failed /\ ~rewound
    BY EveryWriter DEF Writers
  <2> QED  BY <2>1 DEF FactsFollow, Applied
<1>2. Succeeds' => AppliedIn(buffer', Len(buffer') - 1, memory')
  <2>1. CASE Succeeds
    <3>1. memory' = memory
      <4>1. ~JobApplies
        BY <2>1 DEF JobApplies, Succeeds, StatusFollows, Connected
      <4> QED  BY <4>1, EveryWriter DEF Writers
    <3>2. Done
      <4>1. buffer # <<>> /\ buffer[Len(buffer)].kind = "result"
        BY <2>1 DEF StatusFollows
      <4>2. Len(buffer) \in 1..Len(buffer)
        BY <4>1, EmptySeq DEF Types, AgentTypes
      <4> QED  BY <4>1, <4>2 DEF Done, Endings
    <3>3. buffer' = buffer
      BY <3>2, BufferStays DEF Publishes, AgentEmits, RecordLlmCall, AgentEnds, AgentBreaks, Running
    <3> QED  BY <1>f, <2>1, <3>1, <3>3
  <2>2. CASE Succeeds' /\ ~Succeeds
    <3>1. PICK s \in Nat : /\ s < Len(buffer) /\ Kind(s) = "result"
                           /\ \/ job.st \in {"store", "emit"} /\ s = job.item
                              \/ job.st = "boot" /\ s = LastOf(stored)
      BY <2>2, Succeeding
    <3>2. s = Len(buffer) - 1 /\ buffer' = buffer
      BY <2>2, <3>1, ResultIsLast, Succeeding, BufferStays
    <3>3. memory' = memory
      BY <3>1, EveryWriter DEF Writers, JobApplies
    <3>4. AppliedIn(buffer, s, memory)
      BY <1>f, <3>1
    <3> QED  BY <3>2, <3>3, <3>4
  <2> QED  BY <2>1, <2>2
<1> SUFFICES
       /\ job'.st = "connect" => AppliedIn(buffer', job'.after, memory')
       /\ job'.st \in {"read", "apply"} => AppliedIn(buffer', job'.last, memory')
       /\ job'.st \in {"store", "emit"} => AppliedIn(buffer', job'.item, memory')
       /\ job'.st = "boot" => AppliedIn(buffer', LastOf(stored'), memory')
  BY <1>2
<1>3. CASE JobConnects
  <2>1. /\ memory' = memory /\ job.st = "connect"
        /\ job'.st \in {"finish", "read"} /\ (job'.st = "read" => job'.last = job.after)
    <3>1. CASE known
      BY <1>t, <1>3, <3>1 DEF JobConnects, JobRecords, database
    <3>2. CASE ~known
      BY <1>t, <1>3, <3>2 DEF JobConnects, JobRecords, database
    <3> QED  BY <3>1, <3>2
  <2>2. AppliedIn(buffer', job.after, memory')
    BY <1>t, <1>f, <1>k, <2>1
  <2> QED  BY <2>1, <2>2
<1>4. CASE JobReads
  <2>1. /\ memory' = memory /\ job.st = "read" /\ job'.item = wire[1] /\ job'.last = job.last
        /\ wire # <<>> /\ job'.st = IF Kind(wire[1]) = "memory" THEN "apply" ELSE "store"
    BY <1>t, <1>4 DEF JobReads, JobRecords, database
  <2>2. wire[1] = job.last + 1 /\ wire[1] < Len(buffer)
    BY <2>1 DEF WireFollows, Cur, Connected
  <2>3. AppliedIn(buffer, job.last, memory)
    BY <1>f, <2>1
  <2>4. CASE Kind(wire[1]) = "memory"
    <3>1. AppliedIn(buffer', job.last, memory')
      BY <1>t, <1>k, <2>1, <2>2, <2>3
    <3> QED  BY <2>1, <2>4, <3>1
  <2>5. CASE Kind(wire[1]) # "memory"
    <3>1. AppliedIn(buffer, wire[1], memory)
      <4> SUFFICES ASSUME NEW s \in 0..wire[1], s < Len(buffer), buffer[s + 1].kind = "memory"
                   PROVE  buffer[s + 1].fact <= memory
        BY DEF AppliedIn
      <4>1. s # wire[1]
        BY <2>5 DEF Kind
      <4>2. s \in 0..job.last
        BY <1>t, <2>2, <4>1
      <4> QED  BY <2>3, <4>2 DEF AppliedIn
    <3>2. AppliedIn(buffer', wire[1], memory')
      BY <1>t, <1>k, <2>1, <2>2, <3>1
    <3> QED  BY <2>1, <2>5, <3>2
  <2> QED  BY <2>4, <2>5
<1>5. CASE JobApplies
  <2>1. job.st = "apply" /\ job'.st = "store" /\ job'.item = job.item
        /\ (memory' = buffer[job.item + 1].fact \/ failed')
    BY <1>t, <1>5 DEF JobApplies, JobRecords
  <2>2. job.item \in Nat /\ job.item < Len(buffer) /\ job.item = job.last + 1
    BY <1>t, <2>1 DEF Handling
  <2>3. CASE memory' # memory
    BY <1>a, <1>k, <1>5, <2>1, <2>2, <2>3
  <2>4. CASE memory' = memory
    <3>1. AppliedIn(buffer, job.last, memory) /\ buffer[job.item + 1].fact = memory /\ memory \in Nat
      BY <1>f, <1>m, <2>1, <2>4
    <3>2. AppliedIn(buffer, job.item, memory)
      <4> SUFFICES ASSUME NEW s \in 0..job.item, s < Len(buffer), buffer[s + 1].kind = "memory"
                   PROVE  buffer[s + 1].fact <= memory
        BY DEF AppliedIn
      <4>1. CASE s = job.item
        BY <3>1, <4>1
      <4>2. CASE s # job.item
        <5>1. s \in 0..job.last
          BY <1>t, <2>2, <4>2
        <5> QED  BY <3>1, <5>1 DEF AppliedIn
      <4> QED  BY <4>1, <4>2
    <3> QED  BY <1>k, <2>1, <2>2, <2>4, <3>2
  <2> QED  BY <2>3, <2>4
<1>6. CASE JobStores \/ JobEmits
  <2>1. /\ job.st \in {"store", "emit"} /\ memory' = memory
        /\ (job' = Past(job) \/ job' = [job EXCEPT !.st = "emit"])
    BY <1>6 DEF JobStores, JobEmits, database
  <2>2. AppliedIn(buffer', job.item, memory')
    <3>1. job.item \in Int /\ job.item < Len(buffer)
      BY <1>t, <2>1 DEF Handling
    <3> QED  BY <1>f, <1>k, <2>1, <3>1
  <2>3. \/ job'.st = "emit" /\ job'.item = job.item
        \/ job'.st \in {"finish", "read"} /\ job'.last = job.item
    <3>1. CASE job' = Past(job)
      BY <3>1, PastType DEF Types
    <3>2. CASE job' = [job EXCEPT !.st = "emit"]
      BY <1>t, <3>2 DEF JobRecords
    <3> QED  BY <2>1, <3>1, <3>2
  <2> QED  BY <2>2, <2>3
<1>7. CASE JobFinishes \/ JobAnnounces
  <2>1. job'.st \in {"announce", "over"}
    BY <1>7, NoJobType DEF JobFinishes, JobAnnounces
  <2> QED  BY <2>1
<1>8. CASE AppCrashes
  <2>1. /\ job'.st = "boot" /\ ~Rewound /\ memory' = memory /\ buffer' = buffer /\ stored' = stored
    BY <1>8, NoJobType DEF AppCrashes, database, agent
  <2>2. AppliedIn(buffer, LastOf(stored), memory)
    <3> SUFFICES ASSUME NEW s \in 0..LastOf(stored), s < Len(buffer), buffer[s + 1].kind = "memory"
                 PROVE  buffer[s + 1].fact <= memory
      BY DEF AppliedIn
    <3>1. s \in stored /\ s \in Nat /\ s + 1 \in 1..Len(buffer)
      BY <1>t, <1>b
    <3>2. ~ (buffer[s + 1].fact > memory)
      BY <2>1, <3>1 DEF Rewound, Kind
    <3>3. buffer[s + 1].fact \in Nat
      BY <3>1, EventTypes DEF Types, AgentTypes, Events
    <3> QED  BY <1>m, <3>2, <3>3
  <2> QED  BY <2>1, <2>2
<1>9. CASE JobLosesStream \/ JobCannotConnect \/ JobCannotStore
  <2>1. memory' = memory
    BY <1>9 DEF JobLosesStream, JobCannotConnect, JobCannotStore, database
  <2>2. /\ job'.st \in {"connect", "finish"}
        /\ \/ job.st = "connect" /\ job'.after = job.after
           \/ job.st = "read" /\ job'.after \in {job.after, job.last}
           \/ job.st = "store" /\ job'.after = job.after
    <3>1. CASE JobLosesStream
      <4>1. job.st = "read" /\ \E threw \in BOOLEAN : job' = AfterGap(job, threw)
        BY <3>1 DEF JobLosesStream
      <4> QED  BY <1>t, <4>1, AfterGapType
    <3>2. CASE JobCannotStore
      <4>1. job.st = "store" /\ job' = AfterGap(job, TRUE)
        BY <3>2 DEF JobCannotStore
      <4> QED  BY <1>t, <4>1, AfterGapType
    <3>3. CASE JobCannotConnect
      <4>1. [job EXCEPT !.last = job.after] \in JobRecords /\ [job EXCEPT !.last = job.after].after = job.after
        BY <1>t DEF JobRecords
      <4>2. job' = AfterGap([job EXCEPT !.last = job.after], TRUE) /\ job.st = "connect"
        BY <3>3 DEF JobCannotConnect
      <4> QED  BY <4>1, <4>2, AfterGapType
    <3> QED  BY <1>9, <3>1, <3>2, <3>3
  <2>3. job'.after \in Int /\ job'.after < Len(buffer)
    BY <1>t, <2>2 DEF Connected
  <2>4. AppliedIn(buffer, job'.after, memory)
    <3>1. CASE job.st = "connect"
      BY <1>f, <2>2, <3>1
    <3>2. CASE job.st = "read"
      <4>1. AppliedIn(buffer, job.last, memory) /\ job'.after <= job.last
        BY <1>t, <1>f, <2>2, <3>2 DEF Connected
      <4> QED  BY <1>t, <2>3, <4>1, AppliedLess
    <3>3. CASE job.st = "store"
      <4>1. AppliedIn(buffer, job.item, memory) /\ job'.after <= job.item
        BY <1>t, <1>f, <2>2, <3>3 DEF Connected, Handling
      <4> QED  BY <1>t, <2>3, <4>1, AppliedLess
    <3> QED  BY <2>2, <3>1, <3>2, <3>3
  <2> QED  BY <1>k, <2>1, <2>2, <2>3, <2>4
<1>10. CASE JobResumes
  <2>1. memory' = memory /\ job.st = "boot"
    BY <1>10 DEF JobResumes, database
  <2>2. job'.st \in {"over", "finish"} \/ (job'.st = "connect" /\ job'.after = LastOf(stored))
    BY <1>10, Resuming, NoJobType DEF Types
  <2>3. AppliedIn(buffer', LastOf(stored), memory')
    BY <1>t, <1>f, <1>k, <2>1
  <2> QED  BY <2>2, <2>3
<1>11. CASE job' = job /\ ~JobApplies
  <2>1. memory' = memory
    BY <1>11, EveryWriter DEF Writers
  <2>2. job.st = "boot" => stored' = stored
    BY EveryWriter DEF Writers, JobStores, JobCannotStore
  <2>3. job.st = "connect" => AppliedIn(buffer', job.after, memory')
    BY <1>t, <1>f, <1>k, <2>1
  <2>4. job.st \in {"read", "apply"} => AppliedIn(buffer', job.last, memory')
    <3>1. job.st \in {"read", "apply"} => job.last < Len(buffer)
      BY <1>t DEF Connected
    <3> QED  BY <1>t, <1>f, <1>k, <2>1, <3>1
  <2>5. job.st \in {"store", "emit"} => AppliedIn(buffer', job.item, memory')
    <3>1. job.st \in {"store", "emit"} => job.item < Len(buffer)
      BY <1>t DEF Handling
    <3> QED  BY <1>t, <1>f, <1>k, <2>1, <3>1
  <2>6. job.st = "boot" => AppliedIn(buffer', LastOf(stored'), memory')
    BY <1>t, <1>f, <1>k, <2>1, <2>2
  <2> QED  BY <1>11, <2>3, <2>4, <2>5, <2>6
<1> QED  BY <1>3, <1>4, <1>5, <1>6, <1>7, <1>8, <1>9, <1>10, <1>11, EveryWriter DEF Writers, JobSteps

-----------------------------------------------------------------------------
(* The browser.                                                            *)

\* An event that is due is among the stored ones; a new one is being told.
LEMMA DueGrows ==
  ASSUME Types, BufferInOrder, StoreFollows, [Next]_vars, NEW s \in Due'
  PROVE  \/ s \in Due
         \/ JobStores /\ job'.st = "emit" /\ job'.item = s /\ s \in Nat /\ LastOf(stored) < s
<1>t. /\ job \in JobRecords /\ Len(buffer) \in Nat /\ LastOf(stored) \in Int
      /\ LastOf(stored) < Len(buffer) /\ stored = 0..LastOf(stored)
  BY JobIsWithin
<1>1. s \in stored' /\ buffer'[s + 1].kind \notin Hidden /\ s \notin missed'
  BY DEF Due, Shown, Kind
<1>2. CASE s \in stored
  <2>1. s + 1 \in 1..Len(buffer)
    BY <1>t, <1>2
  <2>2. buffer'[s + 1] = buffer[s + 1]
    BY <2>1, BufferGrows
  <2>3. missed \subseteq missed'
    BY EveryWriter DEF Writers, JobStores, JobCannotStore, UnchangedByJob
  <2> QED  BY <1>1, <1>2, <2>2, <2>3 DEF Due, Shown, Kind
<1>3. CASE s \notin stored
  <2>1. stored' = stored \cup {job.item} /\ job.st = "store" /\ s = job.item /\ job.item \notin stored
    BY <1>1, <1>3, StoreGrows
  <2>2. job.item \in Nat /\ job.item < Len(buffer)
    BY <2>1, JobIsWithin DEF Handling
  <2>3. JobStores
    <3>1. JobCannotStore => missed' = missed \cup {job.item}
      BY <1>1, <1>3 DEF JobCannotStore
    <3> QED  BY <1>1, <1>3, <2>1, <3>1, EveryWriter DEF Writers
  <2>4. Kind(job.item) \notin Hidden
    <3>1. buffer' = buffer
      BY <2>3 DEF JobStores, UnchangedByJob
    <3> QED  BY <1>1, <2>1, <3>1 DEF Kind
  <2>5. job'.st = "emit" /\ job'.item = job.item
    BY <1>t, <2>1, <2>3, <2>4 DEF JobStores, JobRecords
  <2>6. LastOf(stored) < s
    BY <1>t, <2>1, <2>2
  <2> QED  BY <2>1, <2>2, <2>3, <2>5, <2>6
<1> QED  BY <1>2, <1>3

LEMMA DueStays ==
  ASSUME UNCHANGED <<buffer, stored, missed>>
  PROVE  Due' = Due
BY DEF Due, Shown, Kind

LEMMA DueIsStored ==
  ASSUME Types, StoreFollows
  PROVE  /\ Due \subseteq stored /\ stored \subseteq Nat
         /\ LastOf(stored) \in Int /\ \A s \in stored : s <= LastOf(stored)
         /\ page \in PageRecords /\ page.after \in Int
BY JobIsWithin, SMTT(20) DEF Due, Shown, Types, DatabaseTypes, BrowserTypes, PageRecords

\* The browser's connection drops.
LEMMA DropsKeep ==
  ASSUME Types, StoreFollows, PageFollows, Drops, NEW held
  PROVE  PageOK(page', seen', held)
<1>t. page \in PageRecords /\ seen \subseteq Nat /\ Due \subseteq Nat
  BY DueIsStored DEF Types, BrowserTypes
<1>1. CASE UNCHANGED <<page, seen>> /\ page.st \notin Serving
  BY <1>1 DEF PageFollows, PageOK, Serving
<1>2. CASE page' = NoPage("away") /\ seen' = seen
  BY <1>2, NoPageType DEF PageFollows, PageOK, Serving
<1>3. CASE page' = NoPage("off") /\ \E k \in Int : seen' = {s \in seen : s <= k}
  <2>1. PICK k \in Int : seen' = {s \in seen : s <= k}
    BY <1>3
  <2>2. \A s \in Due, t \in seen' : s <= t => s \in seen'
    <3> SUFFICES ASSUME NEW s \in Due, NEW t \in seen', s <= t  PROVE s <= k /\ s \in seen
      BY <2>1
    <3>1. t \in seen /\ t <= k /\ t \in Nat /\ s \in Nat
      BY <1>t, <2>1
    <3>2. s \in seen
      BY <3>1 DEF PageFollows, PageOK
    <3> QED  BY <3>1, <3>2
  <2> QED  BY <1>3, <2>1, <2>2, NoPageType DEF PageFollows, PageOK, Serving
<1> QED  BY <1>t, <1>1, <1>2, <1>3, DropsFacts

\* The route sends what is stored: the browser has all that is due.
LEMMA ListKeeps ==
  ASSUME Types, StoreFollows, PageFollows, page.st \in Serving,
         NEW next \in {"check", "again", "over"}, ListAndSend(next),
         next = "over" => status # "running"
  PROVE  PageOK(page', seen', Held)
<1> DEFINE p == Send(page, Stored(page))
<1>t. /\ page \in PageRecords /\ page.after \in Int /\ stored \subseteq Nat
      /\ Due \subseteq stored /\ LastOf(stored) \in Int /\ \A s \in stored : s <= LastOf(stored)
  BY DueIsStored
<1>1. Stored(page) \subseteq stored /\ \A s \in Due : s > page.after => s \in Stored(page)
  BY DEF Stored, Due, Shown
<1>2. /\ p \in PageRecords /\ p.after \in {page.after} \cup Stored(page)
      /\ \A s \in {page.after} \cup Stored(page) : s <= p.after
      /\ p.run = page.run /\ p.pending = page.pending /\ p.ending = page.ending
  BY <1>t, <1>1, StoredBounded, SendFacts
<1>3. page' = [p EXCEPT !.st = next] /\ seen' = seen \cup Stored(page)
  BY DEF ListAndSend
<1> HIDE DEF p
<1>4. /\ page'.after = p.after /\ page'.run = page.run /\ page'.pending = page.pending
      /\ page'.ending = page.ending /\ page'.st = next
  BY <1>2, <1>3 DEF PageRecords
<1>5. \A s \in Due : s \in seen' /\ s <= page'.after
  <2> TAKE s \in Due
  <2>1. s \in Nat /\ p.after \in Int
    BY <1>t, <1>2 DEF PageRecords
  <2>2. CASE s > page.after
    BY <1>1, <1>2, <1>3, <1>4, <2>2
  <2>3. CASE ~ (s > page.after)
    <3>1. s <= page.after /\ page.after <= p.after
      BY <1>t, <1>2, <2>1, <2>3
    <3>2. s \in seen
      BY <3>1 DEF PageFollows, PageOK
    <3> QED  BY <1>t, <1>3, <1>4, <2>1, <3>1, <3>2
  <2> QED  BY <2>2, <2>3
<1>6. page'.after \in Int /\ page'.after <= LastOf(stored)
  <2>1. page.after <= LastOf(stored)
    BY DEF PageFollows, PageOK
  <2>2. p.after = page.after \/ p.after \in stored
    BY <1>1, <1>2
  <2>3. p.after \in Int /\ p.after <= LastOf(stored)
    <3>1. CASE p.after = page.after
      <4> HIDE DEF LastOf
      <4> QED  BY <1>t, <2>1, <3>1
    <3>2. CASE p.after \in stored
      <4>1. \A x \in stored : x \in Int /\ x <= LastOf(stored)
        BY <1>t
      <4> QED  BY <3>2, <4>1
    <3> QED  BY <2>2, <3>1, <3>2
  <2> QED  BY <1>4, <2>3
<1>7. seen' \subseteq stored /\ page'.pending \subseteq stored
  BY <1>1, <1>3, <1>4 DEF PageFollows, PageOK
<1>8. (page'.st \in {"fin", "over"} \/ page'.ending => status # "running")
      /\ (page'.run # "running" => status # "running")
  BY <1>4 DEF PageFollows, PageOK
<1>9. \A s \in Due : ~ (s > page'.after)
  <2> TAKE s \in Due
  <2>1. s \in Nat /\ s <= page'.after
    BY <1>t, <1>5
  <2> QED  BY <1>6, <2>1
<1> QED  BY <1>5, <1>6, <1>7, <1>8, <1>9 DEF PageOK

\* An event the bus has not told yet is the newest stored one.
LEMMA HeldIsNewest ==
  ASSUME Types, StoreFollows, NEW s \in Held
  PROVE  s = job.item /\ job.st = "emit" /\ s \in Nat /\ \A t \in stored : t <= s
BY ItemIsStored DEF Held

\* What the bus has told meanwhile is sent, and the route follows it from now on.
LEMMA ChecksKeep ==
  ASSUME Types, StoreFollows, PageFollows, BrowserChecks, status = "running"
  PROVE  PageOK(page', seen', Held)
<1> DEFINE p == Send(page, page.pending)
<1>t. /\ page \in PageRecords /\ page.after \in Int /\ stored \subseteq Nat
      /\ Due \subseteq stored /\ LastOf(stored) \in Int /\ \A s \in stored : s <= LastOf(stored)
  BY DueIsStored
<1>f. /\ seen \subseteq stored /\ page.pending \subseteq stored /\ page.after <= LastOf(stored)
      /\ \A s \in Due : s <= page.after => s \in seen
      /\ \A s \in Due : s > page.after => s \in page.pending \cup Held
      /\ ~page.ending /\ page.run = "running"
  <2>1. page.st = "check" /\ page.st \in Serving
    BY DEF BrowserChecks, Serving
  <2> QED  BY <2>1 DEF PageFollows, PageOK
<1>2. /\ p \in PageRecords /\ p.after \in {page.after} \cup page.pending
      /\ \A s \in {page.after} \cup page.pending : s <= p.after
      /\ p.run = page.run /\ p.ending = page.ending
  BY <1>t, <1>f, StoredBounded, SendFacts
<1>3. /\ page' = [p EXCEPT !.st = "wait", !.pending = {}]
      /\ seen' = seen \cup New(page, page.pending)
  BY DEF BrowserChecks
<1> HIDE DEF p
<1>4. /\ page'.after = p.after /\ page'.run = "running" /\ page'.pending = {}
      /\ ~page'.ending /\ page'.st = "wait"
  BY <1>f, <1>2, <1>3 DEF PageRecords
<1>5. /\ p.after \in Int /\ p.after <= LastOf(stored) /\ page.after <= p.after
      /\ p.after = page.after \/ (p.after \in page.pending /\ p.after \in stored)
  <2>1. \A x \in stored : x \in Int /\ x <= LastOf(stored)
    BY <1>t
  <2>2. p.after = page.after \/ (p.after \in page.pending /\ p.after \in stored)
    BY <1>f, <1>2
  <2>3. page.after <= p.after
    BY <1>2
  <2>4. p.after \in Int /\ p.after <= LastOf(stored)
    <3>1. CASE p.after = page.after
      <4> HIDE DEF LastOf
      <4> QED  BY <1>t, <1>f, <3>1
    <3>2. CASE p.after \in stored
      BY <2>1, <3>2
    <3> QED  BY <2>2, <3>1, <3>2
  <2> QED  BY <2>2, <2>3, <2>4
<1>6. seen' \subseteq stored
  BY <1>3, <1>f DEF New
<1>7. \A s \in page.pending : s <= page.after \/ s \in seen'
  <2> TAKE s \in page.pending
  <2>1. s \in Nat
    BY <1>t, <1>f
  <2> QED  BY <1>t, <1>3, <2>1 DEF New
<1>8. \A s \in Due : s \in seen' \/ (s \in Held /\ s > page.after)
  <2> TAKE s \in Due
  <2>1. s \in Nat /\ (s <= page.after \/ s > page.after)
    BY <1>t
  <2>2. CASE s <= page.after
    BY <1>f, <1>3, <2>2
  <2>3. CASE s > page.after
    <3>1. s \in page.pending => s \in seen'
      BY <1>t, <1>7, <2>1, <2>3
    <3> QED  BY <1>f, <2>3, <3>1
  <2> QED  BY <2>1, <2>2, <2>3
<1>9. \A s \in Due, t \in seen' : s <= t => s \in seen'
  <2> SUFFICES ASSUME NEW s \in Due, NEW t \in seen', s <= t, s \in Held  PROVE s \in seen'
    BY <1>8
  <2>1. t \in stored /\ t \in Nat /\ s \in Nat /\ t <= s
    BY <1>t, <1>6, HeldIsNewest
  <2>2. s = t
    BY <2>1
  <2> QED  BY <2>2
<1>10. \A s \in Due : s <= p.after => s \in seen'
  <2> SUFFICES ASSUME NEW s \in Due, s <= p.after, s \in Held, s > page.after  PROVE s \in seen'
    BY <1>8
  <2>1. s \in Nat /\ \A t \in stored : t <= s
    BY HeldIsNewest
  <2>2. p.after # page.after
    BY <1>t, <1>5, <2>1
  <2>3. p.after \in page.pending /\ p.after <= s
    BY <1>5, <2>1, <2>2
  <2>4. s = p.after
    BY <1>5, <2>1, <2>3
  <2>5. s \in page.pending
    BY <2>3, <2>4
  <2> QED  BY <1>t, <1>7, <2>1, <2>5
<1>11. \A s \in Due : s > p.after => s \in Held
  <2> SUFFICES ASSUME NEW s \in Due, s > p.after  PROVE s \in Held
    OBVIOUS
  <2>0. s \in Nat /\ page.after \in Int /\ p.after \in Int /\ page.after <= p.after
    BY <1>t, <1>5
  <2>1. s \in Nat /\ s > page.after
    BY <2>0
  <2>2. s \notin page.pending
    <3>1. \A x \in page.pending : x <= p.after
      BY <1>2
    <3> QED  BY <1>5, <2>1, <3>1
  <2> QED  BY <1>f, <2>1, <2>2
<1> QED  BY <1>4, <1>5, <1>6, <1>9, <1>10, <1>11 DEF PageOK

\* The job tells the bus of the event it has stored.
LEMMA EmitKeeps ==
  ASSUME Types, StoreFollows, StatusFollows, PageFollows, JobEmits
  PROVE  PageOK(page', seen', {})
<1>t. /\ page \in PageRecords /\ page.after \in Int /\ stored \subseteq Nat
      /\ Due \subseteq stored /\ LastOf(stored) \in Int /\ \A s \in stored : s <= LastOf(stored)
  BY DueIsStored
<1>i. /\ job.st = "emit" /\ job.item \in stored /\ job.item \in Nat /\ \A s \in stored : s <= job.item
      /\ job.item <= LastOf(stored) /\ Held = {job.item}
  BY <1>t, ItemIsStored DEF JobEmits, Held
<1>r. status = "running" /\ page.st \notin {"fin", "over"} /\ ~page.ending /\ page.run = "running"
  BY <1>i DEF StatusFollows, PageFollows, PageOK, Connected
<1>1. CASE page.st \in {"list", "check"}
  <2>1. page' = [page EXCEPT !.pending = @ \cup {job.item}] /\ seen' = seen
    BY <1>1 DEF JobEmits
  <2>2. /\ page'.st = page.st /\ page'.after = page.after /\ page'.run = page.run
        /\ page'.ending = page.ending /\ page'.pending = page.pending \cup {job.item}
    BY <1>t, <2>1 DEF PageRecords
  <2> QED  BY <1>1, <1>i, <1>r, <2>1, <2>2 DEF PageFollows, PageOK
<1>2. CASE page.st \in {"wait", "again"}
  <2> DEFINE p == Send(page, {job.item})
  <2>0. page' = p /\ seen' = seen \cup New(page, {job.item})
    BY <1>2 DEF JobEmits
  <2>1. /\ p \in PageRecords /\ p.after \in {page.after} \cup {job.item}
        /\ \A s \in {page.after} \cup {job.item} : s <= p.after
        /\ p.st = page.st /\ p.run = page.run /\ p.ending = page.ending /\ p.pending = page.pending
    <3> DEFINE S == {job.item}
    <3>1. S \in SUBSET Int /\ job.item \in Int /\ \A s \in S : s <= job.item
      BY <1>i
    <3>2. /\ Send(page, S) \in PageRecords
          /\ Send(page, S).after \in {page.after} \cup S
          /\ \A s \in {page.after} \cup S : s <= Send(page, S).after
          /\ Send(page, S).st = page.st /\ Send(page, S).run = page.run
          /\ Send(page, S).pending = page.pending /\ Send(page, S).ending = page.ending
      <4> HIDE DEF S
      <4> QED  BY <1>t, <3>1, SendFacts
    <3> QED  BY <3>2
  <2> HIDE DEF p
  <2>2. page.st \in Serving
    BY <1>2 DEF Serving
  <2>3. /\ seen \subseteq stored /\ page.pending \subseteq stored /\ page.after <= LastOf(stored)
        /\ \A s \in Due : s <= page.after => s \in seen
        /\ \A s \in Due : s > page.after => s \in {job.item}
    BY <1>2, <1>i, <2>2 DEF PageFollows, PageOK
  <2>4. p.after \in Int /\ p.after <= LastOf(stored)
    <3>1. p.after = page.after \/ p.after = job.item
      BY <2>1
    <3> HIDE DEF LastOf
    <3> QED  BY <1>t, <1>i, <2>3, <3>1
  <2>5. \A s \in Due : s \in seen'
    <3> TAKE s \in Due
    <3>1. s \in Nat /\ (s <= page.after \/ s > page.after)
      BY <1>t
    <3>2. CASE s > page.after
      <4>1. s = job.item
        BY <2>3, <3>2
      <4> QED  BY <2>0, <3>2, <4>1 DEF New
    <3> QED  BY <2>0, <2>3, <3>1, <3>2
  <2>6. \A s \in Due : ~ (s > p.after)
    <3> TAKE s \in Due
    <3>1. s \in Nat /\ s <= job.item /\ job.item <= p.after
      BY <1>t, <1>i, <2>1
    <3> QED  BY <1>i, <2>4, <3>1
  <2>7. seen' \subseteq stored
    BY <1>i, <2>0, <2>3 DEF New
  <2> QED  BY <1>r, <2>0, <2>1, <2>3, <2>4, <2>5, <2>6, <2>7 DEF PageOK
<1>3. CASE page.st \notin {"list", "check", "wait", "again", "fin"}
  <2>1. UNCHANGED <<page, seen>>
    BY <1>3 DEF JobEmits, browser
  <2> QED  BY <1>3, <2>1 DEF PageFollows, PageOK
<1> QED  BY <1>r, <1>1, <1>2, <1>3

\* The steps of the route and of the browser's EventSource.
LEMMA BrowserStepsKeep ==
  ASSUME Types, StoreFollows, PageFollows, BrowserSteps
  PROVE  PageOK(page', seen', Held)
<1>t. /\ page \in PageRecords /\ page.after \in Int /\ stored \subseteq Nat
      /\ Due \subseteq stored /\ LastOf(stored) \in Int /\ LastOf(stored) >= -1
      /\ \A s \in stored : s <= LastOf(stored)
  BY DueIsStored, JobIsWithin
<1>f. /\ seen \subseteq stored /\ page.pending \subseteq stored
      /\ \A s \in Due, t \in seen : s <= t => s \in seen
      /\ page.st \in {"fin", "over"} \/ page.ending => status # "running"
      /\ page.run # "running" => status # "running"
  BY DEF PageFollows, PageOK
<1>1. CASE BrowserAsks
  <2>1. page' = [NoPage("load") EXCEPT !.run = status] /\ seen' = seen
    BY <1>1 DEF BrowserAsks
  <2>2. /\ page'.st = "load" /\ page'.run = status /\ page'.pending = {} /\ ~page'.ending
    BY <2>1 DEF NoPage
  <2> QED  BY <1>f, <2>1, <2>2 DEF PageOK, Serving
<1>2. CASE BrowserLoads
  <2>1. /\ page' = NoPage(IF page.run = "running" THEN "off" ELSE "over") /\ seen' = Shown(stored)
    BY <1>2 DEF BrowserLoads
  <2>2. /\ page'.st \in {"off", "over"} /\ page'.run = "running" /\ page'.pending = {} /\ ~page'.ending
        /\ page'.st = "over" => page.run # "running"
    BY <2>1, NoPageType
  <2>3. seen' \subseteq stored /\ Due \subseteq seen'
    BY <2>1 DEF Shown, Due
  <2> QED  BY <1>f, <2>2, <2>3 DEF PageOK, Serving
<1>3. CASE BrowserOpens
  <2>1. page' = [NoPage("get") EXCEPT !.from = LastOf(seen), !.after = LastOf(seen), !.run = status]
        /\ seen' = seen
    BY <1>3 DEF BrowserOpens
  <2>2. /\ page'.st = "get" /\ page'.after = LastOf(seen) /\ page'.run = status
        /\ page'.pending = {} /\ ~page'.ending
    BY <2>1 DEF NoPage
  <2>3. LastOf(seen) <= LastOf(stored) /\ \A s \in Due : s <= LastOf(seen) => s \in seen
    <3>1. CASE seen = {}
      <4>1. LastOf(seen) = -1
        BY <3>1, LastOfEmpty
      <4>2. \A s \in Due : ~ (s <= -1)
        BY <1>t
      <4> QED  BY <1>t, <4>1, <4>2
    <3>2. CASE seen # {}
      <4>1. LastOf(seen) \in seen
        BY <1>f, <3>2, StoredBounded, LastOfBounded
      <4> QED  BY <1>t, <1>f, <4>1
    <3> QED  BY <3>1, <3>2
  <2> QED  BY <1>f, <2>1, <2>2, <2>3 DEF PageOK
<1>4. CASE BrowserSubscribes
  <2>1. CASE page' = [page EXCEPT !.st = "list"] /\ seen' = seen /\ page.st = "get"
    <3>1. /\ page'.st = "list" /\ page'.after = page.after /\ page'.run = page.run
          /\ page'.pending = page.pending /\ page'.ending = page.ending
      BY <1>t, <2>1 DEF PageRecords
    <3>2. page.st \in Serving
      BY <2>1 DEF Serving
    <3> QED  BY <2>1, <3>1, <3>2 DEF PageFollows, PageOK
  <2>2. CASE page' = NoPage("greeted") /\ seen' = seen
    BY <1>f, <2>2, NoPageType DEF PageOK, Serving
  <2> QED  BY <1>4, <2>1, <2>2 DEF BrowserSubscribes
<1>5. CASE BrowserReplays
  BY <1>5, ListKeeps DEF BrowserReplays, Serving
<1>6. CASE BrowserChecks
  <2>1. CASE status = "running"
    BY <1>6, <2>1, ChecksKeep
  <2>2. CASE status # "running"
    <3>1. page.st = "check" /\ page' = [page EXCEPT !.st = "fin"] /\ seen' = seen
      BY <1>6, <2>2 DEF BrowserChecks
    <3>2. /\ page'.st = "fin" /\ page'.after = page.after /\ page'.run = page.run
          /\ page'.pending = page.pending /\ page'.ending = page.ending
      BY <1>t, <3>1 DEF PageRecords
    <3>3. page.st \in Serving
      BY <3>1 DEF Serving
    <3> QED  BY <2>2, <3>1, <3>2, <3>3 DEF PageFollows, PageOK
  <2> QED  BY <2>1, <2>2
<1>7. CASE BrowserResyncs
  BY <1>7, ListKeeps DEF BrowserResyncs, Serving
<1>8. CASE BrowserRechecks
  <2>1. /\ page.st = "again" /\ seen' = seen
        /\ page' = [page EXCEPT !.st = IF status = "running" THEN "wait" ELSE "fin"]
    BY <1>8 DEF BrowserRechecks
  <2>2. /\ page'.st = IF status = "running" THEN "wait" ELSE "fin"
        /\ page'.after = page.after /\ page'.run = page.run
        /\ page'.pending = page.pending /\ page'.ending = page.ending
    BY <1>t, <2>1 DEF PageRecords
  <2>3. page.st \in Serving
    BY <2>1 DEF Serving
  <2> QED  BY <2>1, <2>2, <2>3 DEF PageFollows, PageOK
<1>9. CASE BrowserFinishes
  <2>1. page.st \in Serving /\ status # "running"
    BY <1>9, <1>f DEF BrowserFinishes, Serving
  <2> QED  BY <1>9, <2>1, ListKeeps DEF BrowserFinishes
<1> QED  BY <1>1, <1>2, <1>3, <1>4, <1>5, <1>6, <1>7, <1>8, <1>9 DEF BrowserSteps

\* A job that is to tell the bus does that next, or goes down.
LEMMA HeldStays ==
  ASSUME [Next]_vars, ~JobEmits, ~AppCrashes, job.st = "emit"
  PROVE  job' = job
BY EveryWriter DEF Writers, JobSteps, JobConnects, JobReads, JobApplies, JobStores, JobFinishes,
   JobAnnounces, JobLosesStream, JobResumes, JobCannotConnect, JobCannotStore

\* The steps of the others: what becomes due comes after all that was stored.
LEMMA OthersKeep ==
  ASSUME Types, BufferInOrder, StoreFollows, StatusFollows, PageFollows, [Next]_vars,
         UNCHANGED <<page, seen>>, ~JobEmits, ~AppCrashes
  PROVE  PageFollows'
<1>t. /\ page \in PageRecords /\ page.after \in Int /\ stored \subseteq Nat
      /\ Due \subseteq stored /\ LastOf(stored) \in Int /\ \A s \in stored : s <= LastOf(stored)
      /\ stored \subseteq stored' /\ LastOf(stored') \in Int /\ LastOf(stored) <= LastOf(stored')
  BY DueIsStored, StoreGrows
<1>f. /\ seen \subseteq stored /\ page.pending \subseteq stored
      /\ \A s \in Due, t \in seen : s <= t => s \in seen
      /\ page.st \in Serving => page.after <= LastOf(stored) /\ \A s \in Due : s <= page.after => s \in seen
      /\ page.st = "check" => \A s \in Due : s > page.after => s \in page.pending \cup Held
      /\ page.st \in {"wait", "again"} => \A s \in Due : s > page.after => s \in Held
      /\ page.st \in {"fin", "over"} \/ page.ending => status # "running"
      /\ page.run # "running" => status # "running"
      /\ page.st = "over" => Due \subseteq seen
  BY DEF PageFollows, PageOK
<1>1. \A s \in Due' : s \in Due \/ (s \in Held' /\ s \in Nat /\ LastOf(stored) < s /\ status = "running")
  <2> TAKE s \in Due'
  <2>1. s \in Due \/ (JobStores /\ job'.st = "emit" /\ job'.item = s /\ s \in Nat /\ LastOf(stored) < s)
    BY DueGrows
  <2>2. JobStores => status = "running"
    BY DEF JobStores, StatusFollows, Connected
  <2> QED  BY <2>1, <2>2 DEF Held
<1>2. Held \subseteq Held'
  BY HeldStays DEF Held
<1>3. status # "running" => status' # "running"
  BY EveryWriter DEF Writers, JobFinishes
<1>4. \A s \in Due', t \in seen : s <= t => s \in seen
  <2> SUFFICES ASSUME NEW s \in Due', NEW t \in seen, s <= t  PROVE s \in Due
    BY <1>f
  <2>1. t \in Nat /\ t <= LastOf(stored)
    BY <1>t, <1>f
  <2>2. s \in Nat => ~ (LastOf(stored) < s)
    BY <1>t, <2>1
  <2> QED  BY <1>1, <2>2
<1>5. ASSUME page.st \in Serving
      PROVE  page.after <= LastOf(stored') /\ \A s \in Due' : s <= page.after => s \in seen
  <2>1. page.after <= LastOf(stored)
    BY <1>5, <1>f
  <2>2. ASSUME NEW s \in Due', s <= page.after  PROVE s \in seen
    <3>1. s \in Nat => ~ (LastOf(stored) < s)
      BY <1>t, <2>1, <2>2
    <3>2. s \in Due
      BY <1>1, <3>1
    <3> QED  BY <1>5, <1>f, <2>2, <3>2
  <2>3. page.after <= LastOf(stored')
    <3> HIDE DEF LastOf
    <3> QED  BY <1>t, <2>1
  <2> QED  BY <2>2, <2>3
<1>6. page.st = "check" => \A s \in Due' : s > page.after => s \in page.pending \cup Held'
  BY <1>1, <1>2, <1>f
<1>7. page.st \in {"wait", "again"} => \A s \in Due' : s > page.after => s \in Held'
  BY <1>1, <1>2, <1>f
<1>8. page.st = "over" => Due' \subseteq seen
  BY <1>1, <1>f
<1> QED  BY <1>t, <1>f, <1>3, <1>4, <1>5, <1>6, <1>7, <1>8 DEF PageFollows, PageOK

LEMMA PageKeepsUp ==
  ASSUME Types, BufferInOrder, StoreFollows, StatusFollows, PageFollows, [Next]_vars
  PROVE  PageFollows'
<1>s. ASSUME UNCHANGED <<buffer, stored, missed, status>>, PageOK(page', seen', Held')
      PROVE  PageFollows'
  BY <1>s, DueStays DEF PageFollows, PageOK
<1>1. CASE BrowserSteps
  <2>1. UNCHANGED <<buffer, stored, missed, status, job>>
    BY <1>1 DEF BrowserSteps, BrowserAsks, BrowserLoads, BrowserOpens, BrowserSubscribes,
       BrowserReplays, BrowserChecks, BrowserResyncs, BrowserRechecks, BrowserFinishes, ListAndSend,
       UnchangedByPage, database
  <2>2. Held' = Held
    BY <2>1 DEF Held
  <2> QED  BY <1>s, <1>1, <2>1, <2>2, BrowserStepsKeep
<1>2. CASE BrowserDrops
  <2>1. UNCHANGED <<buffer, stored, missed, status, job>> /\ Drops
    BY <1>2 DEF BrowserDrops, UnchangedByPage, database
  <2> QED  BY <1>s, <2>1, DropsKeep
<1>3. CASE AppCrashes
  <2>1. UNCHANGED <<buffer, stored, missed, status>> /\ Drops
    BY <1>3 DEF AppCrashes, database
  <2> QED  BY <1>s, <2>1, DropsKeep
<1>4. CASE JobEmits
  <2>1. UNCHANGED <<buffer, stored, missed, status>> /\ job' = Past(job) /\ job.st = "emit"
    BY <1>4 DEF JobEmits, UnchangedByJob, database
  <2>2. Held' = {}
    <3>1. job'.st \in {"finish", "read"}
      BY <2>1, PastType DEF Types
    <3> QED  BY <3>1 DEF Held
  <2> QED  BY <1>s, <1>4, <2>1, <2>2, EmitKeeps
<1>5. CASE JobAnnounces
  <2>1. /\ UNCHANGED <<buffer, stored, missed, status, seen>> /\ job.st = "announce" /\ job'.st = "over"
        /\ page' = page \/ page' = [page EXCEPT !.ending = TRUE]
    BY <1>5, NoJobType DEF JobAnnounces, UnchangedByJob, database
  <2>2. status # "running" /\ Held = {} /\ Held' = {}
    BY <2>1 DEF StatusFollows, Held
  <2>3. page \in PageRecords
    BY DEF Types, BrowserTypes
  <2>4. /\ page'.st = page.st /\ page'.after = page.after /\ page'.run = page.run
        /\ page'.pending = page.pending
    BY <2>1, <2>3 DEF PageRecords
  <2>5. PageOK(page', seen', {})
    BY <2>1, <2>2, <2>4 DEF PageFollows, PageOK
  <2> QED  BY <1>s, <2>1, <2>2, <2>5
<1> QED  BY <1>1, <1>2, <1>3, <1>4, <1>5, OthersKeep, EveryWriter DEF Writers

-----------------------------------------------------------------------------
(* The theorems.                                                           *)

LEMMA InitInvariant == Init => IInv
<1> SUFFICES ASSUME Init  PROVE IInv
  OBVIOUS
<1> USE DEF Init
<1>b. buffer = <<>> /\ Len(buffer) = 0 /\ unsaid = <<>> /\ Len(unsaid) = 0 /\ Said = 0
  <2>1. fact = 0 /\ unsaid = <<>> /\ buffer = <<>> /\ Len(<<>>) = 0
    OBVIOUS
  <2>2. Len(unsaid) = 0 /\ Len(buffer) = 0
    BY <2>1
  <2> HIDE DEF Init
  <2>3. Said = 0
    <3>1. Said = fact - Len(unsaid)
      BY DEF Said
    <3>2. fact = 0
      BY <2>1
    <3> QED  BY <2>2, <3>1, <3>2
  <2> QED  BY <2>1, <2>2, <2>3
<1>l. LastOf(stored) = -1 /\ 0..(-1) = {} /\ Due = {}
  BY LastOfEmpty DEF Due, Shown
<1>1. Types
  <2>1. AgentTypes
    BY DEF AgentTypes
  <2>2. StreamTypes
    BY DEF StreamTypes, StreamRecords, NoStream
  <2>3. JobTypes
    BY DEF JobTypes, JobRecords, NoJob, Statuses
  <2>4. DatabaseTypes
    BY DEF DatabaseTypes, Statuses
  <2>5. BrowserTypes
    BY NoPageType DEF BrowserTypes
  <2> QED  BY <2>1, <2>2, <2>3, <2>4, <2>5 DEF Types
<1>2. BufferInOrder
  BY <1>b DEF BufferInOrder
<1>3. ResultHasAll
  BY <1>b DEF ResultHasAll, LastSaid
<1>4. StreamInOrder /\ WireFollows
  BY DEF StreamInOrder, Streams, WireFollows, Connected, NoJob
<1>5. StoreFollows
  <2>1. NoHoleInStore
    BY <1>l DEF NoHoleInStore
  <2>2. LastOf(stored) \in -1..Len(buffer) - 1
    BY <1>b, <1>l
  <2> QED  BY <1>l, <2>1, <2>2 DEF StoreFollows, NoJob, Connected, Handling
<1>6. StatusFollows
  BY DEF StatusFollows, Succeeds, NoJob, Connected
<1>7. FactsFollow
  <2>1. ~Succeeds
    BY DEF Succeeds, NoJob
  <2>2. Applied(-1)
    BY <1>l DEF Applied, AppliedIn
  <2> QED  BY <2>1, <2>2 DEF FactsFollow, NoJob
<1>8. PageFollows
  BY <1>l, NoPageType DEF PageFollows, PageOK, Serving
<1> QED  BY <1>1, <1>2, <1>3, <1>4, <1>5, <1>6, <1>7, <1>8 DEF IInv

LEMMA NextInvariant == IInv /\ [Next]_vars => IInv'
<1> SUFFICES ASSUME IInv, [Next]_vars  PROVE IInv'
  OBVIOUS
<1> USE DEF IInv
<1>1. Types'
  BY TypesKept
<1>2. BufferInOrder' /\ ResultHasAll'
  BY EditsInOrder
<1>3. StreamInOrder' /\ WireFollows'
  BY StreamKeepsOrder, WireKeepsUp
<1>4. StoreFollows' /\ StatusFollows'
  BY StoreKeepsUp, StatusKeepsUp
<1>5. FactsFollow'
  BY FactsKeepUp
<1>6. PageFollows'
  BY PageKeepsUp
<1> QED  BY <1>1, <1>2, <1>3, <1>4, <1>5, <1>6

\* Every step of the run's events keeps the chain from the agent to the browser,
\* whatever breaks and however often.
THEOREM EventsInvariant == Spec => []IInv
BY InitInvariant, NextInvariant, PTL DEF Spec

\* The stored events have no hole: each connection begins after the newest of
\* them, so a hole would never be filled.
THEOREM NoHoleInStoreHolds == Spec => []NoHoleInStore
<1>1. IInv => NoHoleInStore
  BY DEF IInv, StoreFollows
<1> QED  BY EventsInvariant, <1>1, PTL

\* A run that brought its result has left every fact its agent stored.
THEOREM FactsArriveHolds == Spec => []FactsArrive
<1>1. IInv => FactsArrive
  <2> SUFFICES ASSUME IInv, status = "succeeded", ~failed, ~rewound  PROVE memory = fact
    BY DEF FactsArrive
  <2>1. Succeeds /\ fact \in Nat /\ memory \in Nat /\ memory <= fact /\ Len(buffer) \in Nat
    BY DEF IInv, Succeeds, Types, AgentTypes, DatabaseTypes, FactsFollow
  <2>2. buffer # <<>> /\ buffer[Len(buffer)].kind = "result" /\ AppliedIn(buffer, Len(buffer) - 1, memory)
    BY <2>1 DEF IInv, StatusFollows, FactsFollow, Applied
  <2>3. Len(buffer) \in 1..Len(buffer)
    <3>1. buffer \in Seq([kind : Kinds, fact : Nat])
      BY DEF IInv, Types, AgentTypes
    <3> QED  BY <2>1, <2>2, <3>1, EmptySeq
  <2>4. unsaid = <<>> /\ LastSaid
    BY <2>2, <2>3 DEF IInv, ResultHasAll
  <2>5. Said = fact
    BY <2>1, <2>4 DEF Said
  <2>6. CASE fact = 0
    BY <2>1, <2>6
  <2>7. CASE fact # 0
    <3>1. PICK k \in 1..Len(buffer) : buffer[k].kind = "memory" /\ buffer[k].fact = fact
      BY <2>4, <2>5, <2>7 DEF LastSaid
    <3>2. k - 1 \in 0..Len(buffer) - 1 /\ k - 1 < Len(buffer) /\ (k - 1) + 1 = k
      BY <2>1, <3>1
    <3>3. fact <= memory
      BY <2>2, <3>1, <3>2 DEF AppliedIn
    <3> QED  BY <2>1, <3>3
  <2> QED  BY <2>6, <2>7
<1> QED  BY EventsInvariant, <1>1, PTL

\* A browser that followed a run to its final status has every event that is
\* shown and was told to the bus or found by a read.
THEOREM BrowserHasAllHolds == Spec => []BrowserHasAll
<1>1. IInv => BrowserHasAll
  BY DEF IInv, PageFollows, PageOK, Due, BrowserHasAll
<1> QED  BY EventsInvariant, <1>1, PTL
===============================================================================
