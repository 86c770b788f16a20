---------------------------- MODULE SampleCustody ----------------------------
(***************************************************************************)
(* What the collector promises about the samples it accepts, without saying *)
(* how: each is in memory until it is made durable or archived, and custody *)
(* is only ever handed over in the directions below.  StoreForward is shown *)
(* to implement this module.                                               *)
(*                                                                         *)
(* The durable buffer and the archive keep one sample per key, so beyond    *)
(* memory only keys (tag, source timestamp) are followed.                   *)
(***************************************************************************)
EXTENDS Naturals, FiniteSets

CONSTANT Bound     \* rows the durable buffer may hold

VARIABLES
  accepted,        \* samples ever accepted
  memory,          \* samples held in memory only
  durable,         \* keys in the durable buffer
  archived,        \* keys the archive holds
  discarded,       \* keys the full buffer gave up
  gone             \* samples that were lost with the memory

vars == <<accepted, memory, durable, archived, discarded, gone>>

KeyOf(s)  == <<s.tag, s.ts>>
KeysOf(S) == {KeyOf(s) : s \in S}

Init ==
  /\ accepted = {}
  /\ memory = {}
  /\ durable = {}
  /\ archived = {}
  /\ discarded = {}
  /\ gone = {}

\* A new sample is numbered.
Accept ==
  \E s \in accepted' :
    /\ s \notin accepted
    /\ accepted' = accepted \cup {s}
    /\ memory' = memory \cup {s}
    /\ UNCHANGED <<durable, archived, discarded, gone>>

\* The archive commits keys it is sent from memory or from the buffer.
Archive ==
  /\ archived \subseteq archived'
  /\ archived' \subseteq archived \cup KeysOf(memory) \cup durable
  /\ UNCHANGED <<accepted, memory, durable, discarded, gone>>

\* What the archive has may be let go of in memory.
Release ==
  \E S \in SUBSET memory :
    /\ KeysOf(S) \subseteq archived
    /\ memory' = memory \ S
    /\ UNCHANGED <<accepted, durable, archived, discarded, gone>>

\* Samples move from memory to the buffer; rows the archive has leave it; rows
\* are discarded only to keep the buffer within its bound, leaving it full.
Save ==
  /\ memory' \subseteq memory
  /\ LET saved == KeysOf(memory \ memory')
         given == discarded' \ discarded
         out   == (durable \cup saved) \ durable'
     IN /\ durable' \subseteq durable \cup saved
        /\ discarded \subseteq discarded'
        /\ out \subseteq archived \cup discarded'
        /\ given \subseteq out
        /\ given # {} => Cardinality(durable') = Bound
  /\ UNCHANGED <<accepted, archived, gone>>

\* The process ends with samples in memory.
Lose ==
  /\ memory' \subseteq memory
  /\ gone' = gone \cup (memory \ memory')
  /\ UNCHANGED <<accepted, durable, archived, discarded>>

Next == Accept \/ Archive \/ Release \/ Save \/ Lose

Spec == Init /\ [][Next]_vars

\* Consequence: every accepted sample can be accounted for.
Accounted ==
  \A s \in accepted : \/ s \in memory \cup gone
                      \/ KeyOf(s) \in durable \cup archived \cup discarded
=============================================================================
