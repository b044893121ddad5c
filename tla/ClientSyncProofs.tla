--------------------------- MODULE ClientSyncProofs ---------------------------
(***************************************************************************)
(* Proofs about ClientSync.  The inductive invariant is built in layers,   *)
(* each proved from the ones before it: types and shapes; copies, which    *)
(* nobody deletes; the life of a file, between its creation and the purge  *)
(* of its content; versions; stores without a content; agreement, that     *)
(* every difference between a device and the servers is on somebody's      *)
(* list; growth, that a merge starts from a part of both sides; the copies *)
(* made in conflicts; the edits themselves.  But for the first two, a      *)
(* layer is about the files without a known loss (spoiled), which is what  *)
(* the three properties are about.                                         *)
(***************************************************************************)
EXTENDS SubsequenceProofs, NaturalsInduction, ClientSync

-----------------------------------------------------------------------------
(* Queues. *)

\* The events of a batch: the first, and the rest.
LEMMA ToSetTail ==
    ASSUME NEW S, NEW s \in Seq(S), s # <<>>
    PROVE  /\ Head(s) \in S /\ Head(s) \in ToSet(s) /\ Tail(s) \in Seq(S)
           /\ ToSet(Tail(s)) \subseteq ToSet(s)
           /\ ToSet(s) \subseteq {Head(s)} \cup ToSet(Tail(s))
<1>1. /\ Tail(s) \in Seq(S) /\ Len(Tail(s)) = Len(s) - 1 /\ Len(s) \in Nat /\ Len(s) # 0
      /\ DOMAIN s = 1..Len(s) /\ DOMAIN Tail(s) = 1..Len(Tail(s))
      /\ Head(s) = s[1] /\ Head(s) \in S
  OBVIOUS
<1>2. \A i \in 1..Len(Tail(s)) : Tail(s)[i] = s[i + 1] /\ i + 1 \in DOMAIN s
  BY <1>1
<1>3. \A i \in 1..Len(s) : i = 1 \/ (i - 1 \in 1..Len(Tail(s)) /\ Tail(s)[i - 1] = s[i])
  BY <1>1
<1>4. Head(s) \in ToSet(s)
  BY <1>1 DEF ToSet
<1>5. ToSet(Tail(s)) \subseteq ToSet(s)
  BY <1>1, <1>2 DEF ToSet
<1>6. ToSet(s) \subseteq {Head(s)} \cup ToSet(Tail(s))
  <2> SUFFICES ASSUME NEW i \in 1..Len(s) PROVE s[i] \in {Head(s)} \cup ToSet(Tail(s))
    BY <1>1 DEF ToSet
  <2>1. CASE i = 1
    BY <2>1, <1>1
  <2>2. CASE i - 1 \in 1..Len(Tail(s)) /\ Tail(s)[i - 1] = s[i]
    BY <2>2, <1>1 DEF ToSet
  <2> QED BY <2>1, <2>2, <1>3
<1> QED BY <1>1, <1>4, <1>5, <1>6

\* The watcher takes a prefix of what the kernel holds: no event is in neither part.
LEMMA ToSetSplit ==
    ASSUME NEW S, NEW s \in Seq(S), NEW n \in DOMAIN s
    PROVE  /\ SubSeq(s, 1, n) \in Seq(S) /\ SubSeq(s, n + 1, Len(s)) \in Seq(S)
           /\ ToSet(s) = ToSet(SubSeq(s, 1, n)) \cup ToSet(SubSeq(s, n + 1, Len(s)))
<1> DEFINE u == SubSeq(s, 1, n)
           v == SubSeq(s, n + 1, Len(s))
<1>1. n \in 1..Len(s) /\ Len(s) \in Nat /\ DOMAIN s = 1..Len(s)
  OBVIOUS
<1>2. /\ u \in Seq(S) /\ DOMAIN u = 1..n /\ \A i \in 1..n : u[i] = s[i]
  BY <1>1, SubSeqProperties
<1>3. /\ v \in Seq(S) /\ DOMAIN v = 1..(Len(s) - n) /\ \A i \in 1..(Len(s) - n) : v[i] = s[n + i]
  BY <1>1, SubSeqProperties
<1>4. \A i \in 1..Len(s) : i \in 1..n \/ (i - n \in 1..(Len(s) - n) /\ n + (i - n) = i)
  BY <1>1
<1>5. \A i \in 1..(Len(s) - n) : n + i \in 1..Len(s)
  BY <1>1
<1>6. \A i \in 1..n : i \in 1..Len(s)
  BY <1>1
<1> HIDE DEF u, v
<1>7. ToSet(u) \subseteq ToSet(s)
  BY <1>1, <1>2, <1>6 DEF ToSet
<1>8. ToSet(v) \subseteq ToSet(s)
  BY <1>1, <1>3, <1>5 DEF ToSet
<1>9. ToSet(s) \subseteq ToSet(u) \cup ToSet(v)
  <2> SUFFICES ASSUME NEW i \in 1..Len(s) PROVE s[i] \in ToSet(u) \cup ToSet(v)
    BY <1>1 DEF ToSet
  <2>1. CASE i \in 1..n
    BY <2>1, <1>2 DEF ToSet
  <2>2. CASE i - n \in 1..(Len(s) - n) /\ n + (i - n) = i
    <3>1. v[i - n] = s[i] /\ i - n \in DOMAIN v
      BY <2>2, <1>3
    <3> QED BY <3>1 DEF ToSet
  <2> QED BY <2>1, <2>2, <1>4
<1> QED BY <1>2, <1>3, <1>7, <1>8, <1>9 DEF u, v

-----------------------------------------------------------------------------
(* What a step does to what is heard and told: the kernel's queues and the wire
   are looked at here only; the layers below see Heard and Told. *)

\* What the kernel says of a file, and what a notice says of it.
Types == {"created", "modified", "deleted"}
Kinds == {"FILE+", "FILE~", "FILE-"}

\* A notice for d is on its way.
Told(d, type, f) == [to |-> d, file |-> f, type |-> type] \in BagToSet(wire)

\* A notice that makes d look at the servers' content.
Informed(d, f) == Told(d, "FILE+", f) \/ Told(d, "FILE~", f)

\* The handler of d is at work on f, at one of these places.
Doing(d, labels, f) == job[d].file = f /\ job[d].at \in labels

\* What a step adds to what devices have heard of, and to what they are told.
Hears(d, S, f) ==
    \A e \in Device, t \in Types, g \in File :
        Heard(e, t, g)' <=> Heard(e, t, g) \/ (e = d /\ g = f /\ t \in S /\ phase[d] = "on")

\* A step that adds nothing to it, and takes nothing away.
SameHeard == \A e \in Device, t \in Types, g \in File : Heard(e, t, g)' <=> Heard(e, t, g)

\* The others that run are told of f.
Tells(d, type, f) ==
    \A e \in Device, t \in Kinds, g \in File :
        Told(e, t, g)' <=> Told(e, t, g) \/ (e # d /\ phase[e] = "on" /\ g = f /\ t = type)

\* Nobody is told, and no notice is taken.
SameTold == \A e \in Device, t \in Kinds, g \in File : Told(e, t, g)' <=> Told(e, t, g)

\* Only the notice n may be gone.
TakenFrom(n) ==
    \A e \in Device, t \in Kinds, g \in File :
        /\ Told(e, t, g)' => Told(e, t, g)
        /\ Told(e, t, g) => Told(e, t, g)' \/ (e = n.to /\ t = n.type /\ g = n.file)

\* The parts of TypeOK that sequences and bags are about.
InotifyOK == inotify \in [Device -> Seq(Event)] /\ batch \in [Device -> Seq(Event)]
WireOK == IsABag(wire) /\ BagToSet(wire) \subseteq Notice

\* Whoever leaves the queues alone changes nothing of what was heard.
LEMMA SameHeardWhen ==
    ASSUME UNCHANGED <<inotify, batch>> PROVE SameHeard
  BY DEF SameHeard, Heard

\* Whoever leaves the wire alone tells nobody.
LEMMA SameToldWhen ==
    ASSUME UNCHANGED wire PROVE SameTold
  BY DEF SameTold, Told

\* The kernel's events: exactly these types are heard, by this device only,
\* and only while it watches.
LEMMA SignalsEffect ==
    ASSUME InotifyOK, NEW d \in Device, NEW f \in File,
           NEW types \in Seq(Types), Signals(d, types, f), batch' = batch
    PROVE  InotifyOK' /\ Hears(d, ToSet(types), f)
<1> DEFINE new == [i \in DOMAIN types |-> [type |-> types[i], file |-> f]]
<1>1. new \in Seq(Event)
  <2>1. types \in [1..Len(types) -> Types] /\ Len(types) \in Nat
    OBVIOUS
  <2>2. DOMAIN types = 1..Len(types)
    BY <2>1
  <2>3. new \in [1..Len(types) -> Event]
    BY <2>1, <2>2 DEF Event, Types
  <2> QED BY <2>1, <2>3, SeqDef
<1>2. ToSet(new) = {[type |-> t, file |-> f] : t \in ToSet(types)}
  BY DEF ToSet
<1>3. phase[d] = "on" => inotify' = [inotify EXCEPT ![d] = @ \o new]
  BY DEF Signals
<1>4. phase[d] # "on" => inotify' = inotify
  BY DEF Signals
<1> HIDE DEF new
<1>5. inotify[d] \o new \in Seq(Event) /\ ToSet(inotify[d] \o new) = ToSet(inotify[d]) \cup ToSet(new)
  BY <1>1, ToSetConcat DEF InotifyOK
<1>6. InotifyOK'
  BY <1>3, <1>4, <1>5 DEF InotifyOK
<1>7. Hears(d, ToSet(types), f)
  <2> SUFFICES ASSUME NEW e \in Device, NEW t \in Types, NEW g \in File
               PROVE  Heard(e, t, g)' <=> Heard(e, t, g)
                                          \/ (e = d /\ g = f /\ t \in ToSet(types) /\ phase[d] = "on")
    BY DEF Hears
  <2>1. CASE phase[d] # "on"
    BY <2>1, <1>4 DEF Heard
  <2>2. CASE phase[d] = "on" /\ e # d
    <3>1. inotify'[e] = inotify[e]
      BY <2>2, <1>3 DEF InotifyOK
    <3> QED BY <3>1, <2>2 DEF Heard
  <2>3. CASE phase[d] = "on" /\ e = d
    <3>1. ToSet(inotify'[d]) = ToSet(inotify[d]) \cup ToSet(new)
      BY <2>3, <1>3, <1>5 DEF InotifyOK
    <3>2. [type |-> t, file |-> g] \in ToSet(new) <=> g = f /\ t \in ToSet(types)
      BY <1>2
    <3> QED BY <3>1, <3>2, <2>3 DEF Heard
  <2> QED BY <2>1, <2>2, <2>3
<1> QED BY <1>6, <1>7

\* createTextFile is heard as a modification, of a new file as a creation too.
LEMMA WriteEffect ==
    ASSUME TypeOK, NEW d \in Device, NEW f \in File, NEW c \in Content,
           Write(d, f, c), batch' = batch
    PROVE  /\ InotifyOK' /\ disk' = [disk EXCEPT ![d][f] = c]
           /\ disk' \in [Device -> [File -> {None} \cup Content]]
           /\ Exists(d, f) => Hears(d, {"modified"}, f)
           /\ ~Exists(d, f) => Hears(d, {"created", "modified"}, f)
<1>1. InotifyOK /\ disk \in [Device -> [File -> {None} \cup Content]]
  BY DEF TypeOK, InotifyOK
<1>2. disk' = [disk EXCEPT ![d][f] = c]
  BY DEF Write
<1>3. disk' \in [Device -> [File -> {None} \cup Content]]
  BY <1>1, <1>2
<1>4. /\ <<"modified">> \in Seq(Types) /\ <<"created", "modified">> \in Seq(Types)
      /\ ToSet(<<"modified">>) = {"modified"}
      /\ ToSet(<<"created", "modified">>) = {"created", "modified"}
  BY DEF Types, ToSet
<1>5. CASE Exists(d, f)
  <2>1. Signals(d, <<"modified">>, f)
    BY <1>5 DEF Write
  <2>2. InotifyOK' /\ Hears(d, ToSet(<<"modified">>), f)
    BY <1>1, <1>4, <2>1, SignalsEffect
  <2> QED BY <1>2, <1>3, <1>4, <1>5, <2>2 DEF Hears
<1>6. CASE ~Exists(d, f)
  <2>1. Signals(d, <<"created", "modified">>, f)
    BY <1>6 DEF Write
  <2>2. InotifyOK' /\ Hears(d, ToSet(<<"created", "modified">>), f)
    BY <1>1, <1>4, <2>1, SignalsEffect
  <2> QED BY <1>2, <1>3, <1>4, <1>6, <2>2 DEF Hears
<1> QED BY <1>5, <1>6

\* A file that goes away is heard as a deletion; a missing one makes no event.
LEMMA EraseEffect ==
    ASSUME TypeOK, NEW d \in Device, NEW f \in File, Erase(d, f), batch' = batch
    PROVE  /\ InotifyOK' /\ disk' = [disk EXCEPT ![d][f] = None]
           /\ disk' \in [Device -> [File -> {None} \cup Content]]
           /\ Exists(d, f) => Hears(d, {"deleted"}, f)
           /\ ~Exists(d, f) => SameHeard
<1>1. InotifyOK /\ disk \in [Device -> [File -> {None} \cup Content]]
  BY DEF TypeOK, InotifyOK
<1>2. disk' = [disk EXCEPT ![d][f] = None]
  BY DEF Erase
<1>3. disk' \in [Device -> [File -> {None} \cup Content]]
  BY <1>1, <1>2
<1>4. <<"deleted">> \in Seq(Types) /\ ToSet(<<"deleted">>) = {"deleted"}
  BY DEF Types, ToSet
<1>5. CASE Exists(d, f)
  <2>1. Signals(d, <<"deleted">>, f)
    BY <1>5 DEF Erase
  <2>2. InotifyOK' /\ Hears(d, ToSet(<<"deleted">>), f)
    BY <1>1, <1>4, <2>1, SignalsEffect
  <2> QED BY <1>2, <1>3, <1>4, <1>5, <2>2 DEF Hears
<1>6. CASE ~Exists(d, f)
  <2>1. UNCHANGED inotify
    BY <1>6 DEF Erase
  <2> QED BY <1>1, <1>2, <1>3, <1>6, <2>1, SameHeardWhen DEF InotifyOK
<1> QED BY <1>5, <1>6

\* Moving events from the kernel to eventQueue changes nothing of what was heard.
LEMMA WatchEffect ==
    ASSUME TypeOK, NEW d \in Device, Watch(d)
    PROVE  InotifyOK' /\ SameHeard
<1>1. InotifyOK /\ batch[d] = <<>>
  BY DEF TypeOK, InotifyOK, Watch
<1>2. PICK n \in DOMAIN inotify[d] :
         /\ batch' = [batch EXCEPT ![d] = Distinct(SubSeq(inotify[d], 1, n))]
         /\ inotify' = [inotify EXCEPT ![d] = SubSeq(@, n + 1, Len(@))]
  BY DEF Watch
<1> DEFINE u == SubSeq(inotify[d], 1, n)
           v == SubSeq(inotify[d], n + 1, Len(inotify[d]))
<1>3. u \in Seq(Event) /\ v \in Seq(Event) /\ ToSet(inotify[d]) = ToSet(u) \cup ToSet(v)
  BY <1>1, ToSetSplit DEF InotifyOK
<1> HIDE DEF u, v
<1>4. Distinct(u) \in Seq(Event) /\ ToSet(Distinct(u)) = ToSet(u)
  BY <1>3, DistinctKeeps
<1>5. batch' = [batch EXCEPT ![d] = Distinct(u)] /\ inotify' = [inotify EXCEPT ![d] = v]
  BY <1>2 DEF u, v
<1>6. InotifyOK'
  BY <1>1, <1>3, <1>4, <1>5 DEF InotifyOK
<1>7. ToSet(batch[d]) = {}
  BY <1>1 DEF ToSet
<1>8. SameHeard
  <2> SUFFICES ASSUME NEW e \in Device, NEW t \in Types, NEW g \in File
               PROVE  Heard(e, t, g)' <=> Heard(e, t, g)
    BY DEF SameHeard
  <2>1. CASE e # d
    <3>1. inotify'[e] = inotify[e] /\ batch'[e] = batch[e]
      BY <2>1, <1>1, <1>5 DEF InotifyOK
    <3> QED BY <3>1 DEF Heard
  <2>2. CASE e = d
    <3>1. inotify'[d] = v /\ batch'[d] = Distinct(u)
      BY <1>1, <1>5 DEF InotifyOK
    <3> QED BY <3>1, <2>2, <1>3, <1>4, <1>7 DEF Heard
  <2> QED BY <2>1, <2>2
<1> QED BY <1>6, <1>8

\* The first event of the batch is taken; an equal one may be left.
LEMMA TakeEffect ==
    ASSUME TypeOK, NEW d \in Device, batch[d] # <<>>,
           batch' = [batch EXCEPT ![d] = Tail(@)], inotify' = inotify
    PROVE  /\ InotifyOK' /\ Head(batch[d]) \in Event
           /\ Heard(d, Head(batch[d]).type, Head(batch[d]).file)
           /\ \A e \in Device, t \in Types, g \in File :
                /\ Heard(e, t, g)' => Heard(e, t, g)
                /\ Heard(e, t, g) => Heard(e, t, g)'
                                     \/ (e = d /\ t = Head(batch[d]).type /\ g = Head(batch[d]).file)
<1>1. InotifyOK
  BY DEF TypeOK, InotifyOK
<1> DEFINE h == Head(batch[d])
           b == Tail(batch[d])
<1>2. /\ h \in Event /\ h \in ToSet(batch[d]) /\ b \in Seq(Event)
      /\ ToSet(b) \subseteq ToSet(batch[d]) /\ ToSet(batch[d]) \subseteq {h} \cup ToSet(b)
  BY <1>1, ToSetTail DEF InotifyOK
<1>3. batch' = [batch EXCEPT ![d] = b]
  OBVIOUS
<1> HIDE DEF h, b
<1>4. InotifyOK'
  BY <1>1, <1>2, <1>3 DEF InotifyOK
<1>5. h = [type |-> h.type, file |-> h.file]
  BY <1>2 DEF Event
<1>6. Heard(d, h.type, h.file)
  BY <1>2, <1>5 DEF Heard
<1>7. ASSUME NEW e \in Device, NEW t \in Types, NEW g \in File
      PROVE  /\ Heard(e, t, g)' => Heard(e, t, g)
             /\ Heard(e, t, g) => Heard(e, t, g)' \/ (e = d /\ t = h.type /\ g = h.file)
  <2>1. CASE e # d
    <3>1. inotify'[e] = inotify[e] /\ batch'[e] = batch[e]
      BY <2>1, <1>1, <1>3 DEF InotifyOK
    <3> QED BY <3>1 DEF Heard
  <2>2. CASE e = d
    <3>1. inotify'[d] = inotify[d] /\ batch'[d] = b
      BY <1>1, <1>3 DEF InotifyOK
    <3>2. [type |-> t, file |-> g] = h => t = h.type /\ g = h.file
      OBVIOUS
    <3> QED BY <3>1, <3>2, <2>2, <1>2 DEF Heard
  <2> QED BY <2>1, <2>2
<1> QED BY <1>2, <1>4, <1>6, <1>7 DEF h

\* A notice goes to the other devices that run, and to nobody else.
LEMMA TellEffect ==
    ASSUME WireOK, NEW d \in Device, NEW f \in File, NEW type \in Kinds, Tell(d, f, type)
    PROVE  WireOK' /\ Tells(d, type, f)
<1> DEFINE N == {[to |-> e, file |-> f, type |-> type] : e \in {e \in Device \ {d} : phase[e] = "on"}}
<1>1. wire' = wire (+) SetToBag(N)
  BY DEF Tell
<1>2. N \subseteq Notice
  BY DEF Notice, Kinds
<1>3. \A e \in Device, t \in Kinds, g \in File :
        [to |-> e, file |-> g, type |-> t] \in N <=> e # d /\ phase[e] = "on" /\ g = f /\ t = type
  OBVIOUS
<1> HIDE DEF N
<1>4. DOMAIN wire' = DOMAIN wire \cup N /\ IsABag(wire')
  BY <1>1 DEF WireOK, IsABag, SetToBag, (+)
<1> QED BY <1>2, <1>3, <1>4 DEF WireOK, Tells, Told, BagToSet

\* A notice that is taken, or lost, is the only one that may be gone.
LEMMA TakenEffect ==
    ASSUME WireOK, NEW n \in BagToSet(wire), wire' = wire (-) SetToBag({n})
    PROVE  /\ WireOK' /\ TakenFrom(n) /\ Told(n.to, n.type, n.file)
           /\ n \in Notice /\ n.type \in Kinds /\ n.to \in Device /\ n.file \in File
<1>1. n \in Notice /\ n \in DOMAIN wire
  BY DEF WireOK, BagToSet
<1>2. /\ n = [to |-> n.to, file |-> n.file, type |-> n.type]
      /\ n.type \in Kinds /\ n.to \in Device /\ n.file \in File
  BY <1>1 DEF Notice, Kinds
<1>3. DOMAIN wire' \subseteq DOMAIN wire /\ DOMAIN wire \subseteq {n} \cup DOMAIN wire' /\ IsABag(wire')
  BY <1>1 DEF WireOK, IsABag, SetToBag, (-)
<1>4. TakenFrom(n)
  <2> SUFFICES ASSUME NEW e \in Device, NEW t \in Kinds, NEW g \in File
               PROVE  /\ Told(e, t, g)' => Told(e, t, g)
                      /\ Told(e, t, g) => Told(e, t, g)' \/ (e = n.to /\ t = n.type /\ g = n.file)
    BY DEF TakenFrom
  <2>1. [to |-> e, file |-> g, type |-> t] = n => e = n.to /\ t = n.type /\ g = n.file
    OBVIOUS
  <2> QED BY <1>3, <2>1 DEF Told, BagToSet
<1> QED BY <1>1, <1>2, <1>3, <1>4 DEF WireOK, BagToSet, Told

\* A device that stops loses the notices for it, the others keep theirs.
LEMMA DroppedEffect ==
    ASSUME WireOK, NEW d \in Device, wire' = [n \in {m \in BagToSet(wire) : m.to # d} |-> wire[n]]
    PROVE  /\ WireOK'
           /\ \A e \in Device, t \in Kinds, g \in File : Told(e, t, g)' <=> e # d /\ Told(e, t, g)
<1>1. DOMAIN wire' = {m \in DOMAIN wire : m.to # d} /\ IsABag(wire')
  BY DEF WireOK, IsABag, BagToSet
<1> QED BY <1>1 DEF WireOK, Told, BagToSet

\* A device that stops forgets what it heard, the others do not.
LEMMA ClearedEffect ==
    ASSUME TypeOK, NEW d \in Device,
           inotify' = [inotify EXCEPT ![d] = <<>>], batch' = [batch EXCEPT ![d] = <<>>]
    PROVE  /\ InotifyOK'
           /\ \A e \in Device, t \in Types, g \in File : Heard(e, t, g)' <=> e # d /\ Heard(e, t, g)
<1>1. InotifyOK
  BY DEF TypeOK, InotifyOK
<1>2. InotifyOK'
  BY <1>1 DEF InotifyOK
<1>3. ASSUME NEW e \in Device, NEW t \in Types, NEW g \in File
      PROVE  Heard(e, t, g)' <=> e # d /\ Heard(e, t, g)
  <2>1. CASE e # d
    <3>1. inotify'[e] = inotify[e] /\ batch'[e] = batch[e]
      BY <2>1, <1>1 DEF InotifyOK
    <3> QED BY <3>1, <2>1 DEF Heard
  <2>2. CASE e = d
    <3>1. inotify'[d] = <<>> /\ batch'[d] = <<>>
      BY <1>1 DEF InotifyOK
    <3> QED BY <3>1, <2>2 DEF Heard, ToSet
  <2> QED BY <2>1, <2>2
<1> QED BY <1>2, <1>3

-----------------------------------------------------------------------------
(* Types, shapes, and the effect of each action.  <Action>Effect proves that the
   action keeps Struct and implies <Action>On, a formula without EXCEPT, bags or
   sequences.  The layers are proved from these formulas. *)

\* Where the handler may be, and the type of its record.
Labels == {"idle", "create", "upload", "record", "get", "copy", "delete"}
Job == [at : Labels, file : File \cup {None}, seen : {None} \cup Content]

\* The rest of TypeOK, for the SMT solver in one piece.
RestOK ==
    /\ disk \in [Device -> [File -> {None} \cup Content]]
    /\ row \in [Device -> [File -> {None} \cup Row]]
    /\ phase \in [Device -> {"off", "pull", "push", "on"}]
    /\ todo \in [Device -> SUBSET File] /\ had \in [Device -> SUBSET File]
    /\ job \in [Device -> Job]
    /\ meta \subseteq File /\ doomed \subseteq File
    /\ store \in [File -> [ver : Nat, data : {None} \cup Content]]
    /\ madeIn \in [Edit -> Main \cup {None}] /\ dropped \subseteq Edit /\ spoiled \subseteq File
    /\ mishaps \in 0..MaxMishaps

\* TypeOK and its three parts are the same, before a step and after it.
LEMMA TypeParts ==
    /\ TypeOK <=> InotifyOK /\ WireOK /\ RestOK
    /\ TypeOK' <=> InotifyOK' /\ WireOK' /\ RestOK'
  BY DEF TypeOK, InotifyOK, WireOK, RestOK, Job, Labels

\* One place of a function of devices and files changes.
Sets(old, new, d, f, v) ==
    /\ new[d][f] = v
    /\ \A x \in Device \ {d} : new[x] = old[x]
    /\ \A g \in File \ {f} : new[d][g] = old[d][g]

\* One place of a function of devices changes.
SetsOwn(old, new, d, v) == new[d] = v /\ \A x \in Device \ {d} : new[x] = old[x]

\* The handler's next place: its record is well typed, and the other devices' are as before.
LEMMA GoEffect ==
    ASSUME RestOK, NEW d \in Device, NEW f \in File, NEW at \in Labels, NEW seen \in {None} \cup Content,
           Go(d, at, f, seen)
    PROVE  job' \in [Device -> Job] /\ SetsOwn(job, job', d, [at |-> at, file |-> f, seen |-> seen])
  BY DEF Go, RestOK, Job, SetsOwn

\* The handler lets go of db_mutex.
LEMMA FinishEffect ==
    ASSUME RestOK, NEW d \in Device, Finish(d)
    PROVE  job' \in [Device -> Job] /\ SetsOwn(job, job', d, Idle)
  BY DEF Finish, RestOK, Job, Labels, SetsOwn, Idle

\* A write to RocksDB changes one row of one device.
LEMMA SetRowEffect ==
    ASSUME RestOK, NEW d \in Device, NEW f \in File, NEW r \in {None} \cup Row, SetRow(d, f, r)
    PROVE  row' \in [Device -> [File -> {None} \cup Row]] /\ Sets(row, row', d, f, r)
  BY DEF SetRow, RestOK, Sets

\* A known loss is never forgotten.
LEMMA SpoilEffect ==
    ASSUME RestOK, NEW S \in SUBSET File, Spoil(S)
    PROVE  spoiled' \subseteq File /\ spoiled \subseteq spoiled' /\ S \subseteq spoiled'
  BY DEF Spoil, RestOK

\* What a step of d leaves as it is: of a file, of a device, of both.
HeardStill(x, g) == \A t \in Types : Heard(x, t, g)' <=> Heard(x, t, g)
ToldStill(g) == \A x \in Device, k \in Kinds : Told(x, k, g)' <=> Told(x, k, g)
Alone(d) ==
    \A x \in Device \ {d} :
        /\ disk'[x] = disk[x] /\ row'[x] = row[x] /\ job'[x] = job[x]
        /\ phase'[x] = phase[x] /\ todo'[x] = todo[x] /\ had'[x] = had[x]
        /\ \A g \in File : HeardStill(x, g)
OwnStill(x, g) ==
    /\ disk'[x][g] = disk[x][g] /\ row'[x][g] = row[x][g] /\ HeardStill(x, g)
    /\ job'[x].file = g <=> job[x].file = g
    /\ job[x].file = g => job'[x] = job[x]
    /\ phase'[x] = phase[x]
    /\ g \in todo'[x] <=> g \in todo[x]
    /\ g \in had'[x] <=> g \in had[x]
ServerStill(g) ==
    /\ store'[g] = store[g] /\ ToldStill(g)
    /\ g \in meta' <=> g \in meta
    /\ g \in doomed' <=> g \in doomed

\* The step is not about g.
Still(g) == (\A x \in Device : OwnStill(x, g)) /\ ServerStill(g)

\* The step is one of d about f.
Subject(d, f) == Alone(d) /\ \A g \in File \ {f} : Still(g)

\* How phase, handler and queues go together: a device that is off does nothing,
\* one that boots hears nothing, and a file that is handled has a row.
ShapeOf(d) ==
    /\ phase[d] = "off" => job[d] = Idle
    /\ phase[d] # "on" => \A t \in Types, f \in File : ~Heard(d, t, f)
    /\ phase[d] \in {"on", "off"} => todo[d] = {} /\ had[d] = {}
    /\ phase[d] = "push" => todo[d] \subseteq had[d]
    /\ \A f \in had[d] : HasRow(d, f)
    /\ job[d].at = "idle" => job[d] = Idle
    /\ job[d].at # "idle" => job[d].file \in File
    /\ job[d].at \in {"create", "upload", "record", "get", "copy"} => HasRow(d, job[d].file)
    /\ job[d].at \in {"record", "get", "copy"} => job[d].seen # None
ShapeInv == \A d \in Device : ShapeOf(d)

\* What the block servers serve has a version.
StoredInv == \A f \in File : Served(f) => store[f].ver > 0

\* The first layer of the invariant: types and shapes.
Struct == TypeOK /\ ShapeInv /\ StoredInv

\* readTextFile yields a content, of a missing file too.
LEMMA ReadType ==
    ASSUME RestOK, NEW d \in Device, NEW f \in File
    PROVE  Read(d, f) \in Content
  BY DEF RestOK, Read, Exists, Content

\* A step of d cannot spoil the shape of another device.
LEMMA AloneShape ==
    ASSUME Struct, NEW d \in Device, Alone(d), ShapeOf(d)'
    PROVE  ShapeInv'
<1> SUFFICES ASSUME NEW x \in Device \ {d} PROVE ShapeOf(x)'
  BY DEF ShapeInv
<1>1. ShapeOf(x)
  BY DEF Struct, ShapeInv
<1>2. \A g \in File, t \in Types : Heard(x, t, g)' <=> Heard(x, t, g)
  BY DEF Alone, HeardStill
<1>3. /\ row'[x] = row[x] /\ job'[x] = job[x]
      /\ phase'[x] = phase[x] /\ todo'[x] = todo[x] /\ had'[x] = had[x]
  BY DEF Alone
<1> QED BY <1>1, <1>2, <1>3 DEF ShapeOf, HasRow

\* What an edit of f does, as the proofs see it.
UserEditsOn(d, f, e) ==
    /\ Subject(d, f)
    /\ disk'[d][f] = Read(d, f) \cup {e} /\ disk'[d][f] # None
    /\ Exists(d, f) => Hears(d, {"modified"}, f)
    /\ ~Exists(d, f) => Hears(d, {"created", "modified"}, f)
    /\ SameTold
    /\ UNCHANGED <<row, phase, todo, had, job, meta, store, doomed, dropped>>
    /\ madeIn[e] = None /\ madeIn' = [madeIn EXCEPT ![e] = f]
    /\ spoiled \subseteq spoiled'
    /\ f \notin spoiled' => phase[d] \in {"on", "off"} /\ ~Deleting(f)

\* An edit is one step of its device about its file.
LEMMA UserEditsEffect ==
    ASSUME Struct, NEW d \in Device, NEW f \in Main, NEW e \in Edit, UserEdits(d, f, e)
    PROVE  Struct' /\ UserEditsOn(d, f, e)
<1>1. InotifyOK /\ WireOK /\ RestOK /\ f \in File
  BY TypeParts, FileAssumption DEF Struct
<1>2. Read(d, f) \cup {e} \in Content
  BY <1>1, ReadType DEF Content
<1>3. Write(d, f, Read(d, f) \cup {e})
  BY DEF UserEdits
<1>4. UNCHANGED <<row, batch, phase, todo, had, job, meta, store, doomed, wire, dropped, mishaps>>
  BY DEF UserEdits, server
<1>5. madeIn[e] = None /\ madeIn' = [madeIn EXCEPT ![e] = f]
  BY DEF UserEdits
<1>6. /\ InotifyOK' /\ disk' = [disk EXCEPT ![d][f] = Read(d, f) \cup {e}]
      /\ disk' \in [Device -> [File -> {None} \cup Content]]
      /\ Exists(d, f) => Hears(d, {"modified"}, f)
      /\ ~Exists(d, f) => Hears(d, {"created", "modified"}, f)
  BY <1>1, <1>2, <1>3, <1>4, WriteEffect DEF Struct
<1>7. Sets(disk, disk', d, f, Read(d, f) \cup {e})
  BY <1>1, <1>6 DEF Sets, RestOK
<1>8. Spoil(IF Deleting(f) \/ phase[d] \in {"pull", "push"} THEN {f} ELSE {})
  BY DEF UserEdits
<1>9. /\ f \notin spoiled' => phase[d] \notin {"pull", "push"} /\ ~Deleting(f)
      /\ spoiled \subseteq spoiled' /\ spoiled' \subseteq File
  BY <1>1, <1>8 DEF Spoil, RestOK
<1>10. TypeOK'
  <2>1. WireOK'
    BY <1>1, <1>4 DEF WireOK
  <2>2. RestOK'
    BY <1>1, <1>4, <1>5, <1>6, <1>9 DEF RestOK
  <2> QED BY <1>6, <2>1, <2>2, TypeParts
<1>11. SameTold
  BY <1>4, SameToldWhen
<1>12. Subject(d, f)
  BY <1>1, <1>4, <1>6, <1>7, <1>11 DEF Subject, Alone, Still, OwnStill, ServerStill, Sets, Hears,
     SameTold, HeardStill, ToldStill
<1>13. ShapeOf(d)'
  <2>1. ShapeOf(d)
    BY DEF Struct, ShapeInv
  <2>2. phase[d] # "on" => \A t \in Types, g \in File : ~Heard(d, t, g)'
    BY <2>1, <1>6 DEF Hears, ShapeOf
  <2> QED BY <2>1, <2>2, <1>4 DEF ShapeOf, HasRow
<1>14. StoredInv'
  BY <1>4 DEF Struct, StoredInv, Served
<1>15. phase[d] \in {"off", "pull", "push", "on"}
  BY <1>1 DEF RestOK
<1>16. Read(d, f) \cup {e} # None
  BY <1>2, NoneAssumption
<1> QED BY <1>4, <1>5, <1>6, <1>7, <1>9, <1>10, <1>11, <1>12, <1>13, <1>14, <1>15, <1>16, AloneShape
           DEF Struct, Subject, UserEditsOn, Sets

\* No other device is booting, so each one either gets a notice or is off.
NoneBoots(d) == \A x \in Device \ {d} : phase[x] \in {"on", "off"}

\* No file, row or content is None.
LEMMA NotNone ==
    /\ DefaultRow \in Row /\ DefaultRow # None
    /\ \A r \in Row : r # None
    /\ \A f \in File : f # None
    /\ \A c \in Content : c # None
<1>1. {} \in Content
  BY DEF Content
<1>2. DefaultRow \in Row
  BY <1>1 DEF DefaultRow, Row
<1> QED BY <1>2, NoneAssumption

\* What Struct says of one device, in the form the other proofs cite.
LEMMA Parts ==
    ASSUME Struct, NEW d \in Device
    PROVE  /\ TypeOK /\ InotifyOK /\ WireOK /\ RestOK /\ ShapeOf(d)
           /\ phase[d] \in {"off", "pull", "push", "on"} /\ job[d] \in Job
           /\ \A f \in File : /\ row[d][f] \in {None} \cup Row
                              /\ disk[d][f] \in {None} \cup Content
                              /\ store[f] \in [ver : Nat, data : {None} \cup Content]
  BY TypeParts DEF Struct, ShapeInv, RestOK

\* A notice that a booting device misses is a known loss.
LEMMA MissedEffect ==
    ASSUME Struct, NEW d \in Device, NEW f \in File, Spoil(Missed(d, f))
    PROVE  /\ spoiled' \subseteq File /\ spoiled \subseteq spoiled'
           /\ f \notin spoiled' => NoneBoots(d)
<1>1. RestOK
  BY TypeParts DEF Struct
<1>2. Missed(d, f) \in SUBSET File
  BY DEF Missed
<1>3. ~NoneBoots(d) => f \in Missed(d, f)
  BY <1>1 DEF Missed, NoneBoots, RestOK
<1> QED BY <1>1, <1>2, <1>3, SpoilEffect

\* What a deletion by the user does: only one that overlaps with nothing is no known loss.
UserDeletesOn(d, f) ==
    /\ Subject(d, f) /\ Exists(d, f)
    /\ disk'[d][f] = None /\ Hears(d, {"deleted"}, f) /\ SameTold
    /\ UNCHANGED <<row, phase, todo, had, job, meta, store, doomed, madeIn>>
    /\ dropped' = dropped \cup (disk[d][f] \cap Edit)
    /\ spoiled \subseteq spoiled'
    /\ f \notin spoiled' => ~Busy(f)

\* A deletion is one step of its device about its file.
LEMMA UserDeletesEffect ==
    ASSUME Struct, NEW d \in Device, NEW f \in Main, UserDeletes(d, f)
    PROVE  Struct' /\ UserDeletesOn(d, f)
<1>1. InotifyOK /\ WireOK /\ RestOK /\ f \in File /\ ShapeOf(d) /\ TypeOK
  BY Parts, FileAssumption
<1>2. Erase(d, f) /\ Exists(d, f)
  BY DEF UserDeletes
<1>3. /\ UNCHANGED <<row, batch, phase, todo, had, job, meta, store, doomed, wire, madeIn>>
      /\ dropped' = dropped \cup (disk[d][f] \cap Edit)
      /\ mishaps < MaxMishaps /\ mishaps' = mishaps + 1
  BY DEF UserDeletes, server
<1>4. /\ InotifyOK' /\ disk' = [disk EXCEPT ![d][f] = None]
      /\ disk' \in [Device -> [File -> {None} \cup Content]]
      /\ Hears(d, {"deleted"}, f)
  BY <1>1, <1>2, <1>3, EraseEffect
<1>5. Sets(disk, disk', d, f, None)
  BY <1>1, <1>4 DEF Sets, RestOK
<1>6. Spoil(IF Busy(f) THEN {f} ELSE {})
  BY DEF UserDeletes
<1>7. /\ f \notin spoiled' => ~Busy(f)
      /\ spoiled \subseteq spoiled' /\ spoiled' \subseteq File
  BY <1>1, <1>6 DEF Spoil, RestOK
<1>8. SameTold
  BY <1>3, SameToldWhen
<1>9. TypeOK'
  <2>1. WireOK'
    BY <1>1, <1>3 DEF WireOK
  <2>2. mishaps' \in 0..MaxMishaps
    BY <1>1, <1>3, BoundAssumption DEF RestOK
  <2>3. RestOK'
    BY <1>1, <1>3, <1>4, <1>7, <2>2 DEF RestOK
  <2> QED BY <1>4, <2>1, <2>3, TypeParts
<1>10. Subject(d, f)
  BY <1>1, <1>3, <1>4, <1>5, <1>8 DEF Subject, Alone, Still, OwnStill, ServerStill, Sets, Hears, SameTold,
     HeardStill, ToldStill
<1>11. ShapeOf(d)'
  <2>1. phase[d] # "on" => \A t \in Types, g \in File : ~Heard(d, t, g)'
    BY <1>1, <1>4 DEF Hears, ShapeOf
  <2> QED BY <1>1, <2>1, <1>3 DEF ShapeOf, HasRow
<1>12. StoredInv'
  BY <1>3 DEF Struct, StoredInv, Served
<1> QED BY <1>2, <1>3, <1>4, <1>5, <1>7, <1>8, <1>9, <1>10, <1>11, <1>12, AloneShape DEF Struct, Subject,
           UserDeletesOn, Sets

\* Watching events changes nothing any other layer sees.
LEMMA WatchRests ==
    ASSUME Struct, NEW d \in Device, Watch(d)
    PROVE  /\ Struct' /\ SameHeard /\ SameTold
           /\ \A g \in File : Still(g)
           /\ UNCHANGED <<disk, row, phase, todo, had, job, meta, store, doomed, madeIn, dropped, spoiled>>
<1>1. InotifyOK /\ WireOK /\ RestOK /\ ShapeOf(d) /\ TypeOK
  BY Parts
<1>2. UNCHANGED <<disk, row, phase, todo, had, job, meta, store, doomed, wire, madeIn, dropped,
                  spoiled, mishaps>>
  BY DEF Watch, server
<1>3. InotifyOK' /\ SameHeard
  BY <1>1, WatchEffect
<1>4. SameTold
  BY <1>2, SameToldWhen
<1>5. WireOK' /\ RestOK'
  BY <1>1, <1>2 DEF WireOK, RestOK
<1>6. \A g \in File : Still(g)
  BY <1>2, <1>3, <1>4 DEF Still, OwnStill, ServerStill, SameHeard, SameTold, HeardStill, ToldStill
<1>7. ShapeInv' /\ StoredInv'
  BY <1>2, <1>3 DEF Struct, ShapeInv, ShapeOf, HasRow, SameHeard, StoredInv, Served
<1> QED BY <1>2, <1>3, <1>4, <1>5, <1>6, <1>7, TypeParts DEF Struct

\* Of equal events one is handled.
Taken(d, t, f) ==   \* of equal events one is handled
    \A e \in Device, u \in Types, g \in File :
        /\ Heard(e, u, g)' => Heard(e, u, g)
        /\ Heard(e, u, g) => Heard(e, u, g)' \/ (e = d /\ u = t /\ g = f)

\* What handling an event of type t does: a row, or a job for the handler.
LocalEventOn(d, t, f) ==
    /\ Subject(d, f) /\ phase[d] = "on" /\ job[d] = Idle
    /\ Heard(d, t, f) /\ Taken(d, t, f) /\ SameTold
    /\ UNCHANGED <<disk, phase, todo, had, meta, store, doomed, madeIn, dropped, spoiled>>
    /\ \/ /\ t = "created"
          /\ row'[d][f] = IF HasRow(d, f) THEN row[d][f] ELSE DefaultRow
          /\ job'[d] = [at |-> "create", file |-> f, seen |-> None]
       \/ /\ t = "modified" /\ row' = row
          /\ IF row[d][f] = None \/ (row[d][f].hashed /\ row[d][f].base = Read(d, f)) THEN job' = job
             ELSE job'[d] = [at |-> "upload", file |-> f, seen |-> None]
       \/ /\ t = "deleted" /\ row'[d][f] = None
          /\ job'[d] = [at |-> "delete", file |-> f, seen |-> None]

\* Every event is about one file.
LEMMA LocalEventEffect ==
    ASSUME Struct, NEW d \in Device, LocalEvent(d)
    PROVE  Struct' /\ \E t \in Types, f \in File : LocalEventOn(d, t, f)
<1>1. InotifyOK /\ WireOK /\ RestOK /\ ShapeOf(d) /\ TypeOK
  BY Parts
<1>2. /\ batch[d] # <<>> /\ batch' = [batch EXCEPT ![d] = Tail(@)]
      /\ UNCHANGED <<disk, inotify, phase, todo, had, meta, store, doomed, wire, madeIn, dropped,
                     spoiled, mishaps>>
  BY DEF LocalEvent, server
<1> DEFINE v == Head(batch[d])
           f == v.file
           t == v.type
<1>3. /\ InotifyOK' /\ v \in Event /\ Heard(d, t, f) /\ Taken(d, t, f)
  BY <1>1, <1>2, TakeEffect DEF Taken
<1>4. t \in Types /\ f \in File /\ t \in {"created", "modified", "deleted"}
  BY <1>3 DEF Event, Types
<1>5. /\ \/ /\ t = "created"
            /\ SetRow(d, f, IF HasRow(d, f) THEN row[d][f] ELSE DefaultRow)
            /\ Go(d, "create", f, None)
         \/ /\ t = "modified"
            /\ IF row[d][f] = None \/ (row[d][f] # None /\ row[d][f].hashed /\ row[d][f].base = Read(d, f))
                  THEN UNCHANGED job
               ELSE Go(d, "upload", f, None)
            /\ UNCHANGED row
         \/ /\ t = "deleted"
            /\ SetRow(d, f, None)
            /\ Go(d, "delete", f, None)
  BY DEF LocalEvent
<1>6. job[d] = Idle /\ phase[d] = "on"
  BY <1>1, <1>3, <1>4 DEF LocalEvent, At, ShapeOf
<1> HIDE DEF v, f, t
<1>7. /\ row' \in [Device -> [File -> {None} \cup Row]] /\ job' \in [Device -> Job]
      /\ \A g \in File \ {f} : row'[d][g] = row[d][g]
      /\ \A x \in Device \ {d} : row'[x] = row[x] /\ job'[x] = job[x]
      /\ job'[d] = Idle \/ job'[d].file = f
      /\ \/ /\ t = "created"
            /\ row'[d][f] = (IF HasRow(d, f) THEN row[d][f] ELSE DefaultRow)
            /\ job'[d] = [at |-> "create", file |-> f, seen |-> None]
         \/ /\ t = "modified" /\ row' = row
            /\ IF row[d][f] = None \/ (row[d][f].hashed /\ row[d][f].base = Read(d, f)) THEN job' = job
               ELSE job'[d] = [at |-> "upload", file |-> f, seen |-> None]
         \/ /\ t = "deleted" /\ row'[d][f] = None
            /\ job'[d] = [at |-> "delete", file |-> f, seen |-> None]
  <2>1. CASE t = "created"
    <3>1. DefaultRow \in Row /\ row[d][f] \in {None} \cup Row
      BY <1>1, <1>4 DEF DefaultRow, Row, Content, RestOK
    <3>2. SetRow(d, f, IF HasRow(d, f) THEN row[d][f] ELSE DefaultRow) /\ Go(d, "create", f, None)
      BY <1>5, <2>1
    <3>3. /\ row' \in [Device -> [File -> {None} \cup Row]]
          /\ Sets(row, row', d, f, IF HasRow(d, f) THEN row[d][f] ELSE DefaultRow)
      BY <3>1, <3>2, <1>1, <1>4, SetRowEffect
    <3>4. job' \in [Device -> Job] /\ SetsOwn(job, job', d, [at |-> "create", file |-> f, seen |-> None])
      BY <3>2, <1>1, <1>4, GoEffect DEF Labels
    <3> QED BY <2>1, <3>3, <3>4 DEF Sets, SetsOwn
  <2>2. CASE t = "modified"
    <3>1. UNCHANGED row /\ (UNCHANGED job \/ Go(d, "upload", f, None))
      BY <1>5, <2>2
    <3>2. Go(d, "upload", f, None) =>
              job' \in [Device -> Job] /\ SetsOwn(job, job', d, [at |-> "upload", file |-> f, seen |-> None])
      BY <1>1, <1>4, GoEffect DEF Labels
    <3> QED BY <1>1, <1>5, <1>6, <2>2, <3>1, <3>2 DEF SetsOwn, RestOK
  <2>3. CASE t = "deleted"
    <3>1. SetRow(d, f, None) /\ Go(d, "delete", f, None)
      BY <1>5, <2>3
    <3>2. row' \in [Device -> [File -> {None} \cup Row]] /\ Sets(row, row', d, f, None)
      BY <3>1, <1>1, <1>4, SetRowEffect
    <3>3. job' \in [Device -> Job] /\ SetsOwn(job, job', d, [at |-> "delete", file |-> f, seen |-> None])
      BY <3>1, <1>1, <1>4, GoEffect DEF Labels
    <3> QED BY <2>3, <3>2, <3>3 DEF Sets, SetsOwn
  <2> QED BY <1>4, <2>1, <2>2, <2>3
<1>8. SameTold
  BY <1>2, SameToldWhen
<1>9. WireOK' /\ RestOK'
  BY <1>1, <1>2, <1>7 DEF WireOK, RestOK
<1>10. Subject(d, f)
  BY <1>1, <1>2, <1>3, <1>4, <1>6, <1>7, <1>8, NoneAssumption DEF Subject, Alone, Still, OwnStill,
     ServerStill, Taken, SameTold, HeardStill, ToldStill, Idle
<1>11. LocalEventOn(d, t, f)
  BY <1>2, <1>3, <1>6, <1>7, <1>8, <1>10 DEF LocalEventOn
<1>12. ShapeOf(d)'
  <2>1. DefaultRow # None
    BY NotNone
  <2>2. phase'[d] = "on" /\ todo'[d] = {} /\ had'[d] = {}
    BY <1>1, <1>2, <1>6 DEF ShapeOf
  <2>3. /\ job'[d].at = "idle" => job'[d] = Idle
        /\ job'[d].at # "idle" => job'[d].file = f
        /\ job'[d].at \notin {"record", "get", "copy"}
    BY <1>1, <1>6, <1>7 DEF Idle
  <2>4. job'[d].at \in {"create", "upload"} => row'[d][f] # None
    BY <1>7, <1>6, <2>1 DEF Idle, HasRow
  <2> QED BY <1>4, <2>2, <2>3, <2>4 DEF ShapeOf, HasRow
<1>13. StoredInv'
  BY <1>2 DEF Struct, StoredInv, Served
<1> QED BY <1>3, <1>4, <1>9, <1>10, <1>11, <1>12, <1>13, TypeParts, AloneShape DEF Struct, Subject

\* What createFile does: the metaserver knows f, and who runs is told.
CreateOn(d, f) ==
    /\ Subject(d, f) /\ SameHeard /\ phase[d] # "off" /\ job[d].file = f /\ job[d].at = "create"
    /\ UNCHANGED <<disk, row, phase, todo, had, store, doomed, madeIn, dropped>>
    /\ job'[d] = [at |-> "upload", file |-> f, seen |-> None]
    /\ meta' = meta \cup {f}
    /\ spoiled \subseteq spoiled'
    /\ \/ f \in meta /\ SameTold
       \/ f \notin meta /\ Tells(d, "FILE+", f) /\ (f \notin spoiled' => NoneBoots(d))

\* createFile is one step about the handler's file.
LEMMA CreateEffect ==
    ASSUME Struct, NEW d \in Device, Create(d)
    PROVE  Struct' /\ job[d].file \in File /\ CreateOn(d, job[d].file)
<1> DEFINE f == job[d].file
<1>1. InotifyOK /\ WireOK /\ RestOK /\ ShapeOf(d) /\ TypeOK
  BY Parts
<1>2. f \in File /\ phase[d] # "off" /\ job[d].at = "create" /\ HasRow(d, f)
  BY <1>1 DEF Create, At, ShapeOf
<1>3. /\ UNCHANGED <<disk, row, inotify, batch, phase, todo, had, store, doomed, madeIn, dropped, mishaps>>
      /\ meta' = meta \cup {f}
      /\ f \in meta => UNCHANGED <<wire, spoiled>>
      /\ f \notin meta => Tell(d, f, "FILE+") /\ Spoil(Missed(d, f))
      /\ Go(d, "upload", f, None)
  BY DEF Create
<1> HIDE DEF f
<1>4. job' \in [Device -> Job] /\ SetsOwn(job, job', d, [at |-> "upload", file |-> f, seen |-> None])
  BY <1>1, <1>2, <1>3, GoEffect DEF Labels
<1>5. /\ WireOK' /\ spoiled' \subseteq File /\ spoiled \subseteq spoiled'
      /\ \/ f \in meta /\ SameTold
         \/ f \notin meta /\ Tells(d, "FILE+", f) /\ (f \notin spoiled' => NoneBoots(d))
  <2>1. CASE f \in meta
    BY <1>1, <1>3, <2>1, SameToldWhen DEF WireOK, RestOK
  <2>2. CASE f \notin meta
    BY <1>1, <1>2, <1>3, <2>2, TellEffect, MissedEffect DEF Kinds
  <2> QED BY <2>1, <2>2
<1>6. InotifyOK' /\ RestOK' /\ SameHeard
  BY <1>1, <1>2, <1>3, <1>4, <1>5, SameHeardWhen DEF InotifyOK, RestOK
<1>7. \A g \in File \ {f} : ToldStill(g)
  BY <1>5 DEF ToldStill, SameTold, Tells
<1>8. Subject(d, f)
  BY <1>2, <1>3, <1>4, <1>6, <1>7 DEF f, Subject, Alone, Still, OwnStill, ServerStill, SetsOwn, SameHeard,
     HeardStill
<1>9. ShapeOf(d)'
  BY <1>1, <1>2, <1>3, <1>4, <1>6 DEF ShapeOf, HasRow, SetsOwn, SameHeard
<1>10. StoredInv'
  BY <1>3 DEF Struct, StoredInv, Served
<1>11. CreateOn(d, f)
  BY <1>2, <1>3, <1>4, <1>5, <1>6, <1>8 DEF CreateOn, f, SetsOwn
<1> QED BY <1>2, <1>5, <1>6, <1>8, <1>9, <1>10, <1>11, TypeParts, AloneShape DEF f, Struct, Subject

\* What deleteFile does: f is queued for deletion, and who runs is told.
DeleteOn(d, f) ==
    /\ Subject(d, f) /\ SameHeard /\ phase[d] # "off" /\ job[d].file = f /\ job[d].at = "delete"
    /\ UNCHANGED <<disk, row, phase, todo, had, store, madeIn, dropped>>
    /\ job'[d] = Idle /\ meta' = meta \ {f}
    /\ spoiled \subseteq spoiled'
    /\ \/ f \notin meta /\ SameTold /\ doomed' = doomed
       \/ /\ f \in meta /\ Tells(d, "FILE-", f) /\ doomed' = doomed \cup {f}
          /\ f \notin spoiled' => NoneBoots(d)

\* deleteFile is one step about the handler's file.
LEMMA DeleteEffect ==
    ASSUME Struct, NEW d \in Device, Delete(d)
    PROVE  Struct' /\ job[d].file \in File /\ DeleteOn(d, job[d].file)
<1> DEFINE f == job[d].file
<1>1. InotifyOK /\ WireOK /\ RestOK /\ ShapeOf(d) /\ TypeOK
  BY Parts
<1>2. f \in File /\ phase[d] # "off" /\ job[d].at = "delete" /\ f # None
  BY <1>1, NotNone DEF Delete, At, ShapeOf
<1>3. /\ UNCHANGED <<disk, row, inotify, batch, phase, todo, had, store, madeIn, dropped, mishaps>>
      /\ f \notin meta => UNCHANGED <<meta, doomed, wire, spoiled>>
      /\ f \in meta => /\ meta' = meta \ {f} /\ doomed' = doomed \cup {f}
                       /\ Tell(d, f, "FILE-") /\ Spoil(Missed(d, f))
      /\ Finish(d)
  BY DEF Delete
<1> HIDE DEF f
<1>4. job' \in [Device -> Job] /\ SetsOwn(job, job', d, Idle)
  BY <1>1, <1>2, <1>3, FinishEffect
<1>5. /\ WireOK' /\ spoiled' \subseteq File /\ spoiled \subseteq spoiled'
      /\ meta' = meta \ {f} /\ doomed' \subseteq File
      /\ \/ f \notin meta /\ SameTold /\ doomed' = doomed
         \/ /\ f \in meta /\ Tells(d, "FILE-", f) /\ doomed' = doomed \cup {f}
            /\ f \notin spoiled' => NoneBoots(d)
  <2>1. CASE f \notin meta
    BY <1>1, <1>3, <2>1, SameToldWhen DEF WireOK, RestOK
  <2>2. CASE f \in meta
    BY <1>1, <1>2, <1>3, <2>2, TellEffect, MissedEffect DEF Kinds, RestOK
  <2> QED BY <2>1, <2>2
<1>6. InotifyOK' /\ RestOK' /\ SameHeard
  BY <1>1, <1>2, <1>3, <1>4, <1>5, SameHeardWhen DEF InotifyOK, RestOK
<1>7. \A g \in File \ {f} : ToldStill(g)
  BY <1>5 DEF ToldStill, SameTold, Tells
<1>8. Subject(d, f)
  BY <1>2, <1>3, <1>4, <1>5, <1>6, <1>7, NotNone DEF f, Subject, Alone, Still, OwnStill, ServerStill,
     SetsOwn, SameHeard, HeardStill, Idle
<1>9. ShapeOf(d)'
  BY <1>1, <1>2, <1>3, <1>4, <1>6 DEF ShapeOf, HasRow, SetsOwn, SameHeard, Idle
<1>10. StoredInv'
  BY <1>3 DEF Struct, StoredInv, Served
<1>11. DeleteOn(d, f)
  BY <1>2, <1>3, <1>4, <1>5, <1>6, <1>8 DEF DeleteOn, f, SetsOwn
<1> QED BY <1>2, <1>5, <1>6, <1>8, <1>9, <1>10, <1>11, TypeParts, AloneShape DEF f, Struct, Subject

\* The servers take the content, and the other devices are told.
Stored(d, f) ==
    /\ row[d][f].ver = store[f].ver
    /\ store'[f] = [ver |-> row[d][f].ver + 1, data |-> Read(d, f)]
    /\ Tells(d, "FILE~", f)
    /\ f \notin spoiled' => NoneBoots(d)

\* An upload that is accepted: the version the device expected, plus one.
LEMMA StoredEffect ==
    ASSUME Struct, NEW d \in Device, NEW f \in File, HasRow(d, f), Accepted(d, f),
           store' = [store EXCEPT ![f] = [ver |-> row[d][f].ver + 1, data |-> Read(d, f)]],
           Tell(d, f, "FILE~"), Spoil(Missed(d, f))
    PROVE  /\ Stored(d, f) /\ WireOK' /\ spoiled' \subseteq File /\ spoiled \subseteq spoiled'
           /\ store' \in [File -> [ver : Nat, data : {None} \cup Content]]
           /\ StoredInv'
           /\ \A g \in File \ {f} : store'[g] = store[g] /\ ToldStill(g)
<1>1. WireOK /\ RestOK /\ row[d][f] \in Row /\ Read(d, f) \in Content
  BY Parts, ReadType DEF HasRow
<1>2. row[d][f].ver \in Nat /\ row[d][f].ver + 1 \in Nat /\ row[d][f].ver + 1 > 0
  BY <1>1 DEF Row
<1>3. /\ store' \in [File -> [ver : Nat, data : {None} \cup Content]]
      /\ store'[f] = [ver |-> row[d][f].ver + 1, data |-> Read(d, f)]
      /\ \A g \in File \ {f} : store'[g] = store[g]
  BY <1>1, <1>2 DEF RestOK
<1>4. WireOK' /\ Tells(d, "FILE~", f)
  BY <1>1, TellEffect DEF Kinds
<1>5. StoredInv'
  BY <1>2, <1>3 DEF Struct, StoredInv, Served
<1>6. \A g \in File \ {f} : ToldStill(g)
  BY <1>4 DEF ToldStill, Tells
<1> QED BY <1>3, <1>4, <1>5, <1>6, MissedEffect DEF Stored, Accepted

\* What uploadFile does: stored, refused, or not sent at all.
PutOn(d, f) ==
    /\ Subject(d, f) /\ SameHeard /\ phase[d] # "off" /\ job[d].file = f /\ job[d].at = "upload"
    /\ HasRow(d, f)
    /\ UNCHANGED <<disk, row, phase, todo, had, meta, doomed, madeIn, dropped>>
    /\ spoiled \subseteq spoiled'
    /\ \/ /\ f \notin meta /\ job'[d] = Idle
          /\ UNCHANGED <<store, spoiled>> /\ SameTold
       \/ /\ Stored(d, f)
          /\ job'[d] = [at |-> "record", file |-> f, seen |-> Read(d, f)]
       \/ /\ row[d][f].ver # store[f].ver
          /\ job'[d] = [at |-> "record", file |-> f, seen |-> Read(d, f)]
          /\ UNCHANGED store /\ SameTold
          /\ f \notin spoiled' => store[f] = [ver |-> row[d][f].ver + 1, data |-> Read(d, f)]

\* uploadFile is one step about the handler's file.
LEMMA PutEffect ==
    ASSUME Struct, NEW d \in Device, Put(d)
    PROVE  Struct' /\ job[d].file \in File /\ PutOn(d, job[d].file)
<1> DEFINE f == job[d].file
           new == [ver |-> row[d][f].ver + 1, data |-> Read(d, f)]
<1>1. InotifyOK /\ WireOK /\ RestOK /\ ShapeOf(d) /\ TypeOK /\ StoredInv
  BY Parts DEF Struct
<1>2. f \in File /\ phase[d] # "off" /\ job[d].at = "upload" /\ HasRow(d, f)
  BY <1>1 DEF Put, At, ShapeOf
<1>3. UNCHANGED <<disk, row, inotify, batch, phase, todo, had, meta, doomed, madeIn, dropped, mishaps>>
  BY DEF Put
<1>4. \/ f \notin meta /\ Finish(d) /\ UNCHANGED <<store, wire, spoiled>>
      \/ /\ Go(d, "record", f, Read(d, f)) /\ Accepted(d, f)
         /\ store' = [store EXCEPT ![f] = new] /\ Tell(d, f, "FILE~") /\ Spoil(Missed(d, f))
      \/ /\ Go(d, "record", f, Read(d, f)) /\ ~Accepted(d, f)
         /\ UNCHANGED <<store, wire>> /\ Spoil(IF store[f] = new THEN {} ELSE {f})
  BY DEF Put, Endpoints
<1> HIDE DEF f
<1>5. Read(d, f) \in Content /\ f # None
  BY <1>1, <1>2, ReadType, NotNone
<1>6. /\ job' \in [Device -> Job] /\ WireOK' /\ spoiled' \subseteq File /\ spoiled \subseteq spoiled'
      /\ store' \in [File -> [ver : Nat, data : {None} \cup Content]]
      /\ StoredInv'
      /\ \A x \in Device \ {d} : job'[x] = job[x]
      /\ job'[d] = Idle \/ (job'[d] = [at |-> "record", file |-> f, seen |-> Read(d, f)])
      /\ \A g \in File \ {f} : store'[g] = store[g] /\ ToldStill(g)
      /\ \/ /\ f \notin meta /\ job'[d] = Idle
            /\ UNCHANGED <<store, spoiled>> /\ SameTold
         \/ /\ Stored(d, f)
            /\ job'[d] = [at |-> "record", file |-> f, seen |-> Read(d, f)]
         \/ /\ row[d][f].ver # store[f].ver
            /\ job'[d] = [at |-> "record", file |-> f, seen |-> Read(d, f)]
            /\ UNCHANGED store /\ SameTold
            /\ f \notin spoiled' => store[f] = new
  <2>1. CASE f \notin meta /\ Finish(d) /\ UNCHANGED <<store, wire, spoiled>>
    <3>1. job' \in [Device -> Job] /\ SetsOwn(job, job', d, Idle) /\ SameTold
      BY <1>1, <2>1, FinishEffect, SameToldWhen
    <3>2. StoredInv'
      BY <1>1, <2>1 DEF StoredInv, Served
    <3> QED BY <1>1, <2>1, <3>1, <3>2 DEF SetsOwn, SameTold, ToldStill, WireOK, RestOK
  <2>2. CASE /\ Go(d, "record", f, Read(d, f)) /\ Accepted(d, f)
             /\ store' = [store EXCEPT ![f] = new] /\ Tell(d, f, "FILE~") /\ Spoil(Missed(d, f))
    <3>1. job' \in [Device -> Job] /\ SetsOwn(job, job', d, [at |-> "record", file |-> f, seen |-> Read(d, f)])
      BY <1>1, <1>2, <1>5, <2>2, GoEffect DEF Labels
    <3>2. /\ Stored(d, f) /\ WireOK' /\ spoiled' \subseteq File /\ spoiled \subseteq spoiled'
          /\ store' \in [File -> [ver : Nat, data : {None} \cup Content]]
          /\ StoredInv'
          /\ \A g \in File \ {f} : store'[g] = store[g] /\ ToldStill(g)
      BY <1>2, <2>2, StoredEffect
    <3> QED BY <3>1, <3>2 DEF SetsOwn
  <2>3. CASE /\ Go(d, "record", f, Read(d, f)) /\ ~Accepted(d, f)
             /\ UNCHANGED <<store, wire>> /\ Spoil(IF store[f] = new THEN {} ELSE {f})
    <3>1. job' \in [Device -> Job] /\ SetsOwn(job, job', d, [at |-> "record", file |-> f, seen |-> Read(d, f)])
      BY <1>1, <1>2, <1>5, <2>3, GoEffect DEF Labels
    <3>2. /\ SameTold /\ spoiled' \subseteq File /\ spoiled \subseteq spoiled'
          /\ f \notin spoiled' => store[f] = new
      BY <1>1, <1>2, <2>3, SameToldWhen DEF Spoil, RestOK
    <3>3. StoredInv'
      BY <1>1, <2>3 DEF StoredInv, Served
    <3> QED BY <1>1, <2>3, <3>1, <3>2, <3>3 DEF SetsOwn, SameTold, ToldStill, WireOK, RestOK, Accepted
  <2> QED BY <1>4, <2>1, <2>2, <2>3
<1>7. InotifyOK' /\ RestOK' /\ SameHeard
  BY <1>1, <1>3, <1>6, SameHeardWhen DEF InotifyOK, RestOK
<1>8. Subject(d, f)
  <2>1. Alone(d)
    BY <1>3, <1>6, <1>7 DEF Alone, SameHeard, HeardStill
  <2>2. ASSUME NEW g \in File \ {f} PROVE Still(g)
    <3>1. ServerStill(g)
      BY <1>3, <1>6 DEF ServerStill
    <3>2. job'[d].file # g /\ job[d].file # g
      BY <1>6, NotNone DEF Idle, f
    <3>3. \A x \in Device : OwnStill(x, g)
      BY <1>3, <1>6, <1>7, <3>2 DEF OwnStill, SameHeard, HeardStill
    <3> QED BY <3>1, <3>3 DEF Still
  <2> QED BY <2>1, <2>2 DEF Subject
<1>9. ShapeOf(d)'
  BY <1>1, <1>2, <1>3, <1>5, <1>6, <1>7, NotNone DEF ShapeOf, HasRow, SameHeard, Idle
<1>10. PutOn(d, f)
  BY <1>2, <1>3, <1>6, <1>7, <1>8 DEF PutOn, f
<1> QED BY <1>2, <1>6, <1>7, <1>8, <1>9, <1>10, TypeParts, AloneShape DEF f, Struct, Subject

\* What an upload does whose reply is late: stored or not, and tried again or taken for a conflict.
PutFailsOn(d, f) ==
    /\ Subject(d, f) /\ SameHeard /\ phase[d] # "off" /\ job[d].file = f /\ job[d].at = "upload"
    /\ HasRow(d, f) /\ f \in meta
    /\ UNCHANGED <<disk, row, phase, todo, had, meta, doomed, madeIn, dropped>>
    /\ spoiled \subseteq spoiled'
    /\ job'[d] = job[d] \/ job'[d] = [at |-> "get", file |-> f, seen |-> Read(d, f)]
    /\ \/ Stored(d, f)
       \/ UNCHANGED store /\ SameTold /\ job'[d] # job[d]

\* A late reply is one step about the handler's file.
LEMMA PutFailsEffect ==
    ASSUME Struct, NEW d \in Device, PutFails(d)
    PROVE  Struct' /\ job[d].file \in File /\ PutFailsOn(d, job[d].file)
<1> DEFINE f == job[d].file
           new == [ver |-> row[d][f].ver + 1, data |-> Read(d, f)]
           got == [at |-> "get", file |-> f, seen |-> Read(d, f)]
<1>1. InotifyOK /\ WireOK /\ RestOK /\ ShapeOf(d) /\ TypeOK /\ StoredInv
  BY Parts DEF Struct
<1>2. f \in File /\ phase[d] # "off" /\ job[d].at = "upload" /\ HasRow(d, f)
  BY <1>1 DEF PutFails, At, ShapeOf
<1>3. /\ UNCHANGED <<disk, row, inotify, batch, phase, todo, had, meta, doomed, madeIn, dropped>>
      /\ mishaps < MaxMishaps /\ mishaps' = mishaps + 1
  BY DEF PutFails
<1>4. \/ /\ f \in meta /\ Accepted(d, f)
         /\ store' = [store EXCEPT ![f] = [ver |-> @.ver + 1, data |-> Read(d, f)]]
         /\ Tell(d, f, "FILE~") /\ Spoil(Missed(d, f))
         /\ job' \in {job, [job EXCEPT ![d] = got]}
      \/ /\ f \in meta /\ Go(d, "get", f, Read(d, f))
         /\ UNCHANGED <<store, wire, spoiled>>
  BY DEF PutFails
<1>5. /\ Read(d, f) \in Content /\ got # job[d] /\ got \in Job
  BY <1>1, <1>2, ReadType DEF Job, Labels
<1> HIDE DEF f
<1>6. /\ job' \in [Device -> Job] /\ WireOK' /\ spoiled' \subseteq File /\ spoiled \subseteq spoiled'
      /\ store' \in [File -> [ver : Nat, data : {None} \cup Content]]
      /\ StoredInv' /\ f \in meta
      /\ \A x \in Device \ {d} : job'[x] = job[x]
      /\ job'[d] = job[d] \/ job'[d] = got
      /\ \A g \in File \ {f} : store'[g] = store[g] /\ ToldStill(g)
      /\ \/ Stored(d, f)
         \/ UNCHANGED store /\ SameTold /\ job'[d] # job[d]
  <2>1. CASE /\ f \in meta /\ Accepted(d, f)
             /\ store' = [store EXCEPT ![f] = [ver |-> @.ver + 1, data |-> Read(d, f)]]
             /\ Tell(d, f, "FILE~") /\ Spoil(Missed(d, f))
             /\ job' \in {job, [job EXCEPT ![d] = got]}
    <3>1. /\ job' \in [Device -> Job]
          /\ \A x \in Device \ {d} : job'[x] = job[x]
          /\ job'[d] = job[d] \/ job'[d] = got
      <4>1. job \in [Device -> Job] /\ got \in Job
        BY <1>1, <1>5 DEF RestOK
      <4>2. CASE job' = job
        BY <4>1, <4>2
      <4>3. CASE job' = [job EXCEPT ![d] = got]
        BY <4>1, <4>3
      <4> QED BY <2>1, <4>2, <4>3
    <3>2. store' = [store EXCEPT ![f] = new]
      BY <2>1, <1>1, <1>2 DEF Accepted, RestOK
    <3>3. /\ Stored(d, f) /\ WireOK' /\ spoiled' \subseteq File /\ spoiled \subseteq spoiled'
          /\ store' \in [File -> [ver : Nat, data : {None} \cup Content]]
          /\ StoredInv'
          /\ \A g \in File \ {f} : store'[g] = store[g] /\ ToldStill(g)
      BY <1>2, <2>1, <3>2, StoredEffect
    <3> HIDE DEF got
    <3> QED BY <2>1, <3>1, <3>3
  <2>2. CASE /\ f \in meta /\ Go(d, "get", f, Read(d, f))
             /\ UNCHANGED <<store, wire, spoiled>>
    <3>1. job' \in [Device -> Job] /\ SetsOwn(job, job', d, got)
      BY <1>1, <1>2, <1>5, <2>2, GoEffect DEF Labels
    <3>2. StoredInv'
      BY <1>1, <2>2 DEF StoredInv, Served
    <3>3. SameTold
      BY <2>2, SameToldWhen
    <3> HIDE DEF got
    <3> QED BY <1>1, <1>5, <2>2, <3>1, <3>2, <3>3 DEF SetsOwn, SameTold, ToldStill, WireOK, RestOK
  <2> QED BY <1>4, <2>1, <2>2
<1>7. InotifyOK' /\ SameHeard
  BY <1>1, <1>3, <1>6, SameHeardWhen DEF InotifyOK
<1>8. RestOK'
  <2>1. mishaps' \in 0..MaxMishaps
    BY <1>1, <1>3, BoundAssumption DEF RestOK
  <2> QED BY <1>1, <1>3, <1>6, <2>1 DEF RestOK
<1>9. Subject(d, f)
  <2>1. Alone(d)
    BY <1>3, <1>6, <1>7 DEF Alone, SameHeard, HeardStill
  <2>2. ASSUME NEW g \in File \ {f} PROVE Still(g)
    <3>1. ServerStill(g)
      BY <1>3, <1>6 DEF ServerStill
    <3>2. job'[d].file # g /\ job[d].file # g
      BY <1>6 DEF f
    <3>3. \A x \in Device : OwnStill(x, g)
      BY <1>3, <1>6, <1>7, <3>2 DEF OwnStill, SameHeard, HeardStill
    <3> QED BY <3>1, <3>3 DEF Still
  <2> QED BY <2>1, <2>2 DEF Subject
<1>10. ShapeOf(d)'
  BY <1>1, <1>2, <1>3, <1>5, <1>6, <1>7, NotNone DEF ShapeOf, HasRow, SameHeard
<1>11. PutFailsOn(d, f)
  BY <1>2, <1>3, <1>6, <1>7, <1>9 DEF PutFailsOn, f
<1> QED BY <1>2, <1>6, <1>7, <1>8, <1>9, <1>10, <1>11, TypeParts, AloneShape DEF f, Struct, Subject

\* What setFile does after an upload: the row gets the version the upload should have.
RecordOn(d, f) ==
    /\ Subject(d, f) /\ SameHeard /\ SameTold /\ phase[d] # "off" /\ job[d].file = f /\ job[d].at = "record"
    /\ HasRow(d, f) /\ job[d].seen # None
    /\ UNCHANGED <<disk, phase, todo, had, meta, store, doomed, madeIn, dropped, spoiled>>
    /\ row'[d][f] = [ver |-> row[d][f].ver + 1, base |-> job[d].seen, hashed |-> TRUE]
    /\ row'[d][f] # None /\ job'[d] = Idle

\* The record of an upload is one step about the handler's file.
LEMMA RecordEffect ==
    ASSUME Struct, NEW d \in Device, Record(d)
    PROVE  Struct' /\ job[d].file \in File /\ RecordOn(d, job[d].file)
<1> DEFINE f == job[d].file
           new == [ver |-> row[d][f].ver + 1, base |-> job[d].seen, hashed |-> TRUE]
<1>1. InotifyOK /\ WireOK /\ RestOK /\ ShapeOf(d) /\ TypeOK /\ StoredInv
  BY Parts DEF Struct
<1>2. f \in File /\ phase[d] # "off" /\ job[d].at = "record" /\ HasRow(d, f) /\ job[d].seen # None
  BY <1>1 DEF Record, At, ShapeOf
<1>3. /\ UNCHANGED <<disk, inotify, batch, phase, todo, had, meta, store, doomed, wire, madeIn,
                     dropped, spoiled, mishaps>>
      /\ SetRow(d, f, new) /\ Finish(d)
  BY DEF Record, server
<1>4. new \in Row
  <2>1. row[d][f] \in Row /\ job[d].seen \in Content
    BY <1>1, <1>2 DEF RestOK, HasRow, Job
  <2> QED BY <2>1 DEF Row
<1> HIDE DEF f, new
<1>5. job' \in [Device -> Job] /\ SetsOwn(job, job', d, Idle)
  BY <1>1, <1>3, FinishEffect
<1>6. row' \in [Device -> [File -> {None} \cup Row]] /\ Sets(row, row', d, f, new)
  BY <1>1, <1>2, <1>3, <1>4, SetRowEffect
<1>7. InotifyOK' /\ WireOK' /\ RestOK' /\ SameHeard /\ SameTold
  BY <1>1, <1>3, <1>5, <1>6, SameHeardWhen, SameToldWhen DEF InotifyOK, WireOK, RestOK
<1>8. Subject(d, f)
  BY <1>2, <1>3, <1>5, <1>6, <1>7, NotNone DEF f, Subject, Alone, Still, OwnStill, ServerStill, Sets,
     SetsOwn, SameHeard, SameTold, HeardStill, ToldStill, Idle
<1>9. ShapeOf(d)'
  <2>1. \A g \in File : row[d][g] # None => row'[d][g] # None
    BY <1>4, <1>6, NotNone DEF Sets
  <2>2. job'[d] = Idle
    BY <1>5 DEF SetsOwn
  <2>3. had[d] \subseteq File
    BY <1>1 DEF RestOK
  <2> QED BY <1>1, <1>3, <1>7, <2>1, <2>2, <2>3 DEF ShapeOf, HasRow, SameHeard, Idle
<1>10. StoredInv'
  BY <1>1, <1>3 DEF StoredInv, Served
<1>11. RecordOn(d, f)
  <2>1. new # None
    BY <1>4, NotNone
  <2> QED BY <1>2, <1>3, <1>5, <1>6, <1>7, <1>8, <2>1 DEF RecordOn, f, new, Sets, SetsOwn
<1> QED BY <1>2, <1>7, <1>8, <1>9, <1>10, <1>11, TypeParts, AloneShape DEF f, Struct, Subject

\* What is heard of a file that was written.
Wrote(d, f) ==
    /\ Exists(d, f) => Hears(d, {"modified"}, f)
    /\ ~Exists(d, f) => Hears(d, {"created", "modified"}, f)

\* Writing a file: its content, and what is heard of it.
LEMMA WroteEffect ==
    ASSUME Struct, NEW d \in Device, NEW f \in File, NEW c \in Content, Write(d, f, c), batch' = batch
    PROVE  /\ InotifyOK' /\ Sets(disk, disk', d, f, c) /\ Wrote(d, f)
           /\ disk' \in [Device -> [File -> {None} \cup Content]]
           /\ \A x \in Device, g \in File : x # d \/ g # f => HeardStill(x, g)
           /\ phase[d] # "on" => \A t \in Types, g \in File : ~Heard(d, t, g)'
<1>1. RestOK /\ TypeOK /\ ShapeOf(d)
  BY Parts
<1>2. /\ InotifyOK' /\ disk' = [disk EXCEPT ![d][f] = c]
      /\ disk' \in [Device -> [File -> {None} \cup Content]]
      /\ Wrote(d, f)
  BY <1>1, WriteEffect DEF Wrote
<1>3. Sets(disk, disk', d, f, c)
  BY <1>1, <1>2 DEF Sets, RestOK
<1>4. \A x \in Device, g \in File : x # d \/ g # f => HeardStill(x, g)
  BY <1>2 DEF Wrote, Hears, HeardStill
<1>5. phase[d] # "on" => \A t \in Types, g \in File : ~Heard(d, t, g)'
  BY <1>1, <1>2 DEF Wrote, Hears, ShapeOf
<1> QED BY <1>2, <1>3, <1>4, <1>5

\* The row made from what the servers serve is a row.
LEMMA SyncedType ==
    ASSUME Struct, NEW f \in File, Served(f)
    PROVE  Synced(store[f]) \in Row /\ store[f].data \in Content /\ Synced(store[f]) # None
<1>1. store[f].ver \in Nat /\ store[f].data \in Content
  BY TypeParts DEF Struct, RestOK, Served
<1>2. Synced(store[f]) \in Row
  BY <1>1 DEF Synced, Row
<1> QED BY <1>1, <1>2, NotNone

\* A merge of contents is a content.
LEMMA MergedType ==
    ASSUME NEW a \in Content, NEW b \in Content, NEW c \in Content PROVE Merged(a, b, c) \in Content
  BY DEF Merged, Content

\* What Conflict does once it has the servers' content: nothing, row only, merge, or overwrite.
GetOn(d, f) ==
    /\ Subject(d, f) /\ SameTold /\ phase[d] # "off" /\ job[d].file = f /\ job[d].at = "get"
    /\ HasRow(d, f) /\ job[d].seen # None
    /\ UNCHANGED <<phase, todo, had, meta, store, doomed, madeIn, dropped>>
    /\ spoiled \subseteq spoiled'
    /\ \/ /\ f \notin meta \/ ~Served(f)
          /\ job'[d] = Idle /\ SameHeard /\ UNCHANGED <<disk, row>>
          /\ f \notin spoiled' => Served(f) \/ Storing(f)
       \/ /\ Served(f) /\ job[d].seen = store[f].data
          /\ row'[d][f] = Synced(store[f]) /\ row'[d][f] # None
          /\ job'[d] = Idle /\ SameHeard /\ UNCHANGED disk
       \/ /\ Served(f) /\ Mergeable(row[d][f].base, job[d].seen, store[f].data)
          /\ disk'[d][f] = Merged(row[d][f].base, job[d].seen, store[f].data)
          /\ disk'[d][f] # None /\ Wrote(d, f) /\ UNCHANGED row
          /\ f \notin spoiled' => Read(d, f) = job[d].seen
          /\ job'[d] = [at |-> "upload", file |-> f, seen |-> None]
       \/ /\ Served(f)
          /\ disk'[d][f] = store[f].data /\ Wrote(d, f)
          /\ row'[d][f] = Synced(store[f]) /\ row'[d][f] # None
          /\ f \notin spoiled' => Read(d, f) = job[d].seen
          /\ job'[d] = [at |-> "copy", file |-> f, seen |-> job[d].seen]

\* Conflict is one step about the handler's file.
LEMMA GetEffect ==
    ASSUME Struct, NEW d \in Device, Get(d)
    PROVE  Struct' /\ job[d].file \in File /\ GetOn(d, job[d].file)
<1> DEFINE f == job[d].file
           mine == job[d].seen
           theirs == store[f].data
           base == row[d][f].base
           trampled == IF Read(d, f) # mine THEN {f} ELSE {}
           Local(D, R, J) ==
             /\ disk' \in [Device -> [File -> {None} \cup Content]] /\ Sets(disk, disk', d, f, D)
             /\ row' \in [Device -> [File -> {None} \cup Row]] /\ Sets(row, row', d, f, R) /\ R # None
             /\ job' \in [Device -> Job] /\ SetsOwn(job, job', d, J)
             /\ InotifyOK' /\ \A x \in Device, g \in File : x # d \/ g # f => HeardStill(x, g)
             /\ phase[d] # "on" => \A t \in Types, g \in File : ~Heard(d, t, g)'
             /\ spoiled' \subseteq File /\ spoiled \subseteq spoiled'
<1>1. InotifyOK /\ WireOK /\ RestOK /\ ShapeOf(d) /\ TypeOK /\ StoredInv
  BY Parts DEF Struct
<1>2. f \in File /\ phase[d] # "off" /\ job[d].at = "get" /\ HasRow(d, f) /\ mine # None
  BY <1>1 DEF Get, At, ShapeOf
<1>3. UNCHANGED <<batch, phase, todo, had, meta, store, doomed, wire, madeIn, dropped, mishaps>>
  BY DEF Get, server
<1>4. \/ /\ f \notin meta \/ ~Served(f)
         /\ Finish(d) /\ Spoil(IF Served(f) \/ Storing(f) THEN {} ELSE {f})
         /\ UNCHANGED <<disk, row, inotify>>
      \/ /\ Served(f) /\ mine = theirs
         /\ SetRow(d, f, Synced(store[f])) /\ Finish(d)
         /\ UNCHANGED <<disk, inotify, spoiled>>
      \/ /\ Served(f) /\ Mergeable(base, mine, theirs)
         /\ Write(d, f, Merged(base, mine, theirs)) /\ Spoil(trampled)
         /\ Go(d, "upload", f, None)
         /\ UNCHANGED row
      \/ /\ Served(f)
         /\ Write(d, f, theirs) /\ Spoil(trampled)
         /\ SetRow(d, f, Synced(store[f]))
         /\ Go(d, "copy", f, mine)
  BY DEF Get, Endpoints
<1>5. /\ row[d][f] \in Row /\ base \in Content /\ mine \in Content /\ f # None
  <2>1. row[d][f] \in Row /\ mine \in Content
    BY <1>1, <1>2 DEF RestOK, HasRow, Job
  <2> QED BY <1>2, <2>1, NotNone DEF Row
<1>6. UNCHANGED <<disk, row>> =>
        /\ disk' \in [Device -> [File -> {None} \cup Content]] /\ Sets(disk, disk', d, f, disk[d][f])
        /\ row' \in [Device -> [File -> {None} \cup Row]] /\ Sets(row, row', d, f, row[d][f])
  BY <1>1 DEF RestOK, Sets
<1>7. UNCHANGED inotify =>
        /\ InotifyOK' /\ SameHeard /\ \A x \in Device, g \in File : HeardStill(x, g)
        /\ phase[d] # "on" => \A t \in Types, g \in File : ~Heard(d, t, g)'
  BY <1>1, <1>3, SameHeardWhen DEF InotifyOK, SameHeard, HeardStill, ShapeOf
<1>8. SameTold
  BY <1>3, SameToldWhen
<1> DEFINE gave == /\ f \notin meta \/ ~Served(f)
                   /\ job'[d] = Idle /\ SameHeard /\ UNCHANGED <<disk, row>>
                   /\ f \notin spoiled' => Served(f) \/ Storing(f)
           same == /\ Served(f) /\ mine = theirs
                   /\ row'[d][f] = Synced(store[f]) /\ row'[d][f] # None
                   /\ job'[d] = Idle /\ SameHeard /\ UNCHANGED disk
           merge == /\ Served(f) /\ Mergeable(base, mine, theirs)
                    /\ disk'[d][f] = Merged(base, mine, theirs)
                    /\ disk'[d][f] # None /\ Wrote(d, f) /\ UNCHANGED row
                    /\ f \notin spoiled' => Read(d, f) = mine
                    /\ job'[d] = [at |-> "upload", file |-> f, seen |-> None]
           clash == /\ Served(f)
                    /\ disk'[d][f] = theirs /\ Wrote(d, f)
                    /\ row'[d][f] = Synced(store[f]) /\ row'[d][f] # None
                    /\ f \notin spoiled' => Read(d, f) = mine
                    /\ job'[d] = [at |-> "copy", file |-> f, seen |-> mine]
<1> HIDE DEF f, mine, theirs, base
<1>9. \E D, R, J : /\ Local(D, R, J) /\ (gave \/ same \/ merge \/ clash)
                   /\ J = Idle \/ (J.file = f /\ J.at \in {"upload", "copy"}
                                   /\ (J.at = "copy" => J.seen # None))
  <2>1. CASE /\ f \notin meta \/ ~Served(f)
             /\ Finish(d) /\ Spoil(IF Served(f) \/ Storing(f) THEN {} ELSE {f})
             /\ UNCHANGED <<disk, row, inotify>>
    <3>1. job' \in [Device -> Job] /\ SetsOwn(job, job', d, Idle)
      BY <1>1, <2>1, FinishEffect
    <3>2. /\ spoiled' \subseteq File /\ spoiled \subseteq spoiled'
          /\ f \notin spoiled' => Served(f) \/ Storing(f)
      BY <1>1, <1>2, <2>1 DEF Spoil, RestOK
    <3>3. gave
      BY <1>7, <2>1, <3>1, <3>2 DEF SetsOwn
    <3>4. Local(disk[d][f], row[d][f], Idle)
      BY <1>2, <1>6, <1>7, <2>1, <3>1, <3>2 DEF HasRow
    <3> QED BY <3>3, <3>4
  <2>2. CASE /\ Served(f) /\ mine = theirs
             /\ SetRow(d, f, Synced(store[f])) /\ Finish(d)
             /\ UNCHANGED <<disk, inotify, spoiled>>
    <3>1. job' \in [Device -> Job] /\ SetsOwn(job, job', d, Idle)
      BY <1>1, <2>2, FinishEffect
    <3>2. Synced(store[f]) \in Row /\ Synced(store[f]) # None
      BY <1>2, <2>2, SyncedType
    <3>3. row' \in [Device -> [File -> {None} \cup Row]] /\ Sets(row, row', d, f, Synced(store[f]))
      BY <1>1, <1>2, <2>2, <3>2, SetRowEffect
    <3>4. disk' \in [Device -> [File -> {None} \cup Content]] /\ Sets(disk, disk', d, f, disk[d][f])
      BY <1>1, <2>2 DEF RestOK, Sets
    <3>5. same
      BY <1>7, <2>2, <3>1, <3>2, <3>3 DEF SetsOwn, Sets
    <3>6. Local(disk[d][f], Synced(store[f]), Idle)
      BY <1>1, <1>7, <2>2, <3>1, <3>2, <3>3, <3>4 DEF RestOK
    <3> QED BY <3>5, <3>6
  <2>3. CASE /\ Served(f) /\ Mergeable(base, mine, theirs)
             /\ Write(d, f, Merged(base, mine, theirs)) /\ Spoil(trampled)
             /\ Go(d, "upload", f, None)
             /\ UNCHANGED row
    <3> DEFINE J == [at |-> "upload", file |-> f, seen |-> None]
    <3>1. job' \in [Device -> Job] /\ SetsOwn(job, job', d, J)
      BY <1>1, <1>2, <2>3, GoEffect DEF Labels
    <3>2. Merged(base, mine, theirs) \in Content
      BY <1>2, <1>5, <2>3, SyncedType, MergedType DEF theirs
    <3>3. /\ InotifyOK' /\ Sets(disk, disk', d, f, Merged(base, mine, theirs)) /\ Wrote(d, f)
          /\ disk' \in [Device -> [File -> {None} \cup Content]]
          /\ \A x \in Device, g \in File : x # d \/ g # f => HeardStill(x, g)
          /\ phase[d] # "on" => \A t \in Types, g \in File : ~Heard(d, t, g)'
      BY <1>2, <1>3, <2>3, <3>2, WroteEffect
    <3>4. row' \in [Device -> [File -> {None} \cup Row]] /\ Sets(row, row', d, f, row[d][f])
      BY <1>1, <2>3 DEF RestOK, Sets
    <3>5. /\ spoiled' \subseteq File /\ spoiled \subseteq spoiled'
          /\ f \notin spoiled' => Read(d, f) = mine
      BY <1>1, <1>2, <2>3 DEF Spoil, RestOK
    <3>6. merge
      BY <2>3, <3>1, <3>2, <3>3, <3>5, NotNone DEF SetsOwn, Sets
    <3>7. Local(Merged(base, mine, theirs), row[d][f], J)
      BY <1>2, <3>1, <3>3, <3>4, <3>5 DEF HasRow
    <3>8. J.file = f /\ J.at = "upload"
      OBVIOUS
    <3> HIDE DEF Local, J, merge
    <3> QED BY <3>6, <3>7, <3>8
  <2>4. CASE /\ Served(f)
             /\ Write(d, f, theirs) /\ Spoil(trampled)
             /\ SetRow(d, f, Synced(store[f]))
             /\ Go(d, "copy", f, mine)
    <3> DEFINE J == [at |-> "copy", file |-> f, seen |-> mine]
    <3>1. job' \in [Device -> Job] /\ SetsOwn(job, job', d, J)
      BY <1>1, <1>2, <1>5, <2>4, GoEffect DEF Labels
    <3>2. Synced(store[f]) \in Row /\ Synced(store[f]) # None /\ theirs \in Content
      BY <1>2, <2>4, SyncedType DEF theirs
    <3>3. /\ InotifyOK' /\ Sets(disk, disk', d, f, theirs) /\ Wrote(d, f)
          /\ disk' \in [Device -> [File -> {None} \cup Content]]
          /\ \A x \in Device, g \in File : x # d \/ g # f => HeardStill(x, g)
          /\ phase[d] # "on" => \A t \in Types, g \in File : ~Heard(d, t, g)'
      BY <1>2, <1>3, <2>4, <3>2, WroteEffect
    <3>4. row' \in [Device -> [File -> {None} \cup Row]] /\ Sets(row, row', d, f, Synced(store[f]))
      BY <1>1, <1>2, <2>4, <3>2, SetRowEffect
    <3>5. /\ spoiled' \subseteq File /\ spoiled \subseteq spoiled'
          /\ f \notin spoiled' => Read(d, f) = mine
      BY <1>1, <1>2, <2>4 DEF Spoil, RestOK
    <3>6. clash
      BY <2>4, <3>1, <3>2, <3>3, <3>4, <3>5 DEF SetsOwn, Sets
    <3>7. Local(theirs, Synced(store[f]), J)
      BY <1>2, <3>1, <3>2, <3>3, <3>4, <3>5
    <3>8. J.file = f /\ J.at = "copy" /\ J.seen # None
      BY <1>2
    <3> HIDE DEF Local, J, clash
    <3> QED BY <3>6, <3>7, <3>8
  <2> QED BY <1>4, <2>1, <2>2, <2>3, <2>4
<1>10. PICK D, R, J : /\ Local(D, R, J) /\ (gave \/ same \/ merge \/ clash)
                      /\ J = Idle \/ (J.file = f /\ J.at \in {"upload", "copy"}
                                      /\ (J.at = "copy" => J.seen # None))
  BY <1>9
<1> HIDE DEF gave, same, merge, clash
<1>11. WireOK' /\ RestOK'
  BY <1>1, <1>3, <1>10 DEF WireOK, RestOK
<1>12. Subject(d, f)
  <2>1. Alone(d)
    BY <1>3, <1>10 DEF Alone, HeardStill, Sets, SetsOwn
  <2>2. ASSUME NEW g \in File \ {f} PROVE Still(g)
    <3>1. ServerStill(g)
      BY <1>3, <1>8 DEF ServerStill, SameTold, ToldStill
    <3>2. job'[d].file # g /\ job[d].file # g
      BY <1>10, NotNone DEF Idle, f, SetsOwn
    <3>3. \A x \in Device : OwnStill(x, g)
      BY <1>3, <1>10, <3>2 DEF OwnStill, HeardStill, Sets, SetsOwn
    <3> QED BY <3>1, <3>3 DEF Still
  <2> QED BY <2>1, <2>2 DEF Subject
<1>13. ShapeOf(d)'
  <2>1. \A g \in File : row[d][g] # None => row'[d][g] # None
    BY <1>10 DEF Sets
  <2>2. row'[d][f] # None /\ had[d] \subseteq File
    BY <1>1, <1>10 DEF Sets, RestOK
  <2>3. /\ job'[d].at = "idle" => job'[d] = Idle
        /\ job'[d].at # "idle" => job'[d].file = f /\ job'[d].at \in {"upload", "copy"}
        /\ job'[d].at = "copy" => job'[d].seen # None
    BY <1>10 DEF SetsOwn, Idle
  <2>4. phase[d] # "on" => \A t \in Types, g \in File : ~Heard(d, t, g)'
    BY <1>10
  <2> QED BY <1>1, <1>2, <1>3, <2>1, <2>2, <2>3, <2>4 DEF ShapeOf, HasRow, Idle
<1>14. StoredInv'
  BY <1>1, <1>3 DEF StoredInv, Served
<1>15. gave \/ same \/ merge \/ clash
  BY <1>10
<1>16. spoiled \subseteq spoiled' /\ TypeOK'
  BY <1>10, <1>11, TypeParts
<1>17. GetOn(d, f)
  BY <1>2, <1>3, <1>8, <1>12, <1>15, <1>16 DEF GetOn, f, mine, theirs, base, gave, same, merge, clash
<1> QED BY <1>2, <1>12, <1>13, <1>14, <1>16, <1>17, AloneShape DEF f, Struct, Subject

\* What making the conflicted copy c of f does: the only step about two files.
CopyOn(d, f, c) ==
    /\ Alone(d) /\ SameTold /\ phase[d] # "off" /\ job[d].file = f /\ job[d].at = "copy"
    /\ HasRow(d, f) /\ job[d].seen # None
    /\ \A g \in File \ {f, c} : Still(g)
    /\ UNCHANGED <<phase, todo, had, meta, store, doomed, madeIn, dropped>>
    /\ \A g \in File \ {c} : /\ disk'[d][g] = disk[d][g] /\ row'[d][g] = row[d][g]
                             /\ \A x \in Device : HeardStill(x, g)
    /\ disk'[d][c] = job[d].seen /\ Wrote(d, c)
    /\ row'[d][c] = [ver |-> 0, base |-> job[d].seen, hashed |-> TRUE] /\ row'[d][c] # None
    /\ job'[d] = [at |-> "create", file |-> c, seen |-> None]
    /\ spoiled \subseteq spoiled'
    /\ Exists(d, c) => f \in spoiled' /\ c \in spoiled'

\* Only a copy's name can be written by it, and that is none of the users' files.
LEMMA CopyEffect ==
    ASSUME Struct, NEW d \in Device, Copy(d)
    PROVE  /\ Struct' /\ job[d].file \in File /\ CopyName[d][job[d].file] \in File \ Main
           /\ CopyOn(d, job[d].file, CopyName[d][job[d].file])
<1> DEFINE f == job[d].file
           c == CopyName[d][f]
           r == [ver |-> 0, base |-> job[d].seen, hashed |-> TRUE]
           J == [at |-> "create", file |-> c, seen |-> None]
<1>1. InotifyOK /\ WireOK /\ RestOK /\ ShapeOf(d) /\ TypeOK /\ StoredInv
  BY Parts DEF Struct
<1>2. /\ f \in File /\ phase[d] # "off" /\ job[d].at = "copy" /\ HasRow(d, f)
      /\ job[d].seen # None
  BY <1>1 DEF Copy, At, ShapeOf
<1>3. /\ UNCHANGED <<batch, phase, todo, had, meta, store, doomed, wire, madeIn, dropped, mishaps>>
      /\ Write(d, c, job[d].seen) /\ SetRow(d, c, r)
      /\ Spoil(IF Exists(d, c) THEN {f, c} ELSE {})
      /\ Go(d, "create", c, None)
  BY DEF Copy, server
<1>4. c \in File \ Main /\ job[d].seen \in Content /\ r \in Row /\ f # None /\ c # None
  <2>1. c \in File \ Main /\ job[d].seen \in Content
    BY <1>1, <1>2, FileAssumption DEF RestOK, Job
  <2> QED BY <1>2, <2>1, NotNone DEF Row
<1> HIDE DEF f, c, r
<1>5. job' \in [Device -> Job] /\ SetsOwn(job, job', d, J)
  BY <1>1, <1>3, <1>4, GoEffect DEF Labels
<1>6. row' \in [Device -> [File -> {None} \cup Row]] /\ Sets(row, row', d, c, r)
  BY <1>1, <1>3, <1>4, SetRowEffect
<1>7. /\ InotifyOK' /\ Sets(disk, disk', d, c, job[d].seen) /\ Wrote(d, c)
      /\ disk' \in [Device -> [File -> {None} \cup Content]]
      /\ \A x \in Device, g \in File : x # d \/ g # c => HeardStill(x, g)
      /\ phase[d] # "on" => \A t \in Types, g \in File : ~Heard(d, t, g)'
  BY <1>3, <1>4, WroteEffect
<1>8. /\ spoiled' \subseteq File /\ spoiled \subseteq spoiled'
      /\ Exists(d, c) => f \in spoiled' /\ c \in spoiled'
  BY <1>1, <1>2, <1>3, <1>4 DEF Spoil, RestOK
<1>9. WireOK' /\ RestOK' /\ SameTold
  BY <1>1, <1>3, <1>5, <1>6, <1>7, <1>8, SameToldWhen DEF WireOK, RestOK
<1>10. Alone(d)
  BY <1>3, <1>5, <1>6, <1>7 DEF Alone, HeardStill, Sets, SetsOwn
<1>11. ASSUME NEW g \in File \ {f, c} PROVE Still(g)
  <2>1. ServerStill(g)
    BY <1>3, <1>9 DEF ServerStill, SameTold, ToldStill
  <2>2. job'[d].file # g /\ job[d].file # g
    BY <1>5 DEF f, SetsOwn
  <2>3. \A x \in Device : OwnStill(x, g)
    BY <1>3, <1>5, <1>6, <1>7, <2>2 DEF OwnStill, HeardStill, Sets, SetsOwn
  <2> QED BY <2>1, <2>3 DEF Still
<1>12. ShapeOf(d)'
  <2>1. \A g \in File : row[d][g] # None => row'[d][g] # None
    BY <1>4, <1>6, NotNone DEF Sets
  <2>2. row'[d][c] # None /\ had[d] \subseteq File
    BY <1>1, <1>4, <1>6, NotNone DEF Sets, RestOK
  <2>3. job'[d].at = "create" /\ job'[d].file = c
    BY <1>5 DEF SetsOwn
  <2>4. phase[d] # "on" => \A t \in Types, g \in File : ~Heard(d, t, g)'
    BY <1>7
  <2> QED BY <1>1, <1>2, <1>3, <1>4, <2>1, <2>2, <2>3, <2>4 DEF ShapeOf, HasRow
<1>13. StoredInv'
  BY <1>1, <1>3 DEF StoredInv, Served
<1>14. TypeOK'
  BY <1>7, <1>9, TypeParts
<1>15. \A g \in File \ {c} : /\ disk'[d][g] = disk[d][g] /\ row'[d][g] = row[d][g]
                             /\ \A x \in Device : HeardStill(x, g)
  BY <1>6, <1>7 DEF Sets
<1>16. disk'[d][c] = job[d].seen /\ row'[d][c] = r /\ row'[d][c] # None /\ job'[d] = J
  BY <1>4, <1>5, <1>6, <1>7, NotNone DEF Sets, SetsOwn
<1>17. CopyOn(d, f, c)
  BY <1>2, <1>3, <1>7, <1>8, <1>9, <1>10, <1>11, <1>15, <1>16 DEF CopyOn, f, r
<1> QED BY <1>2, <1>4, <1>10, <1>12, <1>13, <1>14, <1>17, AloneShape DEF f, c, Struct

\* The handler begins Conflict: it has read the local content.
ConflictOn(d, f) ==
    /\ job'[d] = [at |-> "get", file |-> f, seen |-> Read(d, f)]
    /\ SameHeard /\ UNCHANGED <<disk, row, spoiled>>

\* fetchNewFile: the file and its row are the servers', if they serve it.
FetchOn(d, f) ==
    /\ spoiled \subseteq spoiled'
    /\ job' = job
    /\ \/ /\ Served(f) /\ disk'[d][f] = store[f].data /\ row'[d][f] = Synced(store[f])
          /\ row'[d][f] # None /\ Wrote(d, f)
          /\ Exists(d, f) => f \in spoiled'
       \/ /\ f \notin meta \/ ~Served(f)
          /\ SameHeard /\ UNCHANGED <<disk, row, spoiled>>

\* What both leave as it is.
Around(d, f) ==
    /\ InotifyOK' /\ spoiled' \subseteq File
    /\ disk' \in [Device -> [File -> {None} \cup Content]]
    /\ row' \in [Device -> [File -> {None} \cup Row]]
    /\ job' \in [Device -> Job]
    /\ \A x \in Device \ {d} : disk'[x] = disk[x] /\ row'[x] = row[x] /\ job'[x] = job[x]
    /\ \A g \in File \ {f} : disk'[d][g] = disk[d][g] /\ row'[d][g] = row[d][g]
    /\ \A x \in Device, g \in File : x # d \/ g # f => HeardStill(x, g)
    /\ phase[d] # "on" => \A t \in Types, g \in File : ~Heard(d, t, g)'
    /\ row[d][f] # None => row'[d][f] # None

\* The beginning of Conflict is about one file.
LEMMA ConflictEffect ==
    ASSUME Struct, NEW d \in Device, NEW f \in File, StartConflict(d, f), batch' = batch
    PROVE  ConflictOn(d, f) /\ Around(d, f)
<1>1. InotifyOK /\ RestOK /\ ShapeOf(d)
  BY Parts
<1>2. Go(d, "get", f, Read(d, f)) /\ UNCHANGED <<disk, row, inotify, spoiled>>
  BY DEF StartConflict
<1>3. job' \in [Device -> Job] /\ SetsOwn(job, job', d, [at |-> "get", file |-> f, seen |-> Read(d, f)])
  BY <1>1, <1>2, ReadType, GoEffect DEF Labels
<1>4. InotifyOK' /\ SameHeard
  BY <1>1, <1>2, SameHeardWhen DEF InotifyOK
<1>5. ConflictOn(d, f)
  BY <1>2, <1>3, <1>4 DEF ConflictOn, SetsOwn
<1>6. Around(d, f)
  BY <1>1, <1>2, <1>3, <1>4 DEF Around, SetsOwn, SameHeard, HeardStill, RestOK, ShapeOf
<1> QED BY <1>5, <1>6

\* fetchNewFile is about one file; overwriting a file that is there is a known loss.
LEMMA FetchEffect ==
    ASSUME Struct, NEW d \in Device, NEW f \in File, Fetch(d, f), batch' = batch, job' = job
    PROVE  FetchOn(d, f) /\ Around(d, f)
<1>1. InotifyOK /\ RestOK /\ ShapeOf(d)
  BY Parts
<1>2. CASE /\ Served(f) /\ Write(d, f, store[f].data)
           /\ SetRow(d, f, Synced(store[f]))
           /\ Spoil(IF Exists(d, f) THEN {f} ELSE {})
  <2>1. Synced(store[f]) \in Row /\ Synced(store[f]) # None /\ store[f].data \in Content
    BY <1>2, SyncedType
  <2>2. row' \in [Device -> [File -> {None} \cup Row]] /\ Sets(row, row', d, f, Synced(store[f]))
    BY <1>1, <1>2, <2>1, SetRowEffect
  <2>3. /\ InotifyOK' /\ Sets(disk, disk', d, f, store[f].data) /\ Wrote(d, f)
        /\ disk' \in [Device -> [File -> {None} \cup Content]]
        /\ \A x \in Device, g \in File : x # d \/ g # f => HeardStill(x, g)
        /\ phase[d] # "on" => \A t \in Types, g \in File : ~Heard(d, t, g)'
    BY <1>2, <2>1, WroteEffect
  <2>4. spoiled' \subseteq File /\ spoiled \subseteq spoiled' /\ (Exists(d, f) => f \in spoiled')
    BY <1>1, <1>2 DEF Spoil, RestOK
  <2>5. FetchOn(d, f)
    BY <1>2, <2>1, <2>2, <2>3, <2>4 DEF FetchOn, Sets
  <2>6. Around(d, f)
    BY <1>1, <2>1, <2>2, <2>3, <2>4 DEF Around, Sets, RestOK
  <2> QED BY <2>5, <2>6
<1>3. CASE (f \notin meta \/ ~Served(f)) /\ UNCHANGED <<disk, row, inotify, spoiled>>
  <2>1. InotifyOK' /\ SameHeard
    BY <1>1, <1>3, SameHeardWhen DEF InotifyOK
  <2>2. FetchOn(d, f)
    BY <1>3, <2>1 DEF FetchOn
  <2>3. Around(d, f)
    BY <1>1, <1>3, <2>1 DEF Around, SameHeard, HeardStill, RestOK, ShapeOf
  <2> QED BY <2>2, <2>3
<1> QED BY <1>2, <1>3 DEF Fetch, Endpoints

\* Of equal notices one is taken.
TakenNotice(d, k, f) ==
    \A e \in Device, u \in Kinds, g \in File :
        /\ Told(e, u, g)' => Told(e, u, g)
        /\ Told(e, u, g) => Told(e, u, g)' \/ (e = d /\ u = k /\ g = f)

\* What handling a notice does.
RemoteEventOn(d, k, f) ==
    /\ Subject(d, f) /\ phase[d] = "on" /\ job[d] = Idle
    /\ Told(d, k, f) /\ TakenNotice(d, k, f)
    /\ UNCHANGED <<phase, todo, had, meta, store, doomed, madeIn, dropped>>
    /\ \/ /\ k = "FILE-" /\ disk'[d][f] = None /\ row'[d][f] = None
          /\ Exists(d, f) => Hears(d, {"deleted"}, f)
          /\ ~Exists(d, f) => SameHeard
          /\ UNCHANGED <<job, spoiled>>
       \/ k # "FILE-" /\ HasRow(d, f) /\ ConflictOn(d, f)
       \/ k # "FILE-" /\ ~HasRow(d, f) /\ FetchOn(d, f)

\* Every notice is about one file.
LEMMA RemoteEventEffect ==
    ASSUME Struct, NEW d \in Device, RemoteEvent(d)
    PROVE  Struct' /\ \E k \in Kinds, f \in File : RemoteEventOn(d, k, f)
<1>1. InotifyOK /\ WireOK /\ RestOK /\ ShapeOf(d) /\ TypeOK /\ StoredInv
  BY Parts DEF Struct
<1>2. /\ job[d] = Idle /\ phase[d] = "on" /\ had[d] = {} /\ todo[d] = {}
      /\ UNCHANGED <<batch, phase, todo, had, meta, store, doomed, madeIn, dropped, mishaps>>
  BY <1>1 DEF RemoteEvent, At, ShapeOf
<1>3. PICK n \in BagToSet(wire) :
         /\ n.to = d /\ wire' = wire (-) SetToBag({n})
         /\ \/ /\ n.type = "FILE-"
               /\ Erase(d, n.file) /\ SetRow(d, n.file, None)
               /\ UNCHANGED <<job, spoiled>>
            \/ /\ n.type # "FILE-" /\ HasRow(d, n.file)
               /\ StartConflict(d, n.file)
            \/ /\ n.type # "FILE-" /\ ~HasRow(d, n.file)
               /\ Fetch(d, n.file) /\ UNCHANGED job
  BY DEF RemoteEvent
<1> DEFINE f == n.file
           k == n.type
<1>4. /\ WireOK' /\ TakenFrom(n) /\ Told(d, k, f)
      /\ k \in Kinds /\ f \in File
  BY <1>1, <1>3, TakenEffect
<1>5. TakenNotice(d, k, f)
  BY <1>3, <1>4 DEF TakenFrom, TakenNotice
<1> DEFINE erased == /\ k = "FILE-" /\ disk'[d][f] = None /\ row'[d][f] = None
                     /\ Exists(d, f) => Hears(d, {"deleted"}, f)
                     /\ ~Exists(d, f) => SameHeard
                     /\ UNCHANGED <<job, spoiled>>
           Kept == /\ InotifyOK' /\ spoiled' \subseteq File
                   /\ disk' \in [Device -> [File -> {None} \cup Content]]
                   /\ row' \in [Device -> [File -> {None} \cup Row]]
                   /\ job' \in [Device -> Job]
                   /\ \A x \in Device \ {d} : disk'[x] = disk[x] /\ row'[x] = row[x] /\ job'[x] = job[x]
                   /\ \A g \in File \ {f} : disk'[d][g] = disk[d][g] /\ row'[d][g] = row[d][g]
                   /\ \A x \in Device, g \in File : x # d \/ g # f => HeardStill(x, g)
<1>6. /\ Kept
      /\ job'[d] = Idle \/ (job'[d] = [at |-> "get", file |-> f, seen |-> Read(d, f)] /\ row'[d][f] # None)
      /\ \/ erased
         \/ k # "FILE-" /\ HasRow(d, f) /\ ConflictOn(d, f)
         \/ k # "FILE-" /\ ~HasRow(d, f) /\ FetchOn(d, f)
  <2>1. CASE k = "FILE-" /\ Erase(d, f) /\ SetRow(d, f, None) /\ UNCHANGED <<job, spoiled>>
    <3>1. /\ InotifyOK' /\ disk' = [disk EXCEPT ![d][f] = None]
          /\ disk' \in [Device -> [File -> {None} \cup Content]]
          /\ Exists(d, f) => Hears(d, {"deleted"}, f)
          /\ ~Exists(d, f) => SameHeard
      BY <1>1, <1>2, <1>4, <2>1, EraseEffect
    <3>2. Sets(disk, disk', d, f, None)
      BY <1>1, <1>4, <3>1 DEF RestOK, Sets
    <3>3. row' \in [Device -> [File -> {None} \cup Row]] /\ Sets(row, row', d, f, None)
      BY <1>1, <1>4, <2>1, SetRowEffect
    <3>4. \A x \in Device, g \in File : x # d \/ g # f => HeardStill(x, g)
      BY <3>1 DEF Hears, SameHeard, HeardStill
    <3>5. erased
      BY <2>1, <3>1, <3>2, <3>3 DEF Sets
    <3>6. Kept
      BY <1>1, <2>1, <3>1, <3>2, <3>3, <3>4 DEF Sets, RestOK
    <3> QED BY <1>2, <2>1, <3>5, <3>6
  <2>2. CASE k # "FILE-" /\ HasRow(d, f) /\ StartConflict(d, f)
    <3>1. ConflictOn(d, f) /\ Around(d, f)
      BY <1>2, <1>4, <2>2, ConflictEffect
    <3> QED BY <2>2, <3>1 DEF Around, ConflictOn, HasRow
  <2>3. CASE k # "FILE-" /\ ~HasRow(d, f) /\ Fetch(d, f) /\ UNCHANGED job
    <3>1. FetchOn(d, f) /\ Around(d, f)
      BY <1>2, <1>4, <2>3, FetchEffect
    <3> QED BY <1>2, <2>3, <3>1 DEF Around
  <2> QED BY <1>3, <2>1, <2>2, <2>3
<1> HIDE DEF f, k, erased
<1>7. RestOK'
  BY <1>1, <1>2, <1>6 DEF RestOK
<1>8. Subject(d, f)
  <2>1. Alone(d)
    BY <1>2, <1>6 DEF Alone
  <2>2. ASSUME NEW g \in File \ {f} PROVE Still(g)
    <3>1. ServerStill(g)
      BY <1>2, <1>5 DEF ServerStill, TakenNotice, ToldStill
    <3>2. job'[d].file # g /\ job[d].file # g
      BY <1>2, <1>6, NotNone DEF Idle
    <3>3. \A x \in Device : OwnStill(x, g)
      BY <1>2, <1>6, <3>2 DEF OwnStill
    <3> QED BY <3>1, <3>3 DEF Still
  <2> QED BY <2>1, <2>2 DEF Subject
<1>9. ShapeOf(d)'
  <2>1. job'[d].at = "get" => job'[d].seen # None /\ job'[d].file \in File /\ row'[d][job'[d].file] # None
    BY <1>1, <1>4, <1>6, ReadType, NotNone DEF Idle
  <2>2. job'[d] = Idle \/ job'[d].at = "get"
    BY <1>6
  <2> QED BY <1>2, <2>1, <2>2 DEF ShapeOf, HasRow, Idle
<1>10. StoredInv'
  BY <1>1, <1>2 DEF StoredInv, Served
<1>11. RemoteEventOn(d, k, f)
  BY <1>2, <1>4, <1>5, <1>6, <1>8 DEF RemoteEventOn, erased
<1>12. InotifyOK'
  BY <1>6
<1> QED BY <1>4, <1>7, <1>8, <1>9, <1>10, <1>11, <1>12, TypeParts, AloneShape DEF Struct, Subject

\* What the loss of a notice about f does: nothing else changes, and the loss is known.
LoseNoticeOn(f) ==
    /\ \A x \in Device, g \in File : OwnStill(x, g)
    /\ \A g \in File \ {f} : ServerStill(g)
    /\ UNCHANGED <<disk, row, phase, todo, had, job, meta, store, doomed, madeIn, dropped>>
    /\ SameHeard
    /\ \A e \in Device, k \in Kinds, g \in File : Told(e, k, g)' => Told(e, k, g)
    /\ f \in spoiled' /\ spoiled \subseteq spoiled'

\* A notice that is lost is about one file.
LEMMA LoseNoticeEffect ==
    ASSUME Struct, LoseNotice
    PROVE  Struct' /\ \E f \in File : LoseNoticeOn(f)
<1>1. InotifyOK /\ WireOK /\ RestOK
  BY TypeParts DEF Struct
<1>2. PICK n \in BagToSet(wire) : wire' = wire (-) SetToBag({n}) /\ Spoil({n.file})
  BY DEF LoseNotice
<1> DEFINE f == n.file
<1>3. /\ mishaps < MaxMishaps /\ mishaps' = mishaps + 1
      /\ UNCHANGED <<disk, row, inotify, batch, phase, todo, had, job, meta, store, doomed, madeIn, dropped>>
  BY DEF LoseNotice, client
<1>4. WireOK' /\ TakenFrom(n) /\ f \in File
  BY <1>1, <1>2, TakenEffect
<1>5. f \in spoiled' /\ spoiled \subseteq spoiled' /\ spoiled' \subseteq File
  BY <1>1, <1>2, <1>4 DEF Spoil, RestOK
<1> HIDE DEF f
<1>6. InotifyOK' /\ SameHeard
  BY <1>1, <1>3, SameHeardWhen DEF InotifyOK
<1>7. mishaps' \in 0..MaxMishaps
  BY <1>1, <1>3, BoundAssumption DEF RestOK
<1>8. RestOK'
  BY <1>1, <1>3, <1>5, <1>7 DEF RestOK
<1>9. \A x \in Device, g \in File : OwnStill(x, g)
  BY <1>3, <1>6 DEF OwnStill, SameHeard, HeardStill
<1>10. \A g \in File \ {f} : ServerStill(g)
  BY <1>3, <1>4 DEF f, ServerStill, ToldStill, TakenFrom
<1>11. ShapeInv' /\ StoredInv'
  BY <1>3, <1>6 DEF Struct, ShapeInv, ShapeOf, HasRow, SameHeard, StoredInv, Served
<1>12. \A e \in Device, k \in Kinds, g \in File : Told(e, k, g)' => Told(e, k, g)
  BY <1>4 DEF TakenFrom
<1> QED BY <1>3, <1>4, <1>5, <1>6, <1>8, <1>9, <1>10, <1>11, <1>12, TypeParts DEF LoseNoticeOn, Struct

\* What DeletionManager does: the content of a file that was deleted goes.
PurgeOn(f) ==
    /\ \A x \in Device, g \in File : OwnStill(x, g)
    /\ \A g \in File \ {f} : ServerStill(g)
    /\ UNCHANGED <<disk, row, phase, todo, had, job, meta, madeIn, dropped, spoiled>>
    /\ SameHeard /\ SameTold
    /\ f \in doomed /\ doomed' = doomed \ {f} /\ store'[f] = NoData

\* A purge is about one file in the queue.
LEMMA PurgeEffect ==
    ASSUME Struct, Purge
    PROVE  Struct' /\ \E f \in File : PurgeOn(f)
<1>1. InotifyOK /\ WireOK /\ RestOK /\ StoredInv
  BY TypeParts DEF Struct
<1>2. PICK f \in doomed : doomed' = doomed \ {f} /\ store' = [store EXCEPT ![f] = NoData]
  BY DEF Purge
<1>3. UNCHANGED <<disk, row, inotify, batch, phase, todo, had, job, meta, wire, madeIn, dropped,
                  spoiled, mishaps>>
  BY DEF Purge, client
<1>4. f \in File /\ NoData \in [ver : Nat, data : {None} \cup Content]
  BY <1>1 DEF RestOK, NoData
<1>5. /\ store' \in [File -> [ver : Nat, data : {None} \cup Content]]
      /\ store'[f] = NoData /\ \A g \in File \ {f} : store'[g] = store[g]
  BY <1>1, <1>2, <1>4 DEF RestOK
<1>6. InotifyOK' /\ WireOK' /\ SameHeard /\ SameTold
  BY <1>1, <1>3, SameHeardWhen, SameToldWhen DEF InotifyOK, WireOK
<1>7. RestOK'
  BY <1>1, <1>2, <1>3, <1>5 DEF RestOK
<1>8. \A x \in Device, g \in File : OwnStill(x, g)
  BY <1>3, <1>6 DEF OwnStill, SameHeard, HeardStill
<1>9. \A g \in File \ {f} : ServerStill(g)
  BY <1>2, <1>3, <1>5, <1>6 DEF ServerStill, ToldStill, SameTold
<1>10. StoredInv'
  BY <1>1, <1>5 DEF StoredInv, Served, NoData
<1>11. ShapeInv'
  BY <1>3, <1>6 DEF Struct, ShapeInv, ShapeOf, HasRow, SameHeard
<1>12. PurgeOn(f)
  BY <1>2, <1>3, <1>5, <1>6, <1>8, <1>9 DEF PurgeOn
<1> QED BY <1>4, <1>6, <1>7, <1>10, <1>11, <1>12, TypeParts DEF Struct

\* What a stop does: it loses what the device heard and was told; losses that matter are known.
CrashOn(d) ==
    /\ Alone(d) /\ phase[d] # "off"
    /\ phase'[d] = "off" /\ todo'[d] = {} /\ had'[d] = {} /\ job'[d] = Idle
    /\ \A e \in Device, t \in Types, g \in File : Heard(e, t, g)' <=> e # d /\ Heard(e, t, g)
    /\ \A e \in Device, k \in Kinds, g \in File : Told(e, k, g)' <=> e # d /\ Told(e, k, g)
    /\ UNCHANGED <<disk, row, meta, store, doomed, madeIn, dropped>>
    /\ spoiled \subseteq spoiled'
    /\ \A f \in File \ spoiled' : ~Deleting(f) /\ ~Interrupted(d, f)

\* A stop keeps files and rows.
LEMMA CrashEffect ==
    ASSUME Struct, NEW d \in Device, Crash(d)
    PROVE  Struct' /\ CrashOn(d)
<1>1. InotifyOK /\ WireOK /\ RestOK /\ ShapeOf(d) /\ TypeOK /\ StoredInv
  BY Parts DEF Struct
<1>2. /\ phase[d] # "off" /\ mishaps < MaxMishaps /\ mishaps' = mishaps + 1
      /\ phase' = [phase EXCEPT ![d] = "off"]
      /\ inotify' = [inotify EXCEPT ![d] = <<>>] /\ batch' = [batch EXCEPT ![d] = <<>>]
      /\ todo' = [todo EXCEPT ![d] = {}] /\ had' = [had EXCEPT ![d] = {}]
      /\ wire' = [n \in {m \in BagToSet(wire) : m.to # d} |-> wire[n]]
      /\ Finish(d)
      /\ Spoil({f \in File : Deleting(f) \/ Interrupted(d, f)})
      /\ UNCHANGED <<disk, row, meta, store, doomed, madeIn, dropped>>
  BY DEF Crash
<1>3. job' \in [Device -> Job] /\ SetsOwn(job, job', d, Idle)
  BY <1>1, <1>2, FinishEffect
<1>4. /\ InotifyOK'
      /\ \A e \in Device, t \in Types, g \in File : Heard(e, t, g)' <=> e # d /\ Heard(e, t, g)
  BY <1>1, <1>2, ClearedEffect
<1>5. /\ WireOK'
      /\ \A e \in Device, k \in Kinds, g \in File : Told(e, k, g)' <=> e # d /\ Told(e, k, g)
  BY <1>1, <1>2, DroppedEffect
<1>6. /\ spoiled' \subseteq File /\ spoiled \subseteq spoiled'
      /\ \A f \in File \ spoiled' : ~Deleting(f) /\ ~Interrupted(d, f)
  BY <1>1, <1>2 DEF Spoil, RestOK
<1>7. /\ phase' \in [Device -> {"off", "pull", "push", "on"}] /\ SetsOwn(phase, phase', d, "off")
      /\ todo' \in [Device -> SUBSET File] /\ SetsOwn(todo, todo', d, {})
      /\ had' \in [Device -> SUBSET File] /\ SetsOwn(had, had', d, {})
      /\ mishaps' \in 0..MaxMishaps
  BY <1>1, <1>2, BoundAssumption DEF RestOK, SetsOwn
<1>8. RestOK'
  BY <1>1, <1>2, <1>3, <1>6, <1>7 DEF RestOK
<1>9. Alone(d)
  BY <1>2, <1>3, <1>4, <1>7 DEF Alone, SetsOwn, HeardStill
<1>10. ShapeOf(d)'
  BY <1>3, <1>4, <1>7 DEF ShapeOf, SetsOwn, Idle
<1>11. StoredInv'
  BY <1>1, <1>2 DEF StoredInv, Served
<1>12. CrashOn(d)
  BY <1>2, <1>3, <1>4, <1>5, <1>6, <1>7, <1>9 DEF CrashOn, SetsOwn
<1> QED BY <1>4, <1>5, <1>8, <1>9, <1>10, <1>11, <1>12, TypeParts, AloneShape DEF Struct

\* What the beginning of a boot does: rows that fit the files, and the list of files to pull.
BootOn(d) ==
    /\ Alone(d) /\ phase[d] = "off" /\ phase'[d] = "pull"
    /\ SameHeard /\ SameTold
    /\ \A f \in File : row'[d][f] = IF Exists(d, f) THEN (IF HasRow(d, f) THEN row[d][f] ELSE DefaultRow)
                                       ELSE None
    /\ had'[d] = {f \in File : Exists(d, f)} /\ todo'[d] = meta
    /\ UNCHANGED <<disk, job, meta, store, doomed, madeIn, dropped, spoiled>>

\* After it every file of the device has a row, and every row a file.
LEMMA BootEffect ==
    ASSUME Struct, NEW d \in Device, Boot(d)
    PROVE  Struct' /\ BootOn(d)
<1>1. InotifyOK /\ WireOK /\ RestOK /\ ShapeOf(d) /\ TypeOK /\ StoredInv
  BY Parts DEF Struct
<1> DEFINE R == [f \in File |-> IF Exists(d, f) THEN (IF HasRow(d, f) THEN row[d][f] ELSE DefaultRow) ELSE None]
           H == {f \in File : Exists(d, f)}
<1>2. /\ phase[d] = "off"
      /\ row' = [row EXCEPT ![d] = R] /\ had' = [had EXCEPT ![d] = H]
      /\ todo' = [todo EXCEPT ![d] = meta] /\ phase' = [phase EXCEPT ![d] = "pull"]
      /\ UNCHANGED <<disk, inotify, batch, job, meta, store, doomed, wire, madeIn, dropped, spoiled, mishaps>>
  BY DEF Boot, server
<1>3. /\ R \in [File -> {None} \cup Row] /\ H \in SUBSET File
      /\ \A f \in H : R[f] # None
  BY <1>1, NotNone DEF RestOK, HasRow
<1>4. /\ row' \in [Device -> [File -> {None} \cup Row]] /\ SetsOwn(row, row', d, R)
      /\ had' \in [Device -> SUBSET File] /\ SetsOwn(had, had', d, H)
      /\ todo' \in [Device -> SUBSET File] /\ SetsOwn(todo, todo', d, meta)
      /\ phase' \in [Device -> {"off", "pull", "push", "on"}] /\ SetsOwn(phase, phase', d, "pull")
  <2> HIDE DEF R, H
  <2> QED BY <1>1, <1>2, <1>3 DEF RestOK, SetsOwn
<1>5. InotifyOK' /\ WireOK' /\ SameHeard /\ SameTold
  BY <1>1, <1>2, SameHeardWhen, SameToldWhen DEF InotifyOK, WireOK
<1>6. \A f \in File : row'[d][f] = IF Exists(d, f) THEN (IF HasRow(d, f) THEN row[d][f] ELSE DefaultRow)
                                      ELSE None
  BY <1>4 DEF SetsOwn
<1>7. had'[d] = {f \in File : Exists(d, f)}
  BY <1>4 DEF SetsOwn
<1> HIDE DEF R, H
<1>8. RestOK'
  BY <1>1, <1>2, <1>4 DEF RestOK
<1>9. Alone(d)
  BY <1>2, <1>4, <1>5 DEF Alone, SetsOwn, SameHeard, HeardStill
<1>10. ShapeOf(d)'
  BY <1>1, <1>2, <1>3, <1>4, <1>5 DEF ShapeOf, HasRow, SetsOwn, SameHeard, Idle
<1>11. StoredInv'
  BY <1>1, <1>2 DEF StoredInv, Served
<1>12. BootOn(d)
  BY <1>2, <1>4, <1>5, <1>6, <1>7, <1>9 DEF BootOn, SetsOwn
<1> QED BY <1>5, <1>8, <1>9, <1>10, <1>11, <1>12, TypeParts, AloneShape DEF Struct

\* What pulling one file does: it is compared if the device had it, else fetched.
PullOn(d, f) ==
    /\ Subject(d, f) /\ phase[d] = "pull" /\ job[d] = Idle /\ SameTold
    /\ f \in todo[d] /\ todo'[d] = todo[d] \ {f}
    /\ UNCHANGED <<phase, had, meta, store, doomed, madeIn, dropped>>
    /\ IF f \in had[d] THEN ConflictOn(d, f) ELSE FetchOn(d, f)

\* Pulling is one step about one file of the list.
LEMMA PullEffect ==
    ASSUME Struct, NEW d \in Device, Pull(d)
    PROVE  Struct' /\ \E f \in File : PullOn(d, f)
<1>1. InotifyOK /\ WireOK /\ RestOK /\ ShapeOf(d) /\ TypeOK /\ StoredInv
  BY Parts DEF Struct
<1>2. /\ job[d] = Idle /\ phase[d] = "pull"
      /\ UNCHANGED <<batch, phase, had, meta, store, doomed, wire, madeIn, dropped, mishaps>>
  BY <1>1 DEF Pull, At, ShapeOf, server
<1>3. PICK f \in todo[d] :
         /\ todo' = [todo EXCEPT ![d] = @ \ {f}]
         /\ IF f \in had[d] THEN StartConflict(d, f) ELSE Fetch(d, f) /\ UNCHANGED job
  BY DEF Pull
<1>4. /\ f \in File
      /\ todo' \in [Device -> SUBSET File] /\ SetsOwn(todo, todo', d, todo[d] \ {f})
  BY <1>1, <1>3 DEF RestOK, SetsOwn
<1>5. /\ Around(d, f)
      /\ IF f \in had[d] THEN ConflictOn(d, f) ELSE FetchOn(d, f)
  BY <1>2, <1>3, <1>4, ConflictEffect, FetchEffect
<1>6. WireOK' /\ SameTold
  BY <1>1, <1>2, SameToldWhen DEF WireOK
<1>7. RestOK' /\ InotifyOK'
  BY <1>1, <1>2, <1>4, <1>5 DEF RestOK, Around
<1>8. \/ job'[d] = Idle
      \/ job'[d] = [at |-> "get", file |-> f, seen |-> Read(d, f)] /\ f \in had[d]
  BY <1>2, <1>5 DEF ConflictOn, FetchOn
<1>9. Subject(d, f)
  <2>1. Alone(d)
    BY <1>2, <1>4, <1>5 DEF Alone, Around, SetsOwn
  <2>2. ASSUME NEW g \in File \ {f} PROVE Still(g)
    <3>1. ServerStill(g)
      BY <1>2, <1>6 DEF ServerStill, SameTold, ToldStill
    <3>2. job'[d].file # g /\ job[d].file # g
      BY <1>2, <1>8, NotNone DEF Idle
    <3>3. \A x \in Device : OwnStill(x, g)
      BY <1>2, <1>4, <1>5, <3>2 DEF OwnStill, Around, SetsOwn
    <3> QED BY <3>1, <3>3 DEF Still
  <2> QED BY <2>1, <2>2 DEF Subject
<1>10. ShapeOf(d)'
  <2>1. \A g \in File : row[d][g] # None => row'[d][g] # None
    BY <1>5 DEF Around
  <2>2. Read(d, f) # None
    BY <1>1, <1>4, ReadType, NotNone
  <2>3. had[d] \subseteq File /\ (f \in had[d] => row[d][f] # None)
    BY <1>1 DEF RestOK, ShapeOf, HasRow
  <2>4. \A t \in Types, g \in File : ~Heard(d, t, g)'
    BY <1>2, <1>5 DEF Around
  <2> QED BY <1>1, <1>2, <1>4, <1>8, <2>1, <2>2, <2>3, <2>4 DEF ShapeOf, HasRow, Idle
<1>11. StoredInv'
  BY <1>1, <1>2 DEF StoredInv, Served
<1>12. PullOn(d, f)
  BY <1>2, <1>4, <1>5, <1>6, <1>9, <1>3 DEF PullOn, SetsOwn
<1> QED BY <1>4, <1>6, <1>7, <1>9, <1>10, <1>11, <1>12, TypeParts, AloneShape DEF Struct, Subject

\* What the end of the pull does: the files the metaserver does not know are to push.
PullEndsOn(d) ==
    /\ Alone(d) /\ phase[d] = "pull" /\ phase'[d] = "push" /\ job[d] = Idle
    /\ SameHeard /\ SameTold
    /\ todo[d] = {} /\ todo'[d] = had[d] \ meta
    /\ UNCHANGED <<disk, row, had, job, meta, store, doomed, madeIn, dropped, spoiled>>

\* The end of the pull is about no file.
LEMMA PullEndsEffect ==
    ASSUME Struct, NEW d \in Device, PullEnds(d)
    PROVE  Struct' /\ PullEndsOn(d)
<1>1. InotifyOK /\ WireOK /\ RestOK /\ ShapeOf(d) /\ TypeOK /\ StoredInv
  BY Parts DEF Struct
<1>2. /\ job[d] = Idle /\ phase[d] = "pull" /\ todo[d] = {}
      /\ phase' = [phase EXCEPT ![d] = "push"] /\ todo' = [todo EXCEPT ![d] = had[d] \ meta]
      /\ UNCHANGED <<disk, row, inotify, batch, had, job, meta, store, doomed, wire, madeIn,
                     dropped, spoiled, mishaps>>
  BY <1>1 DEF PullEnds, At, ShapeOf, server
<1>3. /\ todo' \in [Device -> SUBSET File] /\ SetsOwn(todo, todo', d, had[d] \ meta)
      /\ phase' \in [Device -> {"off", "pull", "push", "on"}] /\ SetsOwn(phase, phase', d, "push")
  BY <1>1, <1>2 DEF RestOK, SetsOwn
<1>4. InotifyOK' /\ WireOK' /\ SameHeard /\ SameTold
  BY <1>1, <1>2, SameHeardWhen, SameToldWhen DEF InotifyOK, WireOK
<1>5. RestOK'
  BY <1>1, <1>2, <1>3 DEF RestOK
<1>6. Alone(d)
  BY <1>2, <1>3, <1>4 DEF Alone, SetsOwn, SameHeard, HeardStill
<1>7. ShapeOf(d)'
  BY <1>1, <1>2, <1>3, <1>4 DEF ShapeOf, HasRow, SetsOwn, SameHeard, Idle
<1>8. StoredInv'
  BY <1>1, <1>2 DEF StoredInv, Served
<1>9. PullEndsOn(d)
  BY <1>2, <1>3, <1>4, <1>6 DEF PullEndsOn, SetsOwn
<1> QED BY <1>4, <1>5, <1>6, <1>7, <1>8, <1>9, TypeParts, AloneShape DEF Struct

\* What pushing one file does: the handler creates and uploads it.
PushOn(d, f) ==
    /\ Subject(d, f) /\ phase[d] = "push" /\ job[d] = Idle /\ SameHeard /\ SameTold
    /\ f \in todo[d] /\ todo'[d] = todo[d] \ {f}
    /\ job'[d] = [at |-> "create", file |-> f, seen |-> None]
    /\ UNCHANGED <<disk, row, phase, had, meta, store, doomed, madeIn, dropped, spoiled>>

\* Pushing is one step about one file of the list.
LEMMA PushEffect ==
    ASSUME Struct, NEW d \in Device, Push(d)
    PROVE  Struct' /\ \E f \in File : PushOn(d, f)
<1>1. InotifyOK /\ WireOK /\ RestOK /\ ShapeOf(d) /\ TypeOK /\ StoredInv
  BY Parts DEF Struct
<1>2. /\ job[d] = Idle /\ phase[d] = "push"
      /\ UNCHANGED <<disk, row, inotify, batch, phase, had, meta, store, doomed, wire, madeIn,
                     dropped, spoiled, mishaps>>
  BY <1>1 DEF Push, At, ShapeOf, server
<1>3. PICK f \in todo[d] : todo' = [todo EXCEPT ![d] = @ \ {f}] /\ Go(d, "create", f, None)
  BY DEF Push
<1>4. /\ f \in File /\ f # None /\ row[d][f] # None
      /\ todo' \in [Device -> SUBSET File] /\ SetsOwn(todo, todo', d, todo[d] \ {f})
  <2>1. f \in File
    BY <1>1 DEF RestOK
  <2>2. row[d][f] # None
    BY <1>1, <1>2 DEF ShapeOf, HasRow
  <2>3. todo' \in [Device -> SUBSET File] /\ SetsOwn(todo, todo', d, todo[d] \ {f})
    BY <1>1, <1>3 DEF RestOK, SetsOwn
  <2> QED BY <2>1, <2>2, <2>3, NotNone
<1>5. job' \in [Device -> Job] /\ SetsOwn(job, job', d, [at |-> "create", file |-> f, seen |-> None])
  BY <1>1, <1>3, <1>4, GoEffect DEF Labels
<1>6. InotifyOK' /\ WireOK' /\ SameHeard /\ SameTold
  BY <1>1, <1>2, SameHeardWhen, SameToldWhen DEF InotifyOK, WireOK
<1>7. RestOK'
  BY <1>1, <1>2, <1>4, <1>5 DEF RestOK
<1>8. Subject(d, f)
  <2>1. Alone(d)
    BY <1>2, <1>4, <1>5, <1>6 DEF Alone, SetsOwn, SameHeard, HeardStill
  <2>2. ASSUME NEW g \in File \ {f} PROVE Still(g)
    <3>1. ServerStill(g)
      BY <1>2, <1>6 DEF ServerStill, SameTold, ToldStill
    <3>2. job'[d].file # g /\ job[d].file # g
      BY <1>2, <1>5, NotNone DEF Idle, SetsOwn
    <3>3. \A x \in Device : OwnStill(x, g)
      BY <1>2, <1>4, <1>5, <1>6, <3>2 DEF OwnStill, SameHeard, HeardStill, SetsOwn
    <3> QED BY <3>1, <3>3 DEF Still
  <2> QED BY <2>1, <2>2 DEF Subject
<1>9. ShapeOf(d)'
  <2>1. job'[d].at = "create" /\ job'[d].file = f
    BY <1>5 DEF SetsOwn
  <2>2. todo'[d] \subseteq todo[d] /\ had'[d] = had[d] /\ phase'[d] = "push" /\ row'[d] = row[d]
    BY <1>2, <1>4 DEF SetsOwn
  <2>3. \A t \in Types, g \in File : ~Heard(d, t, g)'
    BY <1>1, <1>2, <1>6 DEF ShapeOf, SameHeard
  <2> QED BY <1>1, <1>2, <1>4, <2>1, <2>2, <2>3 DEF ShapeOf, HasRow
<1>10. StoredInv'
  BY <1>1, <1>2 DEF StoredInv, Served
<1>11. PushOn(d, f)
  BY <1>2, <1>4, <1>5, <1>6, <1>8 DEF PushOn, SetsOwn
<1> QED BY <1>4, <1>6, <1>7, <1>8, <1>9, <1>10, <1>11, TypeParts, AloneShape DEF Struct, Subject

\* What the end of the boot does: the threads are started.
PushEndsOn(d) ==
    /\ Alone(d) /\ phase[d] = "push" /\ phase'[d] = "on" /\ job[d] = Idle
    /\ SameHeard /\ SameTold
    /\ todo[d] = {} /\ todo' = todo /\ had'[d] = {}
    /\ UNCHANGED <<disk, row, job, meta, store, doomed, madeIn, dropped, spoiled>>

\* The end of the boot is about no file.
LEMMA PushEndsEffect ==
    ASSUME Struct, NEW d \in Device, PushEnds(d)
    PROVE  Struct' /\ PushEndsOn(d)
<1>1. InotifyOK /\ WireOK /\ RestOK /\ ShapeOf(d) /\ TypeOK /\ StoredInv
  BY Parts DEF Struct
<1>2. /\ job[d] = Idle /\ phase[d] = "push" /\ todo[d] = {}
      /\ phase' = [phase EXCEPT ![d] = "on"] /\ had' = [had EXCEPT ![d] = {}]
      /\ UNCHANGED <<disk, row, inotify, batch, todo, job, meta, store, doomed, wire, madeIn,
                     dropped, spoiled, mishaps>>
  BY <1>1 DEF PushEnds, At, ShapeOf, server
<1>3. /\ had' \in [Device -> SUBSET File] /\ SetsOwn(had, had', d, {})
      /\ phase' \in [Device -> {"off", "pull", "push", "on"}] /\ SetsOwn(phase, phase', d, "on")
  BY <1>1, <1>2 DEF RestOK, SetsOwn
<1>4. InotifyOK' /\ WireOK' /\ SameHeard /\ SameTold
  BY <1>1, <1>2, SameHeardWhen, SameToldWhen DEF InotifyOK, WireOK
<1>5. RestOK'
  BY <1>1, <1>2, <1>3 DEF RestOK
<1>6. Alone(d)
  BY <1>2, <1>3, <1>4 DEF Alone, SetsOwn, SameHeard, HeardStill
<1>7. ShapeOf(d)'
  BY <1>1, <1>2, <1>3, <1>4 DEF ShapeOf, HasRow, SetsOwn, SameHeard, Idle
<1>8. StoredInv'
  BY <1>1, <1>2 DEF StoredInv, Served
<1>9. PushEndsOn(d)
  BY <1>2, <1>3, <1>4, <1>6 DEF PushEndsOn, SetsOwn
<1> QED BY <1>4, <1>5, <1>6, <1>7, <1>8, <1>9, TypeParts, AloneShape DEF Struct

-----------------------------------------------------------------------------
(* All steps, then what a step may be to one file. *)

\* The steps of a device, with the file each is about.
Acts(d) ==
    \/ \E f \in Main : UserDeletesOn(d, f) \/ \E e \in Edit : UserEditsOn(d, f, e)
    \/ \E f \in File :
         \/ \E t \in Types : LocalEventOn(d, t, f)
         \/ \E k \in Kinds : RemoteEventOn(d, k, f)
         \/ CreateOn(d, f) \/ DeleteOn(d, f) \/ PutOn(d, f) \/ PutFailsOn(d, f) \/ RecordOn(d, f)
         \/ GetOn(d, f) \/ CopyOn(d, f, CopyName[d][f])
         \/ PullOn(d, f) \/ PushOn(d, f)
    \/ CrashOn(d) \/ BootOn(d) \/ PullEndsOn(d) \/ PushEndsOn(d)

\* A step that changes nothing the layers see.
Rests == /\ \A g \in File : Still(g)
         /\ SameHeard /\ SameTold
         /\ UNCHANGED <<disk, row, phase, todo, had, job, meta, store, doomed, madeIn, dropped, spoiled>>

\* Every step of Next, by its effect.
Step == Rests \/ (\E d \in Device : Acts(d)) \/ (\E f \in File : LoseNoticeOn(f) \/ PurgeOn(f))

\* Next, action by action: Struct is inductive, and every step is one of Step.
LEMMA Steps ==
    ASSUME Struct, [Next]_vars
    PROVE  Struct' /\ Step
<1>1. CASE UNCHANGED vars
  <2>1. UNCHANGED <<disk, row, inotify, batch, phase, todo, had, job, meta, store, doomed, wire,
                    madeIn, dropped, spoiled, mishaps>>
    BY <1>1 DEF vars, client, server
  <2>2. SameHeard /\ SameTold
    BY <2>1, SameHeardWhen, SameToldWhen
  <2>3. \A g \in File : Still(g)
    BY <2>1, <2>2 DEF Still, OwnStill, ServerStill, SameHeard, SameTold, HeardStill, ToldStill
  <2>4. InotifyOK' /\ WireOK' /\ RestOK'
    BY <2>1, TypeParts DEF Struct, InotifyOK, WireOK, RestOK
  <2>5. ShapeInv' /\ StoredInv'
    BY <2>1, <2>2 DEF Struct, ShapeInv, ShapeOf, HasRow, SameHeard, StoredInv, Served
  <2> QED BY <2>1, <2>2, <2>3, <2>4, <2>5, TypeParts DEF Struct, Step, Rests
<1>2. ASSUME NEW d \in Device, User(d) PROVE Struct' /\ Acts(d)
  BY <1>2, UserEditsEffect, UserDeletesEffect DEF User, Acts
<1>3. ASSUME NEW d \in Device, Watch(d) PROVE Struct' /\ Rests
  BY <1>3, WatchRests DEF Rests
<1>4. ASSUME NEW d \in Device, Handler(d) PROVE Struct' /\ Acts(d)
  <2>1. CASE LocalEvent(d)
    BY <2>1, LocalEventEffect DEF Acts
  <2>2. CASE RemoteEvent(d)
    BY <2>2, RemoteEventEffect DEF Acts
  <2>3. CASE Work(d)
    BY <2>3, CreateEffect, DeleteEffect, PutEffect, RecordEffect, GetEffect, CopyEffect DEF Work, Acts
  <2>4. CASE Booting(d)
    BY <2>4, BootEffect, PullEffect, PullEndsEffect, PushEffect, PushEndsEffect DEF Booting, Acts
  <2> QED BY <1>4, <2>1, <2>2, <2>3, <2>4 DEF Handler
<1>5. ASSUME NEW d \in Device, PutFails(d) PROVE Struct' /\ Acts(d)
  BY <1>5, PutFailsEffect DEF Acts
<1>6. ASSUME NEW d \in Device, Crash(d) PROVE Struct' /\ Acts(d)
  BY <1>6, CrashEffect DEF Acts
<1>7. CASE LoseNotice
  BY <1>7, LoseNoticeEffect DEF Step
<1>8. CASE Purge
  BY <1>8, PurgeEffect DEF Step
<1> QED BY <1>1, <1>2, <1>3, <1>4, <1>5, <1>6, <1>7, <1>8 DEF Next, Step

\* The steps of d that may change something of f.
ActsOn(d, f) ==
         \/ f \in Main /\ UserDeletesOn(d, f)
         \/ f \in Main /\ \E e \in Edit : UserEditsOn(d, f, e)
         \/ \E t \in Types : LocalEventOn(d, t, f)
         \/ \E k \in Kinds : RemoteEventOn(d, k, f)
         \/ CreateOn(d, f) \/ DeleteOn(d, f) \/ PutOn(d, f) \/ PutFailsOn(d, f) \/ RecordOn(d, f)
         \/ GetOn(d, f) \/ PullOn(d, f) \/ PushOn(d, f)
         \/ \E g \in File : f \in {g, CopyName[d][g]} /\ CopyOn(d, g, CopyName[d][g])
         \/ CrashOn(d) \/ BootOn(d) \/ PullEndsOn(d) \/ PushEndsOn(d)

\* What a step may be to a file without a known loss.
StepOf(f) == Still(f) \/ PurgeOn(f) \/ \E d \in Device : ActsOn(d, f)

\* What a step does to a file, also to one with a known loss.
LEMMA AnySteps ==
    ASSUME Step, NEW f \in File
    PROVE  spoiled \subseteq spoiled' /\ (StepOf(f) \/ LoseNoticeOn(f))
<1>1. CASE Rests
  BY <1>1 DEF Rests, StepOf
<1>2. ASSUME NEW d \in Device, Acts(d) PROVE spoiled \subseteq spoiled' /\ StepOf(f)
  <2>1. ASSUME NEW g \in Main, UserDeletesOn(d, g) \/ \E e \in Edit : UserEditsOn(d, g, e)
        PROVE  spoiled \subseteq spoiled' /\ StepOf(f)
    BY <2>1 DEF UserDeletesOn, UserEditsOn, Subject, StepOf, ActsOn
  <2>2. ASSUME NEW g \in File, \/ \E t \in Types : LocalEventOn(d, t, g)
                               \/ \E k \in Kinds : RemoteEventOn(d, k, g)
        PROVE  spoiled \subseteq spoiled' /\ StepOf(f)
    BY <2>2 DEF LocalEventOn, RemoteEventOn, Subject, ConflictOn, FetchOn, StepOf, ActsOn
  <2>3. ASSUME NEW g \in File, CreateOn(d, g) \/ DeleteOn(d, g) \/ PutOn(d, g) \/ PutFailsOn(d, g)
        PROVE  spoiled \subseteq spoiled' /\ StepOf(f)
    BY <2>3 DEF CreateOn, DeleteOn, PutOn, PutFailsOn, Subject, StepOf, ActsOn
  <2>4. ASSUME NEW g \in File, RecordOn(d, g) \/ GetOn(d, g) \/ PullOn(d, g) \/ PushOn(d, g)
        PROVE  spoiled \subseteq spoiled' /\ StepOf(f)
    BY <2>4 DEF RecordOn, GetOn, PullOn, PushOn, Subject, ConflictOn, FetchOn, StepOf, ActsOn
  <2>5. ASSUME NEW g \in File, CopyOn(d, g, CopyName[d][g])
        PROVE  spoiled \subseteq spoiled' /\ StepOf(f)
    <3>1. spoiled \subseteq spoiled' /\ (f \notin {g, CopyName[d][g]} => Still(f))
      BY <2>5 DEF CopyOn
    <3> QED BY <2>5, <3>1 DEF StepOf, ActsOn
  <2>6. CASE CrashOn(d) \/ BootOn(d) \/ PullEndsOn(d) \/ PushEndsOn(d)
    BY <2>6 DEF CrashOn, BootOn, PullEndsOn, PushEndsOn, StepOf, ActsOn
  <2> QED BY <1>2, <2>1, <2>2, <2>3, <2>4, <2>5, <2>6 DEF Acts
<1>3. ASSUME NEW g \in File,
             LoseNoticeOn(g) PROVE spoiled \subseteq spoiled' /\ (StepOf(f) \/ LoseNoticeOn(f))
  BY <1>3 DEF LoseNoticeOn, Still, StepOf
<1>4. ASSUME NEW g \in File, PurgeOn(g) PROVE spoiled \subseteq spoiled' /\ StepOf(f)
  BY <1>4 DEF PurgeOn, Still, StepOf
<1> QED BY <1>1, <1>2, <1>3, <1>4 DEF Step

\* A loss once known stays known, and a lost notice is one: the other layers, which are
\* about files without a known loss, need not look at it.
LEMMA FileSteps ==
    ASSUME Step, NEW f \in File, f \notin spoiled'
    PROVE  f \notin spoiled /\ StepOf(f)
  BY AnySteps DEF LoseNoticeOn

\* A step of d changes nothing of the other devices but what they are told.
LEMMA ActsAlone ==
    ASSUME NEW d \in Device, NEW f \in File, ActsOn(d, f)
    PROVE  Alone(d)
<1>1. /\ \A e \in Edit : UserEditsOn(d, f, e) => Alone(d)
      /\ \A t \in Types : LocalEventOn(d, t, f) => Alone(d)
      /\ \A k \in Kinds : RemoteEventOn(d, k, f) => Alone(d)
  BY DEF UserEditsOn, LocalEventOn, RemoteEventOn, Subject
<1>2. (\E g \in File : CopyOn(d, g, CopyName[d][g])) => Alone(d)
  BY DEF CopyOn
<1>3. UserDeletesOn(d, f) \/ CreateOn(d, f) \/ DeleteOn(d, f)
      \/ PutOn(d, f) \/ PutFailsOn(d, f) \/ RecordOn(d, f) => Alone(d)
  BY DEF UserDeletesOn, CreateOn, DeleteOn, PutOn, PutFailsOn, RecordOn, Subject
<1>4. GetOn(d, f) \/ PullOn(d, f) \/ PushOn(d, f) \/ CrashOn(d)
      \/ BootOn(d) \/ PullEndsOn(d) \/ PushEndsOn(d) => Alone(d)
  BY DEF GetOn, PullOn, PushOn, CrashOn, BootOn, PullEndsOn, PushEndsOn, Subject
<1> QED BY <1>1, <1>2, <1>3, <1>4 DEF ActsOn

\* In the beginning nothing is heard, told, handled or to be deleted.
LEMMA StructInit ==
    ASSUME Init
    PROVE  /\ Struct
           /\ \A d \in Device, f \in File :
                /\ \A t \in Types : ~Heard(d, t, f)
                /\ \A k \in Kinds : ~Told(d, k, f)
           /\ \A d \in Device : job[d] = Idle
           /\ doomed = {} /\ \A d \in Device : phase[d] = "on" /\ todo[d] = {} /\ had[d] = {}
<1>1. meta \subseteq Main /\ meta \subseteq File
  BY FileAssumption DEF Init
<1>2. Old \in Content /\ NoData \in [ver : Nat, data : {None} \cup Content]
  BY DEF Content, NoData
<1>3. /\ store \in [File -> [ver : Nat, data : {None} \cup Content]]
      /\ StoredInv
  BY <1>1, <1>2 DEF Init, StoredInv, Served, NoData
<1>4. disk \in [Device -> [File -> {None} \cup Content]]
  BY <1>3 DEF Init
<1>5. \A f \in meta : Synced(store[f]) \in Row
  BY <1>1, <1>2 DEF Init, Synced, Row
<1>6. row \in [Device -> [File -> {None} \cup Row]]
  BY <1>5 DEF Init
<1>7. InotifyOK
  BY DEF Init, InotifyOK
<1>8. WireOK /\ DOMAIN wire = {}
  BY DEF Init, WireOK, IsABag, BagToSet, EmptyBag, SetToBag
<1>9. /\ \A d \in Device : /\ job[d] = Idle /\ phase[d] = "on" /\ todo[d] = {} /\ had[d] = {}
                           /\ inotify[d] = <<>> /\ batch[d] = <<>>
      /\ doomed = {}
  BY DEF Init
<1>10. RestOK
  <2>1. job \in [Device -> Job]
    BY DEF Init, Job, Labels, Idle
  <2>2. mishaps \in 0..MaxMishaps
    BY BoundAssumption DEF Init
  <2> QED BY <1>1, <1>3, <1>4, <1>6, <2>1, <2>2 DEF Init, RestOK
<1>11. \A d \in Device, f \in File :
         /\ \A t \in Types : ~Heard(d, t, f)
         /\ \A k \in Kinds : ~Told(d, k, f)
  BY <1>8, <1>9 DEF Heard, Told, ToSet, BagToSet
<1>12. ShapeInv
  BY <1>9, <1>11 DEF ShapeInv, ShapeOf, Idle
<1> QED BY <1>3, <1>7, <1>8, <1>9, <1>10, <1>11, <1>12, TypeParts DEF Struct

-----------------------------------------------------------------------------
(* Copies: no user deletes them. *)

\* Deleting, with notices by device: a form the SMT solver can take apart.
Deletes(f) ==
    \/ f \in doomed
    \/ \E d \in Device : Told(d, "FILE-", f) \/ Doing(d, {"delete"}, f) \/ Heard(d, "deleted", f)

\* Deleting and Deletes are the same, in a state ...
LEMMA DeletingIs ==
    ASSUME TypeOK, NEW f \in File
    PROVE  Deleting(f) <=> Deletes(f)
<1>1. \A n \in BagToSet(wire) : n.to \in Device /\ n = [to |-> n.to, file |-> n.file, type |-> n.type]
  BY DEF TypeOK, Notice
<1>2. ASSUME NEW n \in BagToSet(wire), n.file = f, n.type = "FILE-"
      PROVE  \E d \in Device : Told(d, "FILE-", f)
  BY <1>1, <1>2 DEF Told
<1>3. \A d \in Device : Told(d, "FILE-", f) => \E n \in BagToSet(wire) : n.file = f /\ n.type = "FILE-"
  BY DEF Told
<1> QED BY <1>2, <1>3 DEF Deleting, Deletes, Doing

\* ... and in the next one.
LEMMA DeletingIsToo ==
    ASSUME TypeOK', NEW f \in File
    PROVE  Deleting(f)' <=> Deletes(f)'
<1>1. \A n \in BagToSet(wire)' : n.to \in Device /\ n = [to |-> n.to, file |-> n.file, type |-> n.type]
  BY DEF TypeOK, Notice
<1>2. ASSUME NEW n \in BagToSet(wire)', n.file = f, n.type = "FILE-"
      PROVE  \E d \in Device : Told(d, "FILE-", f)'
  BY <1>1, <1>2 DEF Told
<1>3. \A d \in Device : Told(d, "FILE-", f)' => \E n \in BagToSet(wire)' : n.file = f /\ n.type = "FILE-"
  BY DEF Told
<1> QED BY <1>2, <1>3 DEF Deleting, Deletes, Doing

\* A conflicted copy and whatever else users do not delete.
Plain(c) ==
    /\ c \notin doomed
    /\ \A d \in Device :
         /\ ~Heard(d, "deleted", c) /\ ~Told(d, "FILE-", c)
         /\ ~(job[d].file = c /\ job[d].at = "delete")
         /\ HasRow(d, c) <=> Exists(d, c)
         /\ Heard(d, "created", c) \/ Heard(d, "modified", c) => HasRow(d, c)

\* The second layer: what users do not delete is never being deleted.
CopiesInv == \A c \in File \ Main : Plain(c)

\* A step about another file keeps it.
LEMMA StillPlain ==
    ASSUME NEW c \in File, Still(c), Plain(c)
    PROVE  Plain(c)'
  BY DEF Still, OwnStill, ServerStill, HeardStill, ToldStill, Plain, HasRow, Exists, Types, Kinds

\* So does a step about the file: only users begin a deletion.
LEMMA PlainStep ==
    ASSUME Struct, Step, CopiesInv, NEW c \in File \ Main
    PROVE  Plain(c)'
<1>1. c \in File /\ c # None /\ Plain(c) /\ (StepOf(c) \/ LoseNoticeOn(c))
  BY AnySteps, NotNone DEF CopiesInv
<1>2. ASSUME NEW d \in Device, ActsOn(d, c) PROVE Plain(c)'
  <2>1. ASSUME NEW t \in Types, LocalEventOn(d, t, c) PROVE Plain(c)'
    BY <2>1, <1>1, NotNone DEF LocalEventOn, Subject, Alone, Plain, HasRow, Exists, Idle, HeardStill,
       ToldStill, Types, Kinds, Taken, SameTold
  <2>2. ASSUME NEW k \in Kinds, RemoteEventOn(d, k, c) PROVE Plain(c)'
    BY <2>2, <1>1, NotNone DEF Served, RemoteEventOn, Subject, Alone, Plain, HasRow, Exists, Idle,
       HeardStill, ToldStill, Types, Kinds, Hears, SameHeard, TakenNotice, ConflictOn, FetchOn, Wrote
  <2>3. CASE CreateOn(d, c) \/ DeleteOn(d, c)
    BY <2>3, <1>1, NotNone DEF CreateOn, DeleteOn, Subject, Alone, Plain, HasRow, Exists, Idle,
       HeardStill, ToldStill, Types, Kinds, SameHeard, SameTold, Tells
  <2>4. CASE PutOn(d, c) \/ PutFailsOn(d, c)
    BY <2>4, <1>1, NotNone DEF PutOn, PutFailsOn, Subject, Alone, Plain, HasRow, Exists, Idle, HeardStill,
       ToldStill, Types, Kinds, SameHeard, SameTold, Tells, Stored
  <2>5. CASE RecordOn(d, c) \/ PushOn(d, c)
    BY <2>5, <1>1, NotNone DEF RecordOn, PushOn, Subject, Alone, Plain, HasRow, Exists, Idle, HeardStill,
       ToldStill, Types, Kinds, SameHeard, SameTold
  <2>6. CASE GetOn(d, c)
    BY <2>6, <1>1, NotNone DEF Served, GetOn, Subject, Alone, Plain, HasRow, Exists, Idle, HeardStill,
       ToldStill, Types, Kinds, SameHeard, SameTold, Hears, Wrote
  <2>7. ASSUME NEW f \in File, CopyOn(d, f, CopyName[d][f]) PROVE Plain(c)'
    BY <2>7, <1>1, StillPlain, NotNone DEF CopyOn, Alone, Plain, HasRow, Exists, Idle, HeardStill,
       ToldStill, Types, Kinds, SameTold, Hears, Wrote
  <2>8. CASE PullOn(d, c)
    BY <2>8, <1>1, NotNone DEF Served, PullOn, Subject, Alone, Plain, HasRow, Exists, Idle, HeardStill,
       ToldStill, Types, Kinds, SameTold, SameHeard, Hears, Wrote, ConflictOn, FetchOn
  <2>9. CASE CrashOn(d) \/ BootOn(d)
    BY <2>9, <1>1, NotNone DEF CrashOn, BootOn, Alone, Plain, HasRow, Exists, Idle, HeardStill, ToldStill,
       Types, Kinds, SameHeard, SameTold
  <2>10. CASE PullEndsOn(d) \/ PushEndsOn(d)
    BY <2>10, <1>1, NotNone DEF PullEndsOn, PushEndsOn, Alone, Plain, HasRow, Exists, Idle, HeardStill,
       ToldStill, Types, Kinds, SameHeard, SameTold
  <2> QED BY <1>2, <2>1, <2>2, <2>3, <2>4, <2>5, <2>6, <2>7, <2>8, <2>9, <2>10 DEF ActsOn
<1>3. CASE LoseNoticeOn(c)
  BY <1>3, <1>1 DEF LoseNoticeOn, OwnStill, HeardStill, Plain, HasRow, Exists, Types, Kinds
<1>4. ~PurgeOn(c)
  BY <1>1 DEF PurgeOn, Plain
<1> QED BY <1>1, <1>2, <1>3, <1>4, StillPlain DEF StepOf

-----------------------------------------------------------------------------
(* The life of a file. *)

\* A deletion of f is coming to d, or d has seen it.
Condemned(d, f) == Told(d, "FILE-", f) \/ Heard(d, "deleted", f)

\* While f is being deleted no device does anything else with it: that is what makes
\* the deletion safe, and what an overlapping step would break (it spoils the file).
DeletingOn(d, f) ==
    /\ phase[d] = "on"
    /\ job[d].file = f => job[d].at = "delete"
    /\ ~Heard(d, "created", f) /\ ~Heard(d, "modified", f)
    /\ ~Informed(d, f)
    /\ Heard(d, "deleted", f) => ~Exists(d, f)
    /\ Doing(d, {"delete"}, f) => ~Exists(d, f) /\ ~HasRow(d, f)
    /\ f \notin meta => /\ Exists(d, f) => Told(d, "FILE-", f)
                        /\ HasRow(d, f) => Condemned(d, f)
    /\ f \in meta => ~Told(d, "FILE-", f)

\* While it is being deleted: one life of the file ends before the next begins.
DeletingInv(f) ==
    Deleting(f) =>
      /\ \A d \in Device : DeletingOn(d, f)
      /\ f \in meta => f \notin doomed
      /\ f \notin meta /\ f \notin doomed => store[f] = NoData

\* A file that is not being deleted: file and row go together, and who works with it
\* knows that the metaserver does, or is about to create it there.
LivingOn(d, f) ==
    /\ Heard(d, "created", f) => Exists(d, f)
    /\ HasRow(d, f) => Exists(d, f)
    /\ Exists(d, f) /\ ~HasRow(d, f) => phase[d] = "off" \/ Heard(d, "created", f)
    /\ Doing(d, {"upload", "record", "get", "copy"}, f) => f \in meta
    /\ Informed(d, f) => f \in meta
    /\ phase[d] = "pull" /\ f \in todo[d] => f \in meta
    /\ f \notin meta /\ HasRow(d, f) =>
         \/ Doing(d, {"create"}, f)
         \/ phase[d] = "off"
         \/ phase[d] = "pull" /\ f \in had[d]
         \/ phase[d] = "push" /\ f \in todo[d]

\* ... and the servers keep nothing of a file the metaserver does not know.
LivingInv(f) ==
    ~Deleting(f) =>
      /\ \A d \in Device : LivingOn(d, f)
      /\ f \notin meta => store[f] = NoData

\* The third layer: the life of a file.
LifeOf(f) == DeletingInv(f) /\ LivingInv(f)
LifeInv == \A f \in File \ spoiled : LifeOf(f)

\* What is not busy is nowhere under way.
LEMMA NotBusy ==
    ASSUME TypeOK, NEW f \in File, ~Busy(f)
    PROVE  /\ f \notin doomed /\ ~Deleting(f)
           /\ \A d \in Device : /\ phase[d] = "on" /\ job[d].file # f
                                /\ \A t \in Types : ~Heard(d, t, f)
                                /\ \A k \in Kinds : ~Told(d, k, f)
<1>1. \A d \in Device, k \in Kinds : Told(d, k, f) => \E n \in BagToSet(wire) : n.file = f
  BY DEF Told
<1>2. /\ f \notin doomed
      /\ \A d \in Device : /\ phase[d] = "on" /\ job[d].file # f
                           /\ \A t \in Types : ~Heard(d, t, f)
                           /\ \A k \in Kinds : ~Told(d, k, f)
  BY <1>1 DEF Busy, Types
<1> QED BY <1>2, DeletingIs DEF Deletes, Doing, Types, Kinds

\* Deleting or not, of a file about which nothing changes.
LEMMA StillLife ==
    ASSUME Struct, Struct', NEW f \in File, Still(f)
    PROVE  /\ Deleting(f)' <=> Deleting(f)
           /\ LifeOf(f) => LifeOf(f)'
<1>1. Deleting(f)' <=> Deleting(f)
  BY DeletingIs, DeletingIsToo DEF Deletes, Struct, Still, OwnStill, ServerStill, HeardStill, ToldStill,
     Doing,
     Types, Kinds
<1>2. DeletingInv(f) => DeletingInv(f)'
  BY <1>1 DEF Still, OwnStill, ServerStill, HeardStill, ToldStill, Doing, Types, Kinds, DeletingInv,
     DeletingOn, Exists, HasRow, Informed, Condemned
<1>3. ASSUME LivingInv(f) PROVE LivingInv(f)'
  <2>1. ASSUME NEW d \in Device, LivingOn(d, f) PROVE LivingOn(d, f)'
    BY <2>1 DEF Still, OwnStill, ServerStill, HeardStill, ToldStill, Doing, Types, Kinds, LivingOn,
       Exists, HasRow, Informed
  <2> QED BY <1>1, <1>3, <2>1 DEF LivingInv, Still, ServerStill
<1> QED BY <1>1, <1>2, <1>3 DEF LifeOf

\* A deletion begins when nothing else is under way with the file.
LEMMA UserDeletesLife ==
    ASSUME Struct, Struct', CopiesInv', NEW d \in Device, NEW f \in Main, UserDeletesOn(d, f),
           LifeOf(f), f \notin spoiled'
    PROVE  LifeOf(f)'
<1>1. (Deleting(f) <=> Deletes(f)) /\ (Deleting(f)' <=> Deletes(f)')
  BY DeletingIs, DeletingIsToo, FileAssumption DEF Struct
<1>2. f \in File /\ f # None /\ \A x \in Device : x # d => job'[x] = job[x]
  BY FileAssumption, NotNone DEF UserDeletesOn, Subject, Alone
<1>3. DeletingInv(f)'
  BY <1>1, <1>2, NotBusy DEF Deletes, UserDeletesOn, LifeOf, DeletingInv, DeletingOn, LivingInv, LivingOn,
     Condemned, Subject, Alone, HeardStill, ToldStill, Types, Kinds, Idle, Doing, Exists, HasRow,
     Informed, Hears, SameTold, Struct
<1>4. LivingInv(f)'
  BY <1>1, <1>2, NotBusy DEF Deletes, UserDeletesOn, LifeOf, DeletingInv, DeletingOn, LivingInv, LivingOn,
     Condemned, Subject, Alone, HeardStill, ToldStill, Types, Kinds, Idle, Doing, Exists, HasRow,
     Informed, Hears, SameTold, Struct
<1> QED BY <1>3, <1>4 DEF LifeOf

\* An edit makes no deletion; one that overlaps with a deletion spoils the file.
LEMMA UserEditsLife ==
    ASSUME Struct, Struct', CopiesInv', NEW d \in Device, NEW f \in Main, NEW e \in Edit,
           UserEditsOn(d, f, e),
           LifeOf(f), f \notin spoiled'
    PROVE  LifeOf(f)'
<1>1. (Deleting(f) <=> Deletes(f)) /\ (Deleting(f)' <=> Deletes(f)')
  BY DeletingIs, DeletingIsToo, FileAssumption DEF Struct
<1>2. f \in File /\ f # None /\ \A x \in Device : x # d => job'[x] = job[x]
  BY FileAssumption, NotNone DEF UserEditsOn, Subject, Alone
<1>3. DeletingInv(f)'
  BY <1>1, <1>2 DEF Deletes, UserEditsOn, LifeOf, DeletingInv, DeletingOn, LivingInv, LivingOn, Condemned,
     Subject, Alone, HeardStill, ToldStill, Types, Kinds, Idle, Doing, Exists, HasRow, Informed, Hears,
     SameTold, Struct
<1>4. LivingInv(f)'
  BY <1>1, <1>2 DEF Deletes, UserEditsOn, LifeOf, DeletingInv, DeletingOn, LivingInv, LivingOn, Condemned,
     Subject, Alone, HeardStill, ToldStill, Types, Kinds, Idle, Doing, Exists, HasRow, Informed, Hears,
     SameTold, Struct
<1> QED BY <1>3, <1>4 DEF LifeOf

\* The event of a deletion makes the handler delete; of the others none is left while one is under way.
LEMMA LocalEventLife ==
    ASSUME Struct, Struct', CopiesInv', NEW d \in Device, NEW f \in File, NEW t \in Types,
           LocalEventOn(d, t, f),
           LifeOf(f), f \notin spoiled'
    PROVE  LifeOf(f)'
<1>1. (Deleting(f) <=> Deletes(f)) /\ (Deleting(f)' <=> Deletes(f)')
  BY DeletingIs, DeletingIsToo, FileAssumption DEF Struct
<1>2. f \in File /\ f # None /\ \A x \in Device : x # d => job'[x] = job[x]
  BY FileAssumption, NotNone DEF LocalEventOn, Subject, Alone
<1>3. DeletingInv(f)'
  <2>1. CASE t # "deleted"
    BY <1>1, <1>2, <2>1 DEF Deletes, LocalEventOn, LifeOf, DeletingInv, DeletingOn, LivingInv, LivingOn,
       Condemned, Subject, Alone, HeardStill, ToldStill, Types, Kinds, Idle, Doing, Exists, HasRow,
       Informed, Taken, SameTold
  <2>2. CASE t = "deleted"
    <3>1. Deleting(f) /\ DeletingOn(d, f) /\ \A x \in Device \ {d} : DeletingOn(x, f)
      BY <1>1, <2>2 DEF Deletes, LocalEventOn, LifeOf, DeletingInv
    <3>2. DeletingOn(d, f)'
      BY <3>1, <2>2 DEF LocalEventOn, DeletingOn, Condemned, HeardStill, ToldStill, Types, Kinds, Idle,
         Doing, Exists, HasRow, Informed, Taken, SameTold
    <3>3. ASSUME NEW x \in Device \ {d} PROVE DeletingOn(x, f)'
      BY <3>1, <2>2 DEF LocalEventOn, Subject, Alone, DeletingOn, Condemned, HeardStill, ToldStill, Types,
         Kinds, Doing, Exists, HasRow, Informed, SameTold
    <3> QED BY <3>1, <3>2, <3>3 DEF LocalEventOn, LifeOf, DeletingInv
  <2> QED BY <2>1, <2>2
<1>4. LivingInv(f)'
  <2>1. CASE t = "deleted"
    BY <1>1, <1>2, <2>1 DEF Deletes, Doing, LocalEventOn, LivingInv
  <2>2. CASE t # "deleted"
    <3>1. ~Deleting(f) /\ t \in {"created", "modified"}
      BY <2>2 DEF LocalEventOn, LifeOf, DeletingInv, DeletingOn, Types
    <3>2. \A x \in Device : LivingOn(x, f)
      BY <3>1 DEF LifeOf, LivingInv
    <3>3. LivingOn(d, f)'
      BY <3>1, <3>2, <1>2, NotNone DEF LocalEventOn, LivingOn, HeardStill, ToldStill, Types, Kinds, Idle,
         Doing, Exists, HasRow, Informed, Taken, SameTold
    <3>4. ASSUME NEW x \in Device \ {d} PROVE LivingOn(x, f)'
      BY <3>1, <3>2, <1>2 DEF LocalEventOn, Subject, Alone, LivingOn, HeardStill, ToldStill, Types, Kinds,
         Doing, Exists, HasRow, Informed, SameTold
    <3> QED BY <3>1, <3>3, <3>4 DEF LocalEventOn, LifeOf, LivingInv
  <2> QED BY <2>1, <2>2
<1> QED BY <1>3, <1>4 DEF LifeOf

\* A notice of a deletion takes file and row; no other notice is left while one is under way.
LEMMA RemoteEventLife ==
    ASSUME Struct, Struct', CopiesInv', NEW d \in Device, NEW f \in File, NEW k \in Kinds,
           RemoteEventOn(d, k, f),
           LifeOf(f), f \notin spoiled'
    PROVE  LifeOf(f)'
<1>1. (Deleting(f) <=> Deletes(f)) /\ (Deleting(f)' <=> Deletes(f)')
  BY DeletingIs, DeletingIsToo, FileAssumption DEF Struct
<1>2. f \in File /\ f # None /\ \A x \in Device : x # d => job'[x] = job[x]
  BY FileAssumption, NotNone DEF RemoteEventOn, Subject, Alone
<1>3. DeletingInv(f)'
  BY <1>1, <1>2 DEF Deletes, RemoteEventOn, LifeOf, DeletingInv, DeletingOn, LivingInv, LivingOn,
     Condemned, Subject, Alone, HeardStill, ToldStill, Types, Kinds, Idle, Doing, Exists, HasRow,
     Informed, Hears, SameHeard, TakenNotice, ConflictOn, FetchOn, Wrote, Served, Struct
<1>4. LivingInv(f)'
  BY <1>1, <1>2 DEF Deletes, RemoteEventOn, LifeOf, DeletingInv, DeletingOn, LivingInv, LivingOn,
     Condemned, Subject, Alone, HeardStill, ToldStill, Types, Kinds, Idle, Doing, Exists, HasRow,
     Informed, Hears, SameHeard, TakenNotice, ConflictOn, FetchOn, Wrote, Served, Struct
<1> QED BY <1>3, <1>4 DEF LifeOf

\* createFile is not at work on a file that is being deleted.
LEMMA CreateLife ==
    ASSUME Struct, Struct', CopiesInv', NEW d \in Device, NEW f \in File, CreateOn(d, f),
           LifeOf(f), f \notin spoiled'
    PROVE  LifeOf(f)'
<1>1. (Deleting(f) <=> Deletes(f)) /\ (Deleting(f)' <=> Deletes(f)')
  BY DeletingIs, DeletingIsToo, FileAssumption DEF Struct
<1>2. f \in File /\ f # None /\ \A x \in Device : x # d => job'[x] = job[x]
  BY FileAssumption, NotNone DEF CreateOn, Subject, Alone
<1>3. DeletingInv(f)'
  BY <1>1, <1>2 DEF Deletes, CreateOn, LifeOf, DeletingInv, DeletingOn, LivingInv, LivingOn, Condemned,
     Subject, Alone, HeardStill, ToldStill, Types, Kinds, Idle, Doing, Exists, HasRow, Informed,
     SameHeard, SameTold, Tells, Struct
<1>4. LivingInv(f)'
  BY <1>1, <1>2 DEF Deletes, CreateOn, LifeOf, DeletingInv, DeletingOn, LivingInv, LivingOn, Condemned,
     Subject, Alone, HeardStill, ToldStill, Types, Kinds, Idle, Doing, Exists, HasRow, Informed,
     SameHeard, SameTold, Tells, Struct
<1> QED BY <1>3, <1>4 DEF LifeOf

\* deleteFile tells all other devices that run, and queues the content.
LEMMA DeleteLife ==
    ASSUME Struct, Struct', CopiesInv', NEW d \in Device, NEW f \in File, DeleteOn(d, f),
           LifeOf(f), f \notin spoiled'
    PROVE  LifeOf(f)'
<1>1. (Deleting(f) <=> Deletes(f)) /\ (Deleting(f)' <=> Deletes(f)')
  BY DeletingIs, DeletingIsToo, FileAssumption DEF Struct
<1>2. f \in File /\ f # None /\ \A x \in Device : x # d => job'[x] = job[x]
  BY FileAssumption, NotNone DEF DeleteOn, Subject, Alone
<1>3. DeletingInv(f)'
  BY <1>1, <1>2 DEF Deletes, DeleteOn, LifeOf, DeletingInv, DeletingOn, LivingInv, LivingOn, Condemned,
     Subject, Alone, HeardStill, ToldStill, Types, Kinds, Idle, Doing, Exists, HasRow, Informed,
     SameHeard, SameTold, Tells, Struct
<1>4. LivingInv(f)'
  BY <1>1, <1>2 DEF Deletes, DeleteOn, LifeOf, DeletingInv, DeletingOn, LivingInv, LivingOn, Condemned,
     Subject, Alone, HeardStill, ToldStill, Types, Kinds, Idle, Doing, Exists, HasRow, Informed,
     SameHeard, SameTold, Tells, Struct
<1> QED BY <1>3, <1>4 DEF LifeOf

\* An upload is not at work on a file that is being deleted, and goes nowhere if the metaserver
\* does not know it.
LEMMA PutLife ==
    ASSUME Struct, Struct', CopiesInv', NEW d \in Device, NEW f \in File, PutOn(d, f),
           LifeOf(f), f \notin spoiled'
    PROVE  LifeOf(f)'
<1>1. (Deleting(f) <=> Deletes(f)) /\ (Deleting(f)' <=> Deletes(f)')
  BY DeletingIs, DeletingIsToo, FileAssumption DEF Struct
<1>2. f \in File /\ f # None /\ \A x \in Device : x # d => job'[x] = job[x]
  BY FileAssumption, NotNone DEF PutOn, Subject, Alone
<1>3. DeletingInv(f)'
  BY <1>1, <1>2 DEF Deletes, PutOn, LifeOf, DeletingInv, DeletingOn, LivingInv, LivingOn, Condemned,
     Subject, Alone, HeardStill, ToldStill, Types, Kinds, Idle, Doing, Exists, HasRow, Informed,
     SameHeard, SameTold, Tells, Stored, Struct
<1>4. LivingInv(f)'
  BY <1>1, <1>2 DEF Deletes, PutOn, LifeOf, DeletingInv, DeletingOn, LivingInv, LivingOn, Condemned,
     Subject, Alone, HeardStill, ToldStill, Types, Kinds, Idle, Doing, Exists, HasRow, Informed,
     SameHeard, SameTold, Tells, Stored, Struct
<1> QED BY <1>3, <1>4 DEF LifeOf

\* Nor is one whose reply is late.
LEMMA PutFailsLife ==
    ASSUME Struct, Struct', CopiesInv', NEW d \in Device, NEW f \in File, PutFailsOn(d, f),
           LifeOf(f), f \notin spoiled'
    PROVE  LifeOf(f)'
<1>1. (Deleting(f) <=> Deletes(f)) /\ (Deleting(f)' <=> Deletes(f)')
  BY DeletingIs, DeletingIsToo, FileAssumption DEF Struct
<1>2. f \in File /\ f # None /\ \A x \in Device : x # d => job'[x] = job[x]
  BY FileAssumption, NotNone DEF PutFailsOn, Subject, Alone
<1>3. DeletingInv(f)'
  BY <1>1, <1>2 DEF Deletes, PutFailsOn, LifeOf, DeletingInv, DeletingOn, LivingInv, LivingOn, Condemned,
     Subject, Alone, HeardStill, ToldStill, Types, Kinds, Idle, Doing, Exists, HasRow, Informed,
     SameHeard, SameTold, Tells, Stored, Struct
<1>4. LivingInv(f)'
  BY <1>1, <1>2 DEF Deletes, PutFailsOn, LifeOf, DeletingInv, DeletingOn, LivingInv, LivingOn, Condemned,
     Subject, Alone, HeardStill, ToldStill, Types, Kinds, Idle, Doing, Exists, HasRow, Informed,
     SameHeard, SameTold, Tells, Stored, Struct
<1> QED BY <1>3, <1>4 DEF LifeOf

\* Nor is the record of one.
LEMMA RecordLife ==
    ASSUME Struct, Struct', CopiesInv', NEW d \in Device, NEW f \in File, RecordOn(d, f),
           LifeOf(f), f \notin spoiled'
    PROVE  LifeOf(f)'
<1>1. (Deleting(f) <=> Deletes(f)) /\ (Deleting(f)' <=> Deletes(f)')
  BY DeletingIs, DeletingIsToo, FileAssumption DEF Struct
<1>2. f \in File /\ f # None /\ \A x \in Device : x # d => job'[x] = job[x]
  BY FileAssumption, NotNone DEF RecordOn, Subject, Alone
<1>3. DeletingInv(f)'
  BY <1>1, <1>2 DEF Deletes, RecordOn, LifeOf, DeletingInv, DeletingOn, LivingInv, LivingOn, Condemned,
     Subject, Alone, HeardStill, ToldStill, Types, Kinds, Idle, Doing, Exists, HasRow, Informed,
     SameHeard, SameTold, Struct
<1>4. LivingInv(f)'
  BY <1>1, <1>2 DEF Deletes, RecordOn, LifeOf, DeletingInv, DeletingOn, LivingInv, LivingOn, Condemned,
     Subject, Alone, HeardStill, ToldStill, Types, Kinds, Idle, Doing, Exists, HasRow, Informed,
     SameHeard, SameTold, Struct
<1> QED BY <1>3, <1>4 DEF LifeOf

\* Nor is Conflict.
LEMMA GetLife ==
    ASSUME Struct, Struct', CopiesInv', NEW d \in Device, NEW f \in File, GetOn(d, f),
           LifeOf(f), f \notin spoiled'
    PROVE  LifeOf(f)'
<1>1. (Deleting(f) <=> Deletes(f)) /\ (Deleting(f)' <=> Deletes(f)')
  BY DeletingIs, DeletingIsToo, FileAssumption DEF Struct
<1>2. f \in File /\ f # None /\ \A x \in Device : x # d => job'[x] = job[x]
  BY FileAssumption, NotNone DEF GetOn, Subject, Alone
<1>3. DeletingInv(f)'
  BY <1>1, <1>2 DEF Deletes, GetOn, LifeOf, DeletingInv, DeletingOn, LivingInv, LivingOn, Condemned,
     Subject, Alone, HeardStill, ToldStill, Types, Kinds, Idle, Doing, Exists, HasRow, Informed,
     SameHeard, SameTold, Hears, Wrote, Served, Struct
<1>4. LivingInv(f)'
  BY <1>1, <1>2 DEF Deletes, GetOn, LifeOf, DeletingInv, DeletingOn, LivingInv, LivingOn, Condemned,
     Subject, Alone, HeardStill, ToldStill, Types, Kinds, Idle, Doing, Exists, HasRow, Informed,
     SameHeard, SameTold, Hears, Wrote, Served, Struct
<1> QED BY <1>3, <1>4 DEF LifeOf

\* Nor is a boot.
LEMMA PullLife ==
    ASSUME Struct, Struct', CopiesInv', NEW d \in Device, NEW f \in File, PullOn(d, f),
           LifeOf(f), f \notin spoiled'
    PROVE  LifeOf(f)'
<1>1. (Deleting(f) <=> Deletes(f)) /\ (Deleting(f)' <=> Deletes(f)')
  BY DeletingIs, DeletingIsToo, FileAssumption DEF Struct
<1>2. f \in File /\ f # None /\ \A x \in Device : x # d => job'[x] = job[x]
  BY FileAssumption, NotNone DEF PullOn, Subject, Alone
<1>3. DeletingInv(f)'
  BY <1>1, <1>2 DEF Deletes, PullOn, LifeOf, DeletingInv, DeletingOn, LivingInv, LivingOn, Condemned,
     Subject, Alone, HeardStill, ToldStill, Types, Kinds, Idle, Doing, Exists, HasRow, Informed, SameTold,
     SameHeard, Hears, Wrote, ConflictOn, FetchOn, Served, Struct
<1>4. LivingInv(f)'
  BY <1>1, <1>2 DEF Deletes, PullOn, LifeOf, DeletingInv, DeletingOn, LivingInv, LivingOn, Condemned,
     Subject, Alone, HeardStill, ToldStill, Types, Kinds, Idle, Doing, Exists, HasRow, Informed, SameTold,
     SameHeard, Hears, Wrote, ConflictOn, FetchOn, Served, Struct
<1> QED BY <1>3, <1>4 DEF LifeOf

\* Nor is a push.
LEMMA PushLife ==
    ASSUME Struct, Struct', CopiesInv', NEW d \in Device, NEW f \in File, PushOn(d, f),
           LifeOf(f), f \notin spoiled'
    PROVE  LifeOf(f)'
<1>1. (Deleting(f) <=> Deletes(f)) /\ (Deleting(f)' <=> Deletes(f)')
  BY DeletingIs, DeletingIsToo, FileAssumption DEF Struct
<1>2. f \in File /\ f # None /\ \A x \in Device : x # d => job'[x] = job[x]
  BY FileAssumption, NotNone DEF PushOn, Subject, Alone
<1>3. DeletingInv(f)'
  BY <1>1, <1>2 DEF Deletes, PushOn, LifeOf, DeletingInv, DeletingOn, LivingInv, LivingOn, Condemned,
     Subject, Alone, HeardStill, ToldStill, Types, Kinds, Idle, Doing, Exists, HasRow, Informed, SameTold,
     SameHeard, Struct
<1>4. LivingInv(f)'
  BY <1>1, <1>2 DEF Deletes, PushOn, LifeOf, DeletingInv, DeletingOn, LivingInv, LivingOn, Condemned,
     Subject, Alone, HeardStill, ToldStill, Types, Kinds, Idle, Doing, Exists, HasRow, Informed, SameTold,
     SameHeard, Struct
<1> QED BY <1>3, <1>4 DEF LifeOf

\* A device that stops during a deletion spoils the file.
LEMMA CrashLife ==
    ASSUME Struct, Struct', NEW d \in Device, CrashOn(d), NEW f \in File, LifeOf(f), f \notin spoiled'
    PROVE  LifeOf(f)' /\ ~Deleting(f) /\ ~Deleting(f)'
<1>1. (Deleting(f) <=> Deletes(f)) /\ (Deleting(f)' <=> Deletes(f)')
  BY DeletingIs, DeletingIsToo DEF Struct
<1>2. f # None /\ ShapeOf(d)
  BY Parts, NotNone
<1>3. ~Deleting(f)
  BY DEF CrashOn, LifeOf, DeletingInv, DeletingOn
<1>4. ~Deleting(f)'
  BY <1>1, <1>2, <1>3 DEF Deletes, CrashOn, Alone, Doing, HeardStill, Types, Kinds, Idle
<1>5. \A x \in Device : LivingOn(x, f)
  BY <1>3 DEF LifeOf, LivingInv
<1>6. LivingOn(d, f)'
  BY <1>2, <1>5, NotNone DEF CrashOn, LivingOn, Doing, Idle, Exists, HasRow, Informed, Types, Kinds,
     ShapeOf
<1>7. ASSUME NEW x \in Device \ {d} PROVE LivingOn(x, f)'
  BY <1>5, <1>7 DEF CrashOn, Alone, LivingOn, Doing, Exists, HasRow, Informed, HeardStill, Types, Kinds
<1> QED BY <1>3, <1>4, <1>6, <1>7 DEF CrashOn, LifeOf, DeletingInv, LivingInv

\* No device is off while a file without a known loss is being deleted.
LEMMA BootLife ==
    ASSUME Struct, Struct', NEW d \in Device, BootOn(d), NEW f \in File, LifeOf(f), f \notin spoiled'
    PROVE  LifeOf(f)' /\ ~Deleting(f) /\ ~Deleting(f)'
<1>1. (Deleting(f) <=> Deletes(f)) /\ (Deleting(f)' <=> Deletes(f)')
  BY DeletingIs, DeletingIsToo DEF Struct
<1>2. f # None /\ ShapeOf(d)
  BY Parts, NotNone
<1>3. ~Deleting(f)
  BY DEF BootOn, LifeOf, DeletingInv, DeletingOn
<1>4. ~Deleting(f)'
  BY <1>1, <1>2, <1>3 DEF Deletes, BootOn, Alone, Doing, HeardStill, Types, Kinds, Idle, SameHeard,
     SameTold
<1>5. \A x \in Device : LivingOn(x, f)
  BY <1>3 DEF LifeOf, LivingInv
<1>6. LivingOn(d, f)'
  BY <1>2, <1>5, NotNone DEF BootOn, LivingOn, Doing, Idle, Exists, HasRow, Informed, Types, Kinds,
     ShapeOf, SameHeard, SameTold
<1>7. ASSUME NEW x \in Device \ {d} PROVE LivingOn(x, f)'
  BY <1>5, <1>7 DEF BootOn, Alone, LivingOn, Doing, Exists, HasRow, Informed, HeardStill, Types, Kinds,
     SameHeard, SameTold
<1> QED BY <1>3, <1>4, <1>6, <1>7 DEF BootOn, LifeOf, DeletingInv, LivingInv

\* What the device has and the metaserver does not know is to be pushed.
LEMMA PullEndsLife ==
    ASSUME Struct, Struct', NEW d \in Device, PullEndsOn(d), NEW f \in File, LifeOf(f), f \notin spoiled'
    PROVE  LifeOf(f)' /\ ~Deleting(f) /\ ~Deleting(f)'
<1>1. (Deleting(f) <=> Deletes(f)) /\ (Deleting(f)' <=> Deletes(f)')
  BY DeletingIs, DeletingIsToo DEF Struct
<1>2. f # None /\ ShapeOf(d)
  BY Parts, NotNone
<1>3. ~Deleting(f)
  BY DEF PullEndsOn, LifeOf, DeletingInv, DeletingOn
<1>4. ~Deleting(f)'
  BY <1>1, <1>2, <1>3 DEF Deletes, PullEndsOn, Alone, Doing, HeardStill, Types, Kinds, Idle, SameHeard,
     SameTold
<1>5. \A x \in Device : LivingOn(x, f)
  BY <1>3 DEF LifeOf, LivingInv
<1>6. LivingOn(d, f)'
  BY <1>2, <1>5, NotNone DEF PullEndsOn, LivingOn, Doing, Idle, Exists, HasRow, Informed, Types, Kinds,
     ShapeOf, SameHeard, SameTold
<1>7. ASSUME NEW x \in Device \ {d} PROVE LivingOn(x, f)'
  BY <1>5, <1>7 DEF PullEndsOn, Alone, LivingOn, Doing, Exists, HasRow, Informed, HeardStill, Types,
     Kinds, SameHeard, SameTold
<1> QED BY <1>3, <1>4, <1>6, <1>7 DEF PullEndsOn, LifeOf, DeletingInv, LivingInv

\* When nothing is left to push, the metaserver knows every file.
LEMMA PushEndsLife ==
    ASSUME Struct, Struct', NEW d \in Device, PushEndsOn(d), NEW f \in File, LifeOf(f), f \notin spoiled'
    PROVE  LifeOf(f)' /\ ~Deleting(f) /\ ~Deleting(f)'
<1>1. (Deleting(f) <=> Deletes(f)) /\ (Deleting(f)' <=> Deletes(f)')
  BY DeletingIs, DeletingIsToo DEF Struct
<1>2. f # None /\ ShapeOf(d)
  BY Parts, NotNone
<1>3. ~Deleting(f)
  BY DEF PushEndsOn, LifeOf, DeletingInv, DeletingOn
<1>4. ~Deleting(f)'
  BY <1>1, <1>2, <1>3 DEF Deletes, PushEndsOn, Alone, Doing, HeardStill, Types, Kinds, Idle, SameHeard,
     SameTold
<1>5. \A x \in Device : LivingOn(x, f)
  BY <1>3 DEF LifeOf, LivingInv
<1>6. LivingOn(d, f)'
  BY <1>2, <1>5, NotNone DEF PushEndsOn, LivingOn, Doing, Idle, Exists, HasRow, Informed, Types, Kinds,
     ShapeOf, SameHeard, SameTold
<1>7. ASSUME NEW x \in Device \ {d} PROVE LivingOn(x, f)'
  BY <1>5, <1>7 DEF PushEndsOn, Alone, LivingOn, Doing, Exists, HasRow, Informed, HeardStill, Types,
     Kinds, SameHeard, SameTold
<1> QED BY <1>3, <1>4, <1>6, <1>7 DEF PushEndsOn, LifeOf, DeletingInv, LivingInv

\* A copy begins its life with the handler at createFile.
LEMMA CopyLife ==
    ASSUME Struct, Struct', CopiesInv', NEW d \in Device, NEW g \in File, CopyOn(d, g, CopyName[d][g]),
           NEW f \in {g, CopyName[d][g]}, LifeOf(f), f \notin spoiled'
    PROVE  LifeOf(f)'
<1> DEFINE c == CopyName[d][g]
<1>1. c \in File \ Main /\ f \in File /\ f # None
  BY FileAssumption, NotNone
<1>2. CASE f = c
  <2>1. ~Exists(d, c) /\ Plain(c)'
    BY <1>1, <1>2 DEF CopyOn, CopiesInv
  <2>2. ~Deleting(c)'
    BY <2>1, <1>1, DeletingIsToo DEF Struct, Deletes, Doing, Plain
  <2>3. ~Deleting(c)
    BY <2>1, <2>2, <1>1, DeletingIs, DeletingIsToo
       DEF Struct, Deletes, Doing, CopyOn, Alone, Hears, Wrote, SameTold, HeardStill, Types, Kinds
  <2>4. \A x \in Device : LivingOn(x, c)
    BY <1>2, <2>3 DEF LifeOf, LivingInv
  <2>5. LivingOn(d, c)'
    BY <2>1, <2>4, <1>1 DEF CopyOn, LivingOn, Doing, Exists, HasRow, Informed, Hears, Wrote, SameTold,
       HeardStill, Types, Kinds
  <2>6. ASSUME NEW x \in Device \ {d} PROVE LivingOn(x, c)'
    BY <2>4, <2>6, <1>1 DEF CopyOn, Alone, LivingOn, Doing, Exists, HasRow, Informed, SameTold,
       HeardStill, Types, Kinds
  <2> QED BY <1>2, <2>2, <2>3, <2>5, <2>6 DEF LifeOf, DeletingInv, LivingInv, CopyOn
<1>3. CASE f = g /\ g # c
  <2>1. ~Deleting(f)
    BY <1>3 DEF LifeOf, DeletingInv, DeletingOn, CopyOn
  <2>2. ~Deleting(f)'
    BY <2>1, <1>1, <1>3, DeletingIs, DeletingIsToo DEF Struct, Deletes, Doing, CopyOn, Alone, SameTold,
       HeardStill, Types, Kinds
  <2>3. \A x \in Device : LivingOn(x, f)
    BY <2>1 DEF LifeOf, LivingInv
  <2>4. LivingOn(d, f)'
    BY <2>3, <1>1, <1>3 DEF CopyOn, LivingOn, Doing, Exists, HasRow, Informed, SameTold, HeardStill,
       Types, Kinds
  <2>5. ASSUME NEW x \in Device \ {d} PROVE LivingOn(x, f)'
    BY <2>3, <2>5, <1>1, <1>3 DEF CopyOn, Alone, LivingOn, Doing, Exists, HasRow, Informed, SameTold,
       HeardStill, Types, Kinds
  <2> QED BY <2>1, <2>2, <2>4, <2>5 DEF LifeOf, DeletingInv, LivingInv, CopyOn
<1> QED BY <1>2, <1>3

\* The purge ends a deletion, or is one of its last steps.
LEMMA PurgeLife ==
    ASSUME Struct, Struct', NEW f \in File, PurgeOn(f), LifeOf(f)
    PROVE  LifeOf(f)'
<1>1. Deleting(f) /\ (Deleting(f)' <=> Deletes(f)')
  BY DeletingIs, DeletingIsToo DEF Struct, PurgeOn, Deletes
<1>2. DeletingInv(f) /\ \A x \in Device : DeletingOn(x, f)
  BY <1>1 DEF LifeOf, DeletingInv
<1>3. \A x \in Device : DeletingOn(x, f)'
  BY <1>2 DEF PurgeOn, DeletingOn, SameHeard, SameTold, Doing, Exists, HasRow, Informed, Condemned, Types,
     Kinds
<1>4. f \notin meta /\ f \notin meta' /\ store'[f] = NoData
  BY <1>1, <1>2 DEF PurgeOn, DeletingInv
<1>5. DeletingInv(f)'
  BY <1>3, <1>4 DEF DeletingInv
<1>6. ASSUME ~Deleting(f)', NEW x \in Device PROVE LivingOn(x, f)'
  BY <1>1, <1>2, <1>4, <1>6
     DEF Deletes, PurgeOn, DeletingOn, LivingOn, SameHeard, SameTold, Doing, Exists, HasRow, Informed,
         Condemned, Types, Kinds
<1> QED BY <1>4, <1>5, <1>6 DEF LifeOf, LivingInv

\* The life of a file: every step keeps the third layer.
LEMMA LifeStep ==
    ASSUME Struct, Struct', CopiesInv', Step, LifeInv
    PROVE  LifeInv'
<1> SUFFICES ASSUME NEW f \in File, f \notin spoiled' PROVE LifeOf(f)'
  BY DEF LifeInv
<1>1. f \notin spoiled /\ StepOf(f)
  BY FileSteps
<1>2. LifeOf(f)
  BY <1>1 DEF LifeInv
<1>3. CASE Still(f)
  BY <1>2, <1>3, StillLife
<1>4. CASE PurgeOn(f)
  BY <1>2, <1>4, PurgeLife
<1>5. ASSUME NEW d \in Device, ActsOn(d, f) PROVE LifeOf(f)'
  <2>1. CASE \E g \in File : f \in {g, CopyName[d][g]} /\ CopyOn(d, g, CopyName[d][g])
    BY <1>2, <2>1, CopyLife
  <2>2. CASE CrashOn(d) \/ BootOn(d) \/ PullEndsOn(d) \/ PushEndsOn(d)
    BY <1>2, <2>2, CrashLife, BootLife, PullEndsLife, PushEndsLife
  <2>3. CASE f \in Main /\ (UserDeletesOn(d, f) \/ \E e \in Edit : UserEditsOn(d, f, e))
    BY <1>2, <2>3, UserDeletesLife, UserEditsLife
  <2>4. CASE (\E t \in Types : LocalEventOn(d, t, f)) \/ \E k \in Kinds : RemoteEventOn(d, k, f)
    BY <1>2, <2>4, LocalEventLife, RemoteEventLife
  <2>5. CASE CreateOn(d, f) \/ DeleteOn(d, f) \/ PutOn(d, f) \/ PutFailsOn(d, f)
    BY <1>2, <2>5, CreateLife, DeleteLife, PutLife, PutFailsLife
  <2>6. CASE RecordOn(d, f) \/ GetOn(d, f) \/ PullOn(d, f) \/ PushOn(d, f)
    BY <1>2, <2>6, RecordLife, GetLife, PullLife, PushLife
  <2> QED BY <1>5, <2>1, <2>2, <2>3, <2>4, <2>5, <2>6 DEF ActsOn
<1> QED BY <1>1, <1>3, <1>4, <1>5 DEF StepOf

\* In the beginning no file is being deleted.
LEMMA LifeStart == ASSUME Init PROVE LifeInv /\ CopiesInv
<1>1. /\ Struct
      /\ \A d \in Device, f \in File : /\ \A t \in Types : ~Heard(d, t, f)
                                       /\ \A k \in Kinds : ~Told(d, k, f)
      /\ \A d \in Device : job[d] = Idle /\ phase[d] = "on" /\ todo[d] = {} /\ had[d] = {}
      /\ doomed = {}
  BY StructInit
<1>2. \A f \in File : ~Deleting(f)
  BY <1>1, DeletingIs, NotNone DEF Deletes, Struct, Doing, Idle, Types, Kinds
<1>3. /\ \A d \in Device, f \in File : /\ HasRow(d, f) <=> f \in meta
                                       /\ Exists(d, f) <=> f \in meta
      /\ \A f \in File : f \notin meta => store[f] = NoData
  <2>1. Old \in Content /\ Old # None
    BY NoneAssumption DEF Content
  <2>2. \A f \in File : f \in meta => Served(f)
    BY <2>1 DEF Init, Served
  <2>3. \A f \in meta : f \in File /\ Synced(store[f]) # None
    BY <1>1, <2>2, SyncedType, FileAssumption DEF Init
  <2> QED BY <2>1, <2>3 DEF Init, HasRow, Exists, NoData
<1>4. \A f \in File : LifeOf(f)
  BY <1>1, <1>2, <1>3, NotNone DEF LifeOf, DeletingInv, LivingInv, LivingOn, Doing, Idle, Informed, Types,
     Kinds
<1>5. \A f \in File : Plain(f)
  BY <1>1, <1>3, NotNone DEF Plain, Idle, Types, Kinds
<1> QED BY <1>4, <1>5 DEF LifeInv, CopiesInv

-----------------------------------------------------------------------------
(* Versions. *)

\* A row is never ahead of the servers; one with their version has their content, and
\* an upload that is yet to be recorded is what they have, or older.
VersionOn(d, f) ==
    /\ HasRow(d, f) /\ ~Deleting(f) => row[d][f].ver <= store[f].ver
    /\ HasRow(d, f) /\ Served(f) =>
         /\ row[d][f].ver <= store[f].ver
         /\ row[d][f].ver = store[f].ver => row[d][f].base = store[f].data
    /\ Doing(d, {"record"}, f) =>
         /\ Served(f) /\ row[d][f].ver + 1 <= store[f].ver
         /\ row[d][f].ver + 1 = store[f].ver => job[d].seen = store[f].data
VersionOf(f) == \A d \in Device : VersionOn(d, f)

\* The fourth layer: versions tell contents.
VersionInv == \A f \in File \ spoiled : VersionOf(f)

\* The types that the arithmetic of versions needs.
Counted(f) ==
    /\ store[f].ver \in Nat /\ (Served(f) => store[f].ver > 0 /\ store[f].data \in Content)
    /\ \A x \in Device :
         /\ HasRow(x, f) => row[x][f].ver \in Nat /\ row[x][f].base \in Content
         /\ Read(x, f) \in Content /\ Read(x, f) # None

\* Versions are numbers, contents are contents.
LEMMA Numbers ==
    ASSUME Struct, NEW f \in File
    PROVE  Counted(f)
<1>1. RestOK /\ StoredInv
  BY TypeParts DEF Struct
<1>2. \A x \in Device : HasRow(x, f) => row[x][f] \in Row
  BY <1>1 DEF RestOK, HasRow
<1>3. store[f] \in [ver : Nat, data : {None} \cup Content]
  BY <1>1 DEF RestOK
<1>4. \A x \in Device : Read(x, f) \in Content /\ Read(x, f) # None
  BY <1>1, ReadType, NotNone
<1> QED BY <1>1, <1>2, <1>3, <1>4 DEF Counted, Row, StoredInv, Served

\* Versions of a file about which nothing changes.
LEMMA StillVersion ==
    ASSUME Struct, Struct', NEW f \in File, Still(f), VersionOf(f)
    PROVE  VersionOf(f)'
<1> SUFFICES ASSUME NEW d \in Device PROVE VersionOn(d, f)'
  BY DEF VersionOf
<1>1. VersionOn(d, f) /\ (Deleting(f)' <=> Deleting(f))
  BY StillLife DEF VersionOf
<1> QED BY <1>1 DEF Still, OwnStill, ServerStill, VersionOn, Doing, HasRow, Served

\* When a deletion is over no device has a row.
LEMMA Ended ==
    ASSUME NEW f \in File, LifeOf(f), LifeOf(f)', Deleting(f), ~Deleting(f)', f \notin meta',
           phase' = phase, \A x \in Device : job'[x] = job[x] \/ job'[x] = Idle \/ job'[x].at = "get",
           NEW d \in Device
    PROVE  ~HasRow(d, f)'
<1>1. LivingOn(d, f)' /\ DeletingOn(d, f)
  BY DEF LifeOf, DeletingInv, LivingInv
<1> QED BY <1>1 DEF LivingOn, DeletingOn, Doing, HasRow, Idle

\* Rows and versions are as they were.
LEMMA UserDeletesVersion ==
    ASSUME Struct, Struct', NEW d \in Device, NEW f \in Main, UserDeletesOn(d, f),
           LifeOf(f), LifeOf(f)', VersionOf(f), f \notin spoiled'
    PROVE  VersionOf(f)'
<1>1. (Deleting(f) <=> Deletes(f)) /\ (Deleting(f)' <=> Deletes(f)')
  BY DeletingIs, DeletingIsToo, FileAssumption DEF Struct
<1>2. f \in File /\ f # None /\ \A x \in Device : VersionOn(x, f)
  BY FileAssumption, NotNone DEF VersionOf
<1>3. Counted(f)
  BY <1>2, Numbers
<1>4. \A x \in Device : VersionOn(x, f)'
  BY <1>2, NotBusy DEF UserDeletesOn, Struct, VersionOn, HasRow, Served, Doing
<1> QED BY <1>4 DEF VersionOf

\* An edit changes the file only.
LEMMA UserEditsVersion ==
    ASSUME Struct, Struct', NEW d \in Device, NEW f \in Main, NEW e \in Edit, UserEditsOn(d, f, e),
           LifeOf(f), LifeOf(f)', VersionOf(f), f \notin spoiled'
    PROVE  VersionOf(f)'
<1>1. (Deleting(f) <=> Deletes(f)) /\ (Deleting(f)' <=> Deletes(f)')
  BY DeletingIs, DeletingIsToo, FileAssumption DEF Struct
<1>2. f \in File /\ f # None /\ \A x \in Device : VersionOn(x, f)
  BY FileAssumption, NotNone DEF VersionOf
<1>3. Counted(f)
  BY <1>2, Numbers
<1>4. ~Deleting(f)' => ~Deleting(f)
  BY <1>1, <1>2, NotNone DEF Deletes, UserEditsOn, Subject, Alone, HeardStill, Doing, Types, Kinds, Idle,
     Hears, SameTold
<1>5. VersionOn(d, f)'
  BY <1>1, <1>2, <1>3, <1>4, NotNone DEF Counted, Deletes, UserEditsOn, VersionOn, Doing, HasRow, Served,
     Idle, Synced, DefaultRow, Stored, ConflictOn, FetchOn, LifeOf, DeletingInv, DeletingOn
<1>6. ASSUME NEW x \in Device \ {d} PROVE VersionOn(x, f)'
  BY <1>1, <1>2, <1>3, <1>4, <1>6 DEF Counted, Deletes, UserEditsOn, Subject, Alone, VersionOn, Doing,
     HasRow, Served, Stored, ConflictOn, FetchOn, LifeOf, DeletingInv, DeletingOn
<1> QED BY <1>5, <1>6 DEF VersionOf

\* A row that is made for a new file has version 0.
LEMMA LocalEventVersion ==
    ASSUME Struct, Struct', NEW d \in Device, NEW f \in File, NEW t \in Types, LocalEventOn(d, t, f),
           LifeOf(f), LifeOf(f)', VersionOf(f), f \notin spoiled'
    PROVE  VersionOf(f)'
<1>1. (Deleting(f) <=> Deletes(f)) /\ (Deleting(f)' <=> Deletes(f)')
  BY DeletingIs, DeletingIsToo, FileAssumption DEF Struct
<1>2. f \in File /\ f # None /\ \A x \in Device : VersionOn(x, f)
  BY FileAssumption, NotNone DEF VersionOf
<1>3. Counted(f)
  BY <1>2, Numbers
<1>4. ~Deleting(f)' => ~Deleting(f)
  BY <1>1, <1>2, NotNone DEF Deletes, LocalEventOn, Subject, Alone, HeardStill, Doing, Types, Kinds, Idle,
     Taken, SameTold
<1>5. VersionOn(d, f)'
  BY <1>1, <1>2, <1>3, <1>4, NotNone DEF Counted, Deletes, LocalEventOn, VersionOn, Doing, HasRow, Served,
     Idle, Synced, DefaultRow, Stored, ConflictOn, FetchOn, LifeOf, DeletingInv, DeletingOn
<1>6. ASSUME NEW x \in Device \ {d} PROVE VersionOn(x, f)'
  BY <1>1, <1>2, <1>3, <1>4, <1>6 DEF Counted, Deletes, LocalEventOn, Subject, Alone, VersionOn, Doing,
     HasRow, Served, Stored, ConflictOn, FetchOn, LifeOf, DeletingInv, DeletingOn
<1> QED BY <1>5, <1>6 DEF VersionOf

\* A row that is made from what is served has its version.
LEMMA RemoteEventVersion ==
    ASSUME Struct, Struct', NEW d \in Device, NEW f \in File, NEW k \in Kinds, RemoteEventOn(d, k, f),
           LifeOf(f), LifeOf(f)', VersionOf(f), f \notin spoiled'
    PROVE  VersionOf(f)'
<1>1. (Deleting(f) <=> Deletes(f)) /\ (Deleting(f)' <=> Deletes(f)')
  BY DeletingIs, DeletingIsToo, FileAssumption DEF Struct
<1>2. f \in File /\ f # None /\ \A x \in Device : VersionOn(x, f)
  BY FileAssumption, NotNone DEF VersionOf
<1>3. Counted(f)
  BY <1>2, Numbers
<1>4. Deleting(f) /\ ~Deleting(f)' => \A x \in Device : ~HasRow(x, f)'
  <2> SUFFICES ASSUME Deleting(f), ~Deleting(f)' PROVE \A x \in Device : ~HasRow(x, f)'
    OBVIOUS
  <2>1. f \notin meta'
    BY <1>2 DEF RemoteEventOn, LifeOf, DeletingInv, DeletingOn, Informed, Kinds
  <2>2. phase' = phase /\ \A x \in Device : job'[x] = job[x] \/ job'[x] = Idle \/ job'[x].at = "get"
    BY DEF RemoteEventOn, Subject, Alone, ConflictOn, FetchOn
  <2> QED BY <1>2, <2>1, <2>2, Ended
<1>5. VersionOn(d, f)'
  BY <1>1, <1>2, <1>3, <1>4, NotNone DEF Counted, Deletes, RemoteEventOn, VersionOn, Doing, HasRow,
     Served, Idle, Synced, DefaultRow, Stored, ConflictOn, FetchOn, LifeOf, DeletingInv, DeletingOn
<1>6. ASSUME NEW x \in Device \ {d} PROVE VersionOn(x, f)'
  BY <1>1, <1>2, <1>3, <1>4, <1>6 DEF Counted, Deletes, RemoteEventOn, Subject, Alone, VersionOn, Doing,
     HasRow, Served, Stored, ConflictOn, FetchOn, LifeOf, DeletingInv, DeletingOn
<1> QED BY <1>5, <1>6 DEF VersionOf

\* The metaserver has no versions.
LEMMA CreateVersion ==
    ASSUME Struct, Struct', NEW d \in Device, NEW f \in File, CreateOn(d, f),
           LifeOf(f), LifeOf(f)', VersionOf(f), f \notin spoiled'
    PROVE  VersionOf(f)'
<1>1. (Deleting(f) <=> Deletes(f)) /\ (Deleting(f)' <=> Deletes(f)')
  BY DeletingIs, DeletingIsToo, FileAssumption DEF Struct
<1>2. f \in File /\ f # None /\ \A x \in Device : VersionOn(x, f)
  BY FileAssumption, NotNone DEF VersionOf
<1>3. Counted(f)
  BY <1>2, Numbers
<1>4. ~Deleting(f)' => ~Deleting(f)
  BY <1>1, <1>2, NotNone DEF Deletes, CreateOn, Subject, Alone, HeardStill, Doing, Types, Kinds, Idle,
     SameHeard, SameTold, Tells
<1>5. VersionOn(d, f)'
  BY <1>1, <1>2, <1>3, <1>4, NotNone DEF Counted, Deletes, CreateOn, VersionOn, Doing, HasRow, Served,
     Idle, Synced, DefaultRow, Stored, ConflictOn, FetchOn, LifeOf, DeletingInv, DeletingOn
<1>6. ASSUME NEW x \in Device \ {d} PROVE VersionOn(x, f)'
  BY <1>1, <1>2, <1>3, <1>4, <1>6 DEF Counted, Deletes, CreateOn, Subject, Alone, VersionOn, Doing,
     HasRow, Served, Stored, ConflictOn, FetchOn, LifeOf, DeletingInv, DeletingOn
<1> QED BY <1>5, <1>6 DEF VersionOf

\* Nor has its queue.
LEMMA DeleteVersion ==
    ASSUME Struct, Struct', NEW d \in Device, NEW f \in File, DeleteOn(d, f),
           LifeOf(f), LifeOf(f)', VersionOf(f), f \notin spoiled'
    PROVE  VersionOf(f)'
<1>1. (Deleting(f) <=> Deletes(f)) /\ (Deleting(f)' <=> Deletes(f)')
  BY DeletingIs, DeletingIsToo, FileAssumption DEF Struct
<1>2. f \in File /\ f # None /\ \A x \in Device : VersionOn(x, f)
  BY FileAssumption, NotNone DEF VersionOf
<1>3. Counted(f)
  BY <1>2, Numbers
<1>4. Deleting(f) /\ ~Deleting(f)' => \A x \in Device : ~HasRow(x, f)'
  <2> SUFFICES ASSUME Deleting(f), ~Deleting(f)' PROVE \A x \in Device : ~HasRow(x, f)'
    OBVIOUS
  <2>1. f \notin meta'
    BY <1>2 DEF DeleteOn, LifeOf, DeletingInv, DeletingOn, Informed, Kinds
  <2>2. phase' = phase /\ \A x \in Device : job'[x] = job[x] \/ job'[x] = Idle \/ job'[x].at = "get"
    BY DEF DeleteOn, Subject, Alone, ConflictOn, FetchOn
  <2> QED BY <1>2, <2>1, <2>2, Ended
<1>5. VersionOn(d, f)'
  BY <1>1, <1>2, <1>3, <1>4, NotNone DEF Counted, Deletes, DeleteOn, VersionOn, Doing, HasRow, Served,
     Idle, Synced, DefaultRow, Stored, ConflictOn, FetchOn, LifeOf, DeletingInv, DeletingOn
<1>6. ASSUME NEW x \in Device \ {d} PROVE VersionOn(x, f)'
  BY <1>1, <1>2, <1>3, <1>4, <1>6 DEF Counted, Deletes, DeleteOn, Subject, Alone, VersionOn, Doing,
     HasRow, Served, Stored, ConflictOn, FetchOn, LifeOf, DeletingInv, DeletingOn
<1> QED BY <1>5, <1>6 DEF VersionOf

\* The version stored is one above the row's, so above every row's.
LEMMA PutVersion ==
    ASSUME Struct, Struct', NEW d \in Device, NEW f \in File, PutOn(d, f),
           LifeOf(f), LifeOf(f)', VersionOf(f), f \notin spoiled'
    PROVE  VersionOf(f)'
<1>1. (Deleting(f) <=> Deletes(f)) /\ (Deleting(f)' <=> Deletes(f)')
  BY DeletingIs, DeletingIsToo, FileAssumption DEF Struct
<1>2. f \in File /\ f # None /\ \A x \in Device : VersionOn(x, f)
  BY FileAssumption, NotNone DEF VersionOf
<1>3. Counted(f)
  BY <1>2, Numbers
<1>4. ~Deleting(f)' => ~Deleting(f)
  BY <1>1, <1>2, NotNone DEF Deletes, PutOn, Subject, Alone, HeardStill, Doing, Types, Kinds, Idle,
     SameHeard, SameTold, Tells, Stored
<1>5. VersionOn(d, f)'
  BY <1>1, <1>2, <1>3, <1>4, NotNone DEF Counted, Deletes, PutOn, VersionOn, Doing, HasRow, Served, Idle,
     Stored, LifeOf, DeletingInv, DeletingOn
<1>6. ASSUME NEW x \in Device \ {d} PROVE VersionOn(x, f)'
  <2>1. /\ ~Deleting(f) /\ VersionOn(x, f) /\ row'[x] = row[x] /\ job'[x] = job[x]
        /\ HasRow(x, f) => row[x][f].ver \in Nat
        /\ Doing(x, {"record"}, f) => HasRow(x, f)
    BY <1>2, <1>3, <1>6 DEF Counted, PutOn, Subject, Alone, LifeOf, DeletingInv, DeletingOn, Struct,
       ShapeInv, ShapeOf, Doing
  <2>2. CASE store'[f] = store[f]
    BY <1>4, <2>1, <2>2 DEF VersionOn, Doing, HasRow, Served
  <2>3. CASE store'[f].ver = store[f].ver + 1 /\ store'[f].data # None
    BY <1>3, <2>1, <2>3 DEF Counted, VersionOn, Doing, HasRow, Served
  <2>4. store'[f] = store[f] \/ (store'[f].ver = store[f].ver + 1 /\ store'[f].data # None)
    BY <1>3 DEF Counted, PutOn, Stored
  <2> QED BY <2>2, <2>3, <2>4
<1> QED BY <1>5, <1>6 DEF VersionOf

\* So is one that is stored although the reply is late.
LEMMA PutFailsVersion ==
    ASSUME Struct, Struct', NEW d \in Device, NEW f \in File, PutFailsOn(d, f),
           LifeOf(f), LifeOf(f)', VersionOf(f), f \notin spoiled'
    PROVE  VersionOf(f)'
<1>1. (Deleting(f) <=> Deletes(f)) /\ (Deleting(f)' <=> Deletes(f)')
  BY DeletingIs, DeletingIsToo, FileAssumption DEF Struct
<1>2. f \in File /\ f # None /\ \A x \in Device : VersionOn(x, f)
  BY FileAssumption, NotNone DEF VersionOf
<1>3. Counted(f)
  BY <1>2, Numbers
<1>4. ~Deleting(f)' => ~Deleting(f)
  BY <1>1, <1>2, NotNone DEF Deletes, PutFailsOn, Subject, Alone, HeardStill, Doing, Types, Kinds, Idle,
     SameHeard, SameTold, Tells, Stored
<1>5. VersionOn(d, f)'
  BY <1>1, <1>2, <1>3, <1>4, NotNone DEF Counted, Deletes, PutFailsOn, VersionOn, Doing, HasRow, Served,
     Idle, Stored, LifeOf, DeletingInv, DeletingOn
<1>6. ASSUME NEW x \in Device \ {d} PROVE VersionOn(x, f)'
  <2>1. /\ ~Deleting(f) /\ VersionOn(x, f) /\ row'[x] = row[x] /\ job'[x] = job[x]
        /\ HasRow(x, f) => row[x][f].ver \in Nat
        /\ Doing(x, {"record"}, f) => HasRow(x, f)
    BY <1>2, <1>3, <1>6 DEF Counted, PutFailsOn, Subject, Alone, LifeOf, DeletingInv, DeletingOn, Struct,
       ShapeInv, ShapeOf, Doing
  <2>2. CASE store'[f] = store[f]
    BY <1>4, <2>1, <2>2 DEF VersionOn, Doing, HasRow, Served
  <2>3. CASE store'[f].ver = store[f].ver + 1 /\ store'[f].data # None
    BY <1>3, <2>1, <2>3 DEF Counted, VersionOn, Doing, HasRow, Served
  <2>4. store'[f] = store[f] \/ (store'[f].ver = store[f].ver + 1 /\ store'[f].data # None)
    BY <1>3 DEF Counted, PutFailsOn, Stored
  <2> QED BY <2>2, <2>3, <2>4
<1> QED BY <1>5, <1>6 DEF VersionOf

\* The version recorded is the one that was stored, if nothing was stored since.
LEMMA RecordVersion ==
    ASSUME Struct, Struct', NEW d \in Device, NEW f \in File, RecordOn(d, f),
           LifeOf(f), LifeOf(f)', VersionOf(f), f \notin spoiled'
    PROVE  VersionOf(f)'
<1>1. (Deleting(f) <=> Deletes(f)) /\ (Deleting(f)' <=> Deletes(f)')
  BY DeletingIs, DeletingIsToo, FileAssumption DEF Struct
<1>2. f \in File /\ f # None /\ \A x \in Device : VersionOn(x, f)
  BY FileAssumption, NotNone DEF VersionOf
<1>3. Counted(f)
  BY <1>2, Numbers
<1>4. ~Deleting(f)' => ~Deleting(f)
  BY <1>1, <1>2, NotNone DEF Deletes, RecordOn, Subject, Alone, HeardStill, Doing, Types, Kinds, Idle,
     SameHeard, SameTold
<1>5. VersionOn(d, f)'
  BY <1>1, <1>2, <1>3, <1>4, NotNone DEF Counted, Deletes, RecordOn, VersionOn, Doing, HasRow, Served,
     Idle, Synced, DefaultRow, Stored, ConflictOn, FetchOn, LifeOf, DeletingInv, DeletingOn
<1>6. ASSUME NEW x \in Device \ {d} PROVE VersionOn(x, f)'
  BY <1>1, <1>2, <1>3, <1>4, <1>6 DEF Counted, Deletes, RecordOn, Subject, Alone, VersionOn, Doing,
     HasRow, Served, Stored, ConflictOn, FetchOn, LifeOf, DeletingInv, DeletingOn
<1> QED BY <1>5, <1>6 DEF VersionOf

\* The row is made from what is served, or left.
LEMMA GetVersion ==
    ASSUME Struct, Struct', NEW d \in Device, NEW f \in File, GetOn(d, f),
           LifeOf(f), LifeOf(f)', VersionOf(f), f \notin spoiled'
    PROVE  VersionOf(f)'
<1>1. (Deleting(f) <=> Deletes(f)) /\ (Deleting(f)' <=> Deletes(f)')
  BY DeletingIs, DeletingIsToo, FileAssumption DEF Struct
<1>2. f \in File /\ f # None /\ \A x \in Device : VersionOn(x, f)
  BY FileAssumption, NotNone DEF VersionOf
<1>3. Counted(f)
  BY <1>2, Numbers
<1>4. ~Deleting(f)' => ~Deleting(f)
  BY <1>1, <1>2, NotNone DEF Deletes, GetOn, Subject, Alone, HeardStill, Doing, Types, Kinds, Idle,
     SameHeard, SameTold, Hears, Wrote, VersionOn
<1>5. VersionOn(d, f)'
  BY <1>1, <1>2, <1>3, <1>4, NotNone DEF Counted, Deletes, GetOn, VersionOn, Doing, HasRow, Served, Idle,
     Synced, DefaultRow, Stored, ConflictOn, FetchOn, LifeOf, DeletingInv, DeletingOn
<1>6. ASSUME NEW x \in Device \ {d} PROVE VersionOn(x, f)'
  BY <1>1, <1>2, <1>3, <1>4, <1>6 DEF Counted, Deletes, GetOn, Subject, Alone, VersionOn, Doing, HasRow,
     Served, Stored, ConflictOn, FetchOn, LifeOf, DeletingInv, DeletingOn
<1> QED BY <1>5, <1>6 DEF VersionOf

\* The same of a boot.
LEMMA PullVersion ==
    ASSUME Struct, Struct', NEW d \in Device, NEW f \in File, PullOn(d, f),
           LifeOf(f), LifeOf(f)', VersionOf(f), f \notin spoiled'
    PROVE  VersionOf(f)'
<1>1. (Deleting(f) <=> Deletes(f)) /\ (Deleting(f)' <=> Deletes(f)')
  BY DeletingIs, DeletingIsToo, FileAssumption DEF Struct
<1>2. f \in File /\ f # None /\ \A x \in Device : VersionOn(x, f)
  BY FileAssumption, NotNone DEF VersionOf
<1>3. Counted(f)
  BY <1>2, Numbers
<1>4. ~Deleting(f)' => ~Deleting(f)
  BY <1>1, <1>2, NotNone DEF Deletes, PullOn, Subject, Alone, HeardStill, Doing, Types, Kinds, Idle,
     SameTold, SameHeard, Hears, Wrote, ConflictOn, FetchOn, VersionOn
<1>5. VersionOn(d, f)'
  BY <1>1, <1>2, <1>3, <1>4, NotNone DEF Counted, Deletes, PullOn, VersionOn, Doing, HasRow, Served, Idle,
     Synced, DefaultRow, Stored, ConflictOn, FetchOn, LifeOf, DeletingInv, DeletingOn
<1>6. ASSUME NEW x \in Device \ {d} PROVE VersionOn(x, f)'
  BY <1>1, <1>2, <1>3, <1>4, <1>6 DEF Counted, Deletes, PullOn, Subject, Alone, VersionOn, Doing, HasRow,
     Served, Stored, ConflictOn, FetchOn, LifeOf, DeletingInv, DeletingOn
<1> QED BY <1>5, <1>6 DEF VersionOf

\* A push only makes a job.
LEMMA PushVersion ==
    ASSUME Struct, Struct', NEW d \in Device, NEW f \in File, PushOn(d, f),
           LifeOf(f), LifeOf(f)', VersionOf(f), f \notin spoiled'
    PROVE  VersionOf(f)'
<1>1. (Deleting(f) <=> Deletes(f)) /\ (Deleting(f)' <=> Deletes(f)')
  BY DeletingIs, DeletingIsToo, FileAssumption DEF Struct
<1>2. f \in File /\ f # None /\ \A x \in Device : VersionOn(x, f)
  BY FileAssumption, NotNone DEF VersionOf
<1>3. Counted(f)
  BY <1>2, Numbers
<1>4. ~Deleting(f)' => ~Deleting(f)
  BY <1>1, <1>2, NotNone DEF Deletes, PushOn, Subject, Alone, HeardStill, Doing, Types, Kinds, Idle,
     SameTold, SameHeard
<1>5. VersionOn(d, f)'
  BY <1>1, <1>2, <1>3, <1>4, NotNone DEF Counted, Deletes, PushOn, VersionOn, Doing, HasRow, Served, Idle,
     Synced, DefaultRow, Stored, ConflictOn, FetchOn, LifeOf, DeletingInv, DeletingOn
<1>6. ASSUME NEW x \in Device \ {d} PROVE VersionOn(x, f)'
  BY <1>1, <1>2, <1>3, <1>4, <1>6 DEF Counted, Deletes, PushOn, Subject, Alone, VersionOn, Doing, HasRow,
     Served, Stored, ConflictOn, FetchOn, LifeOf, DeletingInv, DeletingOn
<1> QED BY <1>5, <1>6 DEF VersionOf

\* A stop keeps rows, and drops the record that was due.
LEMMA CrashVersion ==
    ASSUME Struct, Struct', NEW d \in Device, CrashOn(d), NEW f \in File,
           LifeOf(f), VersionOf(f), f \notin spoiled'
    PROVE  VersionOf(f)'
<1>1. ~Deleting(f) /\ ~Deleting(f)' /\ f # None
  BY CrashLife, NotNone
<1>2. /\ store[f].ver \in Nat /\ (Served(f) => store[f].ver > 0 /\ store[f].data \in Content)
      /\ \A x \in Device : VersionOn(x, f)
  BY Numbers DEF Counted, VersionOf
<1>3. VersionOn(d, f)'
  BY <1>1, <1>2, NotNone DEF CrashOn, VersionOn, Doing, HasRow, Served, Idle
<1>4. ASSUME NEW x \in Device \ {d} PROVE VersionOn(x, f)'
  BY <1>1, <1>2, <1>4 DEF CrashOn, Alone, VersionOn, Doing, HasRow, Served
<1> QED BY <1>3, <1>4 DEF VersionOf

\* A row made at boot has version 0.
LEMMA BootVersion ==
    ASSUME Struct, Struct', NEW d \in Device, BootOn(d), NEW f \in File,
           LifeOf(f), VersionOf(f), f \notin spoiled'
    PROVE  VersionOf(f)'
<1>1. ~Deleting(f) /\ ~Deleting(f)' /\ f # None
  BY BootLife, NotNone
<1>2. /\ store[f].ver \in Nat /\ (Served(f) => store[f].ver > 0 /\ store[f].data \in Content)
      /\ \A x \in Device : VersionOn(x, f)
  BY Numbers DEF Counted, VersionOf
<1>3. VersionOn(d, f)'
  <2>1. /\ row'[d][f] \in {row[d][f], DefaultRow, None}
        /\ store'[f] = store[f] /\ job'[d] = job[d]
    BY DEF BootOn
  <2>0. ~Doing(d, {"record"}, f)
    BY <1>1, Parts DEF ShapeOf, BootOn, Doing, Idle
  <2>2. /\ ~Doing(d, {"record"}, f) /\ VersionOn(d, f) /\ (Served(f)' <=> Served(f))
        /\ (Doing(d, {"record"}, f)' <=> Doing(d, {"record"}, f))
    BY <1>2, <2>0, <2>1 DEF Served, Doing
  <2>3. CASE row'[d][f] = row[d][f]
    BY <1>1, <2>1, <2>2, <2>3 DEF VersionOn, HasRow, Doing, Served
  <2>4. CASE row'[d][f] = None
    BY <1>1, <2>1, <2>2, <2>4 DEF VersionOn, HasRow, Doing, Served
  <2>5. CASE row'[d][f] = DefaultRow
    <3>1. row'[d][f].ver = 0
      BY <2>5 DEF DefaultRow
    <3> QED BY <1>1, <1>2, <2>1, <2>2, <3>1 DEF VersionOn, Doing, Served
  <2> QED BY <2>1, <2>3, <2>4, <2>5
<1>4. ASSUME NEW x \in Device \ {d} PROVE VersionOn(x, f)'
  BY <1>1, <1>2, <1>4 DEF BootOn, Alone, VersionOn, Doing, HasRow, Served
<1> QED BY <1>3, <1>4 DEF VersionOf

\* The phases have no versions.
LEMMA PullEndsVersion ==
    ASSUME Struct, Struct', NEW d \in Device, PullEndsOn(d), NEW f \in File,
           LifeOf(f), VersionOf(f), f \notin spoiled'
    PROVE  VersionOf(f)'
<1>1. ~Deleting(f) /\ ~Deleting(f)' /\ f # None
  BY PullEndsLife, NotNone
<1>2. /\ store[f].ver \in Nat /\ (Served(f) => store[f].ver > 0 /\ store[f].data \in Content)
      /\ \A x \in Device : VersionOn(x, f)
  BY Numbers DEF Counted, VersionOf
<1>3. VersionOn(d, f)'
  BY <1>1, <1>2, NotNone DEF PullEndsOn, VersionOn, Doing, HasRow, Served, SameHeard, SameTold
<1>4. ASSUME NEW x \in Device \ {d} PROVE VersionOn(x, f)'
  BY <1>1, <1>2, <1>4 DEF PullEndsOn, Alone, VersionOn, Doing, HasRow, Served
<1> QED BY <1>3, <1>4 DEF VersionOf

\* The phases have no versions.
LEMMA PushEndsVersion ==
    ASSUME Struct, Struct', NEW d \in Device, PushEndsOn(d), NEW f \in File,
           LifeOf(f), VersionOf(f), f \notin spoiled'
    PROVE  VersionOf(f)'
<1>1. ~Deleting(f) /\ ~Deleting(f)' /\ f # None
  BY PushEndsLife, NotNone
<1>2. /\ store[f].ver \in Nat /\ (Served(f) => store[f].ver > 0 /\ store[f].data \in Content)
      /\ \A x \in Device : VersionOn(x, f)
  BY Numbers DEF Counted, VersionOf
<1>3. VersionOn(d, f)'
  BY <1>1, <1>2, NotNone DEF PushEndsOn, VersionOn, Doing, HasRow, Served, SameHeard, SameTold
<1>4. ASSUME NEW x \in Device \ {d} PROVE VersionOn(x, f)'
  BY <1>1, <1>2, <1>4 DEF PushEndsOn, Alone, VersionOn, Doing, HasRow, Served
<1> QED BY <1>3, <1>4 DEF VersionOf

\* The copy's row has version 0.
LEMMA CopyVersion ==
    ASSUME Struct, Struct', NEW d \in Device, NEW g \in File, CopyOn(d, g, CopyName[d][g]),
           NEW f \in {g, CopyName[d][g]}, VersionOf(f), f \notin spoiled'
    PROVE  VersionOf(f)'
<1>1. /\ f \in File /\ f # None /\ CopyName[d][g] \in File
      /\ \A x \in Device : VersionOn(x, f)
  BY FileAssumption, NotNone DEF VersionOf
<1>2. store[f].ver \in Nat /\ (Served(f) => store[f].ver > 0)
  BY <1>1, Numbers DEF Counted
<1>3. Deleting(f)' <=> Deleting(f)
  BY <1>1, DeletingIs, DeletingIsToo DEF Deletes, Struct, CopyOn, Alone, Hears, Wrote, SameTold,
     HeardStill, Doing, Types, Kinds
<1>4. VersionOn(d, f)'
  <2>1. CASE f = CopyName[d][g]
    <3>1. /\ row'[d][f].ver = 0 /\ store'[f] = store[f]
          /\ job'[d].at = "create"
      BY <2>1 DEF CopyOn
    <3> QED BY <1>2, <3>1 DEF VersionOn, Doing, Served
  <2>2. CASE f # CopyName[d][g]
    BY <1>1, <1>3, <2>2 DEF CopyOn, VersionOn, Doing, HasRow, Served
  <2> QED BY <2>1, <2>2
<1>5. ASSUME NEW x \in Device \ {d} PROVE VersionOn(x, f)'
  BY <1>1, <1>3, <1>5 DEF CopyOn, Alone, VersionOn, Doing, HasRow, Served
<1> QED BY <1>4, <1>5 DEF VersionOf

\* A purge is of a file without rows that matter.
LEMMA PurgeVersion ==
    ASSUME Struct, Struct', NEW f \in File, PurgeOn(f), LifeOf(f), VersionOf(f), LifeOf(f)'
    PROVE  VersionOf(f)'
<1>1. /\ Deleting(f)
      /\ \A x \in Device : VersionOn(x, f)
  BY DeletingIs DEF Deletes, Struct, PurgeOn, VersionOf
<1>2. DeletingInv(f) /\ f \notin meta /\ f \notin meta' /\ phase' = phase /\ job' = job
  BY <1>1 DEF PurgeOn, LifeOf, DeletingInv
<1>3. ~Deleting(f)' => \A x \in Device : ~HasRow(x, f)'
  BY <1>1, <1>2, Ended
<1>4. ~Served(f)' /\ \A x \in Device : ~Doing(x, {"record"}, f)'
  BY <1>1, <1>2 DEF PurgeOn, NoData, Served, DeletingInv, DeletingOn, Doing
<1> QED BY <1>3, <1>4 DEF VersionOf, VersionOn, Doing

\* Every step keeps the fourth layer.
LEMMA VersionStep ==
    ASSUME Struct, Struct', Step, LifeInv, LifeInv', VersionInv
    PROVE  VersionInv'
<1> SUFFICES ASSUME NEW f \in File, f \notin spoiled' PROVE VersionOf(f)'
  BY DEF VersionInv
<1>1. f \notin spoiled /\ StepOf(f)
  BY FileSteps
<1>2. LifeOf(f) /\ LifeOf(f)' /\ VersionOf(f)
  BY <1>1 DEF LifeInv, VersionInv
<1>3. CASE Still(f)
  BY <1>2, <1>3, StillVersion
<1>4. CASE PurgeOn(f)
  BY <1>2, <1>4, PurgeVersion
<1>5. ASSUME NEW d \in Device, ActsOn(d, f) PROVE VersionOf(f)'
  <2>1. CASE \E g \in File : f \in {g, CopyName[d][g]} /\ CopyOn(d, g, CopyName[d][g])
    BY <1>2, <2>1, CopyVersion
  <2>2. CASE CrashOn(d) \/ BootOn(d) \/ PullEndsOn(d) \/ PushEndsOn(d)
    BY <1>1, <1>2, <2>2, CrashVersion, BootVersion, PullEndsVersion, PushEndsVersion
  <2>3. CASE f \in Main /\ (UserDeletesOn(d, f) \/ \E e \in Edit : UserEditsOn(d, f, e))
    BY <1>2, <2>3, UserDeletesVersion, UserEditsVersion
  <2>4. CASE (\E t \in Types : LocalEventOn(d, t, f)) \/ \E k \in Kinds : RemoteEventOn(d, k, f)
    BY <1>2, <2>4, LocalEventVersion, RemoteEventVersion
  <2>5. CASE CreateOn(d, f) \/ DeleteOn(d, f) \/ PutOn(d, f) \/ PutFailsOn(d, f)
    BY <1>2, <2>5, CreateVersion, DeleteVersion, PutVersion, PutFailsVersion
  <2>6. CASE RecordOn(d, f) \/ GetOn(d, f) \/ PullOn(d, f) \/ PushOn(d, f)
    BY <1>2, <2>6, RecordVersion, GetVersion, PullVersion, PushVersion
  <2> QED BY <1>5, <2>1, <2>2, <2>3, <2>4, <2>5, <2>6 DEF ActsOn
<1> QED BY <1>1, <1>3, <1>4, <1>5 DEF StepOf

\* In the beginning every row is the servers' content.
LEMMA VersionStart == ASSUME Init PROVE VersionInv
<1>1. /\ Struct
      /\ \A d \in Device : job[d] = Idle
  BY StructInit
<1>2. \A d \in Device, f \in File : HasRow(d, f) => f \in meta /\ row[d][f] = Synced(store[f])
  BY DEF Init, HasRow
<1>3. ASSUME NEW d \in Device, NEW f \in File PROVE VersionOn(d, f)
  <2>1. store[f].ver \in Nat /\ ~Doing(d, {"record"}, f)
    BY <1>1, Numbers DEF Counted, Doing, Idle
  <2>2. HasRow(d, f) => row[d][f].ver = store[f].ver /\ row[d][f].base = store[f].data
    <3>1. HasRow(d, f) => row[d][f] = Synced(store[f])
      BY <1>2
    <3> QED BY <3>1 DEF Synced
  <2> QED BY <2>1, <2>2 DEF VersionOn, Doing, HasRow, Served
<1> QED BY <1>3 DEF VersionInv, VersionOf

-----------------------------------------------------------------------------
(* The end of a deletion, and stores without a content. *)

\* The step that ends a deletion leaves nothing of the file: no row, no handler,
\* nothing at the metaserver.  The layers that are about living files begin anew.
LEMMA Ends ==
    ASSUME Struct, Struct', CopiesInv, NEW f \in File, StepOf(f), f \notin spoiled', LifeOf(f),
           LifeOf(f)',
           Deleting(f), ~Deleting(f)'
    PROVE  f \notin meta' /\ \A x \in Device : ~HasRow(x, f)' /\ job'[x].file # f
<1>1. (Deleting(f) <=> Deletes(f)) /\ (Deleting(f)' <=> Deletes(f)')
  BY DeletingIs, DeletingIsToo DEF Struct
<1>2. /\ f # None /\ \A x \in Device : DeletingOn(x, f)
      /\ f \in meta => f \notin doomed
  BY NotNone DEF LifeOf, DeletingInv
<1>3. /\ f \notin meta' /\ phase' = phase
      /\ \A x \in Device : job'[x] = job[x] \/ job'[x] = Idle
  <2>1. ~Still(f)
    BY StillLife
  <2>2. CASE PurgeOn(f)
    BY <1>2, <2>2 DEF PurgeOn
  <2>3. ASSUME NEW d \in Device, DeleteOn(d, f)
        PROVE  f \notin meta' /\ phase' = phase /\ \A x \in Device : job'[x] = job[x] \/ job'[x] = Idle
    BY <2>3 DEF DeleteOn, Subject, Alone
  <2>4. ASSUME NEW d \in Device, NEW k \in Kinds, RemoteEventOn(d, k, f)
        PROVE  f \notin meta' /\ phase' = phase /\ \A x \in Device : job'[x] = job[x] \/ job'[x] = Idle
    BY <1>2, <2>4 DEF RemoteEventOn, Subject, Alone, DeletingOn, Informed, Kinds
  <2>5. ASSUME NEW d \in Device, ActsOn(d, f), ~DeleteOn(d, f), \A k \in Kinds : ~RemoteEventOn(d, k, f)
        PROVE  FALSE
    <3>1. phase[d] = "on" /\ (job[d].file = f => job[d].at = "delete") /\ DeletingOn(d, f)
      BY <1>2 DEF DeletingOn
    <3>2. ~(CreateOn(d, f) \/ PutOn(d, f) \/ PutFailsOn(d, f) \/ RecordOn(d, f) \/ GetOn(d, f))
      BY <3>1 DEF CreateOn, PutOn, PutFailsOn, RecordOn, GetOn
    <3>3. ~(BootOn(d) \/ PullEndsOn(d) \/ PushEndsOn(d) \/ PullOn(d, f) \/ PushOn(d, f))
      BY <3>1 DEF BootOn, PullEndsOn, PushEndsOn, PullOn, PushOn
    <3>4. ~(CrashOn(d) \/ UserDeletesOn(d, f) \/ \E e \in Edit : UserEditsOn(d, f, e))
      BY NotBusy DEF CrashOn, UserDeletesOn, UserEditsOn, Struct
    <3>5. ASSUME NEW t \in Types, LocalEventOn(d, t, f) PROVE FALSE
      <4>1. t = "deleted"
        BY <3>1, <3>5 DEF LocalEventOn, DeletingOn, Types
      <4>2. job'[d].file = f /\ job'[d].at = "delete"
        BY <3>5, <4>1 DEF LocalEventOn
      <4> QED BY <1>1, <4>2 DEF Deletes, Doing
    <3>6. ASSUME NEW g \in File, f \in {g, CopyName[d][g]}, CopyOn(d, g, CopyName[d][g]) PROVE FALSE
      <4>1. f # g
        BY <3>1, <3>6 DEF CopyOn
      <4>2. f \in File \ Main
        BY <3>6, <4>1, FileAssumption
      <4> QED BY <1>1, <4>2 DEF Deletes, CopiesInv, Plain, Doing
    <3> QED BY <2>5, <3>2, <3>3, <3>4, <3>5, <3>6 DEF ActsOn
  <2> QED BY <2>1, <2>2, <2>3, <2>4, <2>5 DEF StepOf
<1>4. \A x \in Device : ~HasRow(x, f)'
  BY <1>3, Ended
<1>5. \A x \in Device : job'[x].file # f
  BY <1>1, <1>2, <1>3 DEF Deletes, Doing, DeletingOn, Idle
<1> QED BY <1>3, <1>4, <1>5

\* What is not served has no version: the next upload begins at version 0.
EmptyOf(f) == ~Served(f) => store[f].ver = 0

\* The fifth layer.
EmptyInv == \A f \in File \ spoiled : EmptyOf(f)

\* Only a purge takes a content away, and it takes the version too.
LEMMA EmptyStep ==
    ASSUME Struct, Step, EmptyInv
    PROVE  EmptyInv'
<1> SUFFICES ASSUME NEW f \in File, f \notin spoiled' PROVE EmptyOf(f)'
  BY DEF EmptyInv
<1>1. StepOf(f) /\ EmptyOf(f)
  BY FileSteps DEF EmptyInv
<1>2. \A x \in Device : Read(x, f) # None
  BY Numbers DEF Counted
<1>3. store'[f] = store[f] \/ store'[f] = NoData \/ store'[f].data # None
  <2>1. CASE Still(f)
    BY <2>1 DEF Still, ServerStill
  <2>2. CASE PurgeOn(f)
    BY <2>2 DEF PurgeOn
  <2>3. ASSUME NEW d \in Device, ActsOn(d, f) PROVE store'[f] = store[f] \/ store'[f].data # None
    <3>1. PutOn(d, f) \/ PutFailsOn(d, f) => store'[f] = store[f] \/ store'[f].data # None
      BY <1>2 DEF PutOn, PutFailsOn, Stored
    <3>2. CASE ~PutOn(d, f) /\ ~PutFailsOn(d, f)
      BY <2>3, <3>2 DEF ActsOn, UserDeletesOn, UserEditsOn, LocalEventOn, RemoteEventOn, CreateOn,
         DeleteOn, RecordOn, GetOn, PullOn, PushOn, CopyOn, CrashOn, BootOn, PullEndsOn, PushEndsOn
    <3> QED BY <3>1, <3>2
  <2> QED BY <1>1, <2>1, <2>2, <2>3 DEF StepOf
<1> QED BY <1>1, <1>3 DEF EmptyOf, Served, NoData

\* In the beginning there are no half stored files.
LEMMA EmptyStart == ASSUME Init PROVE EmptyInv
<1>1. \A f \in File : f \notin meta => store[f] = NoData
  BY DEF Init
<1>2. \A f \in File : f \in meta => store[f].data = Old /\ Old \in Content
  BY DEF Init, Content
<1> QED BY <1>1, <1>2, NotNone, NoneAssumption DEF EmptyInv, EmptyOf, Served, NoData

\* What holds of a file that is not being deleted, before a step and after it.
Live(f) ==
    /\ ~Deleting(f) /\ \A x \in Device : LivingOn(x, f)
    /\ f \notin meta => ~Served(f)

\* It is what the third layer says.
LEMMA LiveWhen ==
    ASSUME NEW f \in File
    PROVE  /\ LifeOf(f) /\ ~Deleting(f) => Live(f)
           /\ LifeOf(f)' /\ ~Deleting(f)' => Live(f)'
  BY DEF LifeOf, LivingInv, Live, Served, NoData

\* What the lower layers say of f and d, in the form the layers above cite.
Known(d, f) ==
    /\ store[f].ver \in Nat /\ (Served(f) => store[f].ver > 0 /\ store[f].data \in Content)
    /\ HasRow(d, f) => row[d][f].ver \in Nat /\ row[d][f].base \in Content
    /\ Read(d, f) \in Content /\ Read(d, f) # None
    /\ Exists(d, f) => Read(d, f) = disk[d][f]
    /\ ~Served(f) => store[f].ver = 0
    /\ f \notin meta => ~Served(f)

\* It holds of every file that is not being deleted.
LEMMA KnownOf ==
    ASSUME Struct, NEW d \in Device, NEW f \in File, EmptyOf(f), Live(f)
    PROVE  Known(d, f)
  BY Numbers DEF Counted, EmptyOf, Live, Known, Read

-----------------------------------------------------------------------------
(* Agreement: every difference is on somebody's list. *)

\* The file has something that no upload of it recorded.
Dirty(d, f) == ~row[d][f].hashed \/ row[d][f].base # disk[d][f]

\* The boot of d is yet to look at f.
Pulling(d, f) == phase[d] = "pull" /\ f \in todo[d]

\* Whatever d and the servers do not agree on, somebody is about to handle: an event,
\* a notice, the handler, or the next boot.
AgreeOn(d, f) ==
    /\ HasRow(d, f) /\ Served(f) /\ Dirty(d, f) =>
         \/ Heard(d, "modified", f) \/ Informed(d, f)
         \/ Doing(d, {"create", "upload", "record", "get"}, f)
         \/ phase[d] = "off" \/ Pulling(d, f)
    /\ Doing(d, {"record", "get"}, f) => disk[d][f] = job[d].seen \/ Heard(d, "modified", f)
    /\ HasRow(d, f) /\ row[d][f].ver # store[f].ver =>
         \/ Informed(d, f)
         \/ Doing(d, {"create", "upload", "get"}, f)
         \/ Doing(d, {"record"}, f) /\ row[d][f].ver + 1 = store[f].ver
         \/ phase[d] = "off" \/ Pulling(d, f)
    /\ f \in meta /\ Served(f) /\ ~HasRow(d, f) =>
         Informed(d, f) \/ phase[d] = "off" \/ Pulling(d, f)

\* d is to upload f.
Bearer(d, f) ==
    \/ Doing(d, {"create", "upload", "get"}, f)
    \/ Heard(d, "created", f)
    \/ Heard(d, "modified", f) /\ HasRow(d, f) /\ ~row[d][f].hashed
    \/ phase[d] = "off" /\ Exists(d, f)
    \/ Pulling(d, f) /\ f \in had[d]

\* A file the metaserver knows and nobody serves is about to be uploaded by somebody.
Borne(f) == f \in meta /\ ~Served(f) => \E d \in Device : Bearer(d, f)

\* What QuietAgree needs: a difference is always on somebody's list.
Agreed(f) == Borne(f) /\ \A d \in Device : AgreeOn(d, f)

\* The sixth layer: no difference is forgotten.
AgreeInv == \A f \in File \ spoiled : ~Deleting(f) => Agreed(f)

\* A step of d keeps the layer if it does for d, if what d stores is told to the others,
\* and if d hands over the upload it owes.
LEMMA AgreedWhen ==
    ASSUME NEW d \in Device, NEW f \in File, Alone(d), Live(f), Agreed(f),
           \A x \in Device \ {d} : Informed(x, f) => Informed(x, f)',
           f \in meta => f \in meta',
           \/ store'[f] = store[f]
           \/ /\ Served(f)'
              /\ \A x \in Device \ {d} : phase[x] = "off" \/ Informed(x, f)',
           AgreeOn(d, f)',
           f \in meta' /\ ~Served(f)' /\ (f \notin meta \/ Bearer(d, f)) => \E x \in Device : Bearer(x, f)'
    PROVE  Agreed(f)'
<1>1. ASSUME NEW x \in Device \ {d} PROVE AgreeOn(x, f)'
  <2>1. /\ disk'[x] = disk[x] /\ row'[x] = row[x] /\ job'[x] = job[x]
        /\ phase'[x] = phase[x] /\ todo'[x] = todo[x]
        /\ Heard(x, "modified", f)' <=> Heard(x, "modified", f)
    BY <1>1 DEF Alone, HeardStill, Types
  <2>2. AgreeOn(x, f) /\ (f \notin meta => ~Served(f)) /\ (Informed(x, f) => Informed(x, f)')
    BY <1>1 DEF Agreed, Live
  <2>3. CASE store'[f] = store[f]
    BY <2>1, <2>2, <2>3 DEF AgreeOn, HasRow, Served, Dirty, Pulling, Doing
  <2>4. CASE phase[x] = "off" \/ Informed(x, f)'
    BY <2>1, <2>2, <2>4 DEF AgreeOn, HasRow, Served, Dirty, Pulling, Doing
  <2> QED BY <1>1, <2>3, <2>4
<1>2. Borne(f)'
  <2>1. ASSUME NEW x \in Device \ {d}, Bearer(x, f) PROVE Bearer(x, f)'
    BY <2>1 DEF Alone, HeardStill, Types, Bearer, HasRow, Exists, Pulling, Doing
  <2> QED BY <2>1 DEF Agreed, Borne, Served
<1> QED BY <1>1, <1>2 DEF Agreed

\* A step about another file keeps it.
LEMMA StillAgreed ==
    ASSUME Struct, Struct', NEW f \in File, Still(f), Agreed(f)
    PROVE  Agreed(f)'
<1>1. \A d \in Device : AgreeOn(d, f)'
  BY DEF Agreed, AgreeOn, Still, OwnStill, ServerStill, HeardStill, ToldStill, HasRow, Served, Dirty,
     Pulling, Doing, Informed, Types, Kinds
<1>2. \A d \in Device : Bearer(d, f) => Bearer(d, f)'
  BY DEF Bearer, Still, OwnStill, HeardStill, HasRow, Exists, Pulling, Doing, Types
<1> QED BY <1>1, <1>2 DEF Agreed, Borne, Still, ServerStill, Served

\* An edit is heard, or the next boot finds it.
LEMMA UserEditsAgreed ==
    ASSUME Struct, Struct', NEW d \in Device, NEW f \in Main, NEW e \in Edit, UserEditsOn(d, f, e),
           Live(f), Live(f)', VersionOf(f), VersionOf(f)', EmptyOf(f), EmptyOf(f)', Agreed(f),
           f \notin spoiled'
    PROVE  Agreed(f)'
<1>1. /\ f \in File /\ f # None /\ VersionOn(d, f) /\ ShapeOf(d)
      /\ AgreeOn(d, f) /\ LivingOn(d, f)
  BY FileAssumption, NotNone, Parts DEF VersionOf, Agreed, Live
<1>2. Known(d, f)
  BY <1>1, KnownOf
<1>3. Alone(d) /\ (f \in meta => f \in meta') /\ \A x \in Device \ {d} : Informed(x, f) => Informed(x, f)'
  BY <1>1 DEF UserEditsOn, Subject, Alone, Informed, Kinds, Types, Hears, SameTold
<1>4. store'[f] = store[f]
  BY DEF UserEditsOn
<1>5. AgreeOn(d, f)'
  BY <1>1, <1>2, <1>4, NotNone DEF Known, UserEditsOn, AgreeOn, HasRow, Exists, Served, Dirty, Pulling,
     Doing, Informed, Idle, LivingOn, VersionOn, ShapeOf, Types, Kinds, Hears, SameTold
<1>6. f \in meta' /\ ~Served(f)' /\ (f \notin meta \/ Bearer(d, f)) => \E x \in Device : Bearer(x, f)'
  BY <1>1, <1>2, <1>4, NotNone DEF Known, UserEditsOn, Bearer, HasRow, Exists, Served, Pulling, Doing,
     Idle, LivingOn, VersionOn, ShapeOf, Types, Kinds, Hears, SameTold
<1> QED BY <1>1, <1>3, <1>4, <1>5, <1>6, AgreedWhen

\* The event is handed to the handler, unless row and file agree.
LEMMA LocalEventAgreed ==
    ASSUME Struct, Struct', NEW d \in Device, NEW f \in File, NEW t \in Types, LocalEventOn(d, t, f),
           Live(f), Live(f)', VersionOf(f), VersionOf(f)', EmptyOf(f), EmptyOf(f)', Agreed(f),
           f \notin spoiled'
    PROVE  Agreed(f)'
<1>1. /\ f \in File /\ f # None /\ VersionOn(d, f) /\ ShapeOf(d)
      /\ AgreeOn(d, f) /\ LivingOn(d, f)
  BY FileAssumption, NotNone, Parts DEF VersionOf, Agreed, Live
<1>2. Known(d, f)
  BY <1>1, KnownOf
<1>3. Alone(d) /\ (f \in meta => f \in meta') /\ \A x \in Device \ {d} : Informed(x, f) => Informed(x, f)'
  BY <1>1 DEF LocalEventOn, Subject, Alone, Informed, Kinds, Types, Taken, SameTold, DefaultRow
<1>4. store'[f] = store[f]
  BY DEF LocalEventOn
<1>5. /\ Informed(d, f)' <=> Informed(d, f)
      /\ \A u \in Types \ {t} : Heard(d, u, f) => Heard(d, u, f)'
      /\ disk' = disk /\ phase' = phase /\ todo' = todo /\ had' = had /\ meta' = meta
      /\ phase[d] = "on" /\ job[d] = Idle
  BY <1>1 DEF LocalEventOn, Taken, SameTold, Informed, Kinds
<1>6. t # "deleted"
  BY <1>1, DeletingIs DEF Deletes, Live, LocalEventOn, Struct, Types
<1>7. ASSUME t = "created" PROVE AgreeOn(d, f)' /\ Bearer(d, f)'
  <2>1. job'[d].file = f /\ job'[d].at = "create" /\ HasRow(d, f)'
    BY <1>7, NotNone DEF LocalEventOn, HasRow
  <2> QED BY <1>1, <1>5, <2>1 DEF AgreeOn, Bearer, Doing
<1>8. ASSUME t = "modified" PROVE AgreeOn(d, f)' /\ (Bearer(d, f) => Bearer(d, f)')
  <2>1. /\ row' = row
        /\ IF row[d][f] = None \/ (row[d][f].hashed /\ row[d][f].base = Read(d, f)) THEN job' = job
           ELSE job'[d] = [at |-> "upload", file |-> f, seen |-> None]
    BY <1>8 DEF LocalEventOn
  <2>2. CASE row[d][f] = None \/ (row[d][f].hashed /\ row[d][f].base = Read(d, f))
    <3>1. job' = job
      BY <2>1, <2>2
    <3>2. HasRow(d, f) => ~Dirty(d, f)'
      BY <1>1, <1>2, <1>5, <2>1, <2>2 DEF Known, Dirty, HasRow, LivingOn
    <3>3. AgreeOn(d, f)'
      BY <1>1, <1>4, <1>5, <2>1, <3>1, <3>2 DEF AgreeOn, HasRow, Served, Pulling, Doing, Idle
    <3>4. Bearer(d, f) => Bearer(d, f)'
      BY <1>1, <1>5, <1>8, <2>1, <2>2, <3>1 DEF Bearer, HasRow, Exists, Pulling, Doing, Idle, Types
    <3> QED BY <3>3, <3>4
  <2>3. CASE ~(row[d][f] = None \/ (row[d][f].hashed /\ row[d][f].base = Read(d, f)))
    <3>1. job'[d].file = f /\ job'[d].at = "upload" /\ HasRow(d, f)'
      BY <2>1, <2>3 DEF HasRow
    <3> QED BY <3>1 DEF AgreeOn, Bearer, Doing
  <2> QED BY <2>2, <2>3
<1>9. AgreeOn(d, f)' /\ (Bearer(d, f) => Bearer(d, f)')
  BY <1>6, <1>7, <1>8 DEF Types
<1> QED BY <1>1, <1>3, <1>4, <1>5, <1>9, AgreedWhen

\* The notice is handed to Conflict, or the file is fetched.
LEMMA RemoteEventAgreed ==
    ASSUME Struct, Struct', NEW d \in Device, NEW f \in File, NEW k \in Kinds, RemoteEventOn(d, k, f),
           Live(f), Live(f)', VersionOf(f), VersionOf(f)', EmptyOf(f), EmptyOf(f)', Agreed(f),
           f \notin spoiled'
    PROVE  Agreed(f)'
<1>1. /\ f \in File /\ f # None /\ VersionOn(d, f) /\ ShapeOf(d)
      /\ AgreeOn(d, f) /\ LivingOn(d, f)
  BY FileAssumption, NotNone, Parts DEF VersionOf, Agreed, Live
<1>2. Known(d, f)
  BY <1>1, KnownOf
<1>3. Alone(d) /\ (f \in meta => f \in meta') /\ \A x \in Device \ {d} : Informed(x, f) => Informed(x, f)'
  BY <1>1 DEF RemoteEventOn, Subject, Alone, Informed, Kinds, Types, Hears, SameHeard, TakenNotice,
     ConflictOn, FetchOn, Wrote, Synced
<1>4. store'[f] = store[f]
  BY DEF RemoteEventOn
<1>5. k # "FILE-" /\ f \in meta
  BY <1>1, DeletingIs DEF Deletes, Live, RemoteEventOn, Struct, Kinds, LivingOn, Informed
<1>6. /\ phase' = phase /\ todo' = todo /\ had' = had /\ meta' = meta
      /\ phase[d] = "on" /\ job[d] = Idle
  BY DEF RemoteEventOn
<1>7. CASE HasRow(d, f)
  <2>1. ConflictOn(d, f)
    BY <1>5, <1>7 DEF RemoteEventOn
  <2>2. /\ job'[d].file = f /\ job'[d].at = "get" /\ job'[d].seen = disk'[d][f] /\ HasRow(d, f)'
    BY <1>1, <1>2, <1>7, <2>1 DEF Known, ConflictOn, LivingOn, HasRow
  <2>3. AgreeOn(d, f)' /\ Bearer(d, f)'
    BY <2>2 DEF AgreeOn, Bearer, Doing
  <2> QED BY <1>1, <1>3, <1>4, <2>3, AgreedWhen
<1>8. CASE ~HasRow(d, f)
  <2>1. FetchOn(d, f) /\ job' = job
    BY <1>5, <1>8 DEF RemoteEventOn, FetchOn
  <2>2. CASE Served(f)
    <3>1. disk'[d][f] = store[f].data /\ row'[d][f] = Synced(store[f]) /\ HasRow(d, f)'
      BY <1>5, <2>1, <2>2 DEF FetchOn, HasRow
    <3>2. ~Dirty(d, f)' /\ row'[d][f].ver = store'[f].ver /\ Served(f)'
      BY <1>4, <2>2, <3>1 DEF Dirty, Synced, Served
    <3>3. AgreeOn(d, f)'
      BY <1>1, <1>6, <2>1, <3>1, <3>2 DEF AgreeOn, Doing, Idle
    <3> QED BY <1>1, <1>3, <1>4, <3>2, <3>3, AgreedWhen
  <2>3. CASE ~Served(f)
    <3>1. SameHeard /\ disk' = disk /\ row' = row /\ ~Served(f)'
      BY <1>4, <2>1, <2>3 DEF FetchOn, Served
    <3>2. AgreeOn(d, f)'
      BY <1>1, <1>6, <1>8, <2>1, <3>1 DEF AgreeOn, HasRow, Doing, Idle
    <3>3. Bearer(d, f) => Bearer(d, f)'
      BY <1>1, <1>6, <1>8, <2>1, <3>1 DEF Bearer, HasRow, Exists, Pulling, Doing, Idle, SameHeard, Types
    <3> QED BY <1>1, <1>3, <1>4, <1>6, <3>2, <3>3, AgreedWhen
  <2> QED BY <2>2, <2>3
<1> QED BY <1>7, <1>8

\* The handler goes on to the upload.
LEMMA CreateAgreed ==
    ASSUME Struct, Struct', NEW d \in Device, NEW f \in File, CreateOn(d, f),
           Live(f), Live(f)', VersionOf(f), VersionOf(f)', EmptyOf(f), EmptyOf(f)', Agreed(f),
           f \notin spoiled'
    PROVE  Agreed(f)'
<1>1. /\ f \in File /\ f # None /\ VersionOn(d, f) /\ ShapeOf(d)
      /\ AgreeOn(d, f) /\ LivingOn(d, f)
  BY FileAssumption, NotNone, Parts DEF VersionOf, Agreed, Live
<1>2. Known(d, f)
  BY <1>1, KnownOf
<1>3. Alone(d) /\ (f \in meta => f \in meta') /\ \A x \in Device \ {d} : Informed(x, f) => Informed(x, f)'
  BY <1>1 DEF CreateOn, Subject, Alone, Informed, Kinds, Types, SameHeard, SameTold, Tells
<1>4. store'[f] = store[f]
  BY DEF CreateOn
<1>5. AgreeOn(d, f)'
  BY <1>1, <1>2, <1>4, NotNone DEF Known, CreateOn, AgreeOn, HasRow, Exists, Served, Dirty, Pulling,
     Doing, Informed, Idle, LivingOn, VersionOn, ShapeOf, Types, Kinds, SameHeard, SameTold, Tells
<1>6. f \in meta' /\ ~Served(f)' /\ (f \notin meta \/ Bearer(d, f)) => \E x \in Device : Bearer(x, f)'
  BY <1>1, <1>2, <1>4, NotNone DEF Known, CreateOn, Bearer, HasRow, Exists, Served, Pulling, Doing, Idle,
     LivingOn, VersionOn, ShapeOf, Types, Kinds, SameHeard, SameTold, Tells
<1> QED BY <1>1, <1>3, <1>4, <1>5, <1>6, AgreedWhen

\* What is stored is told to the others; the own row waits for the record.
LEMMA PutAgreed ==
    ASSUME Struct, Struct', NEW d \in Device, NEW f \in File, PutOn(d, f),
           Live(f), Live(f)', VersionOf(f), VersionOf(f)', EmptyOf(f), EmptyOf(f)', Agreed(f),
           f \notin spoiled'
    PROVE  Agreed(f)'
<1>1. /\ f \in File /\ f # None /\ VersionOn(d, f) /\ ShapeOf(d)
      /\ AgreeOn(d, f) /\ LivingOn(d, f)
  BY FileAssumption, NotNone, Parts DEF VersionOf, Agreed, Live
<1>2. Known(d, f)
  BY <1>1, KnownOf
<1>3. Alone(d) /\ (f \in meta => f \in meta') /\ \A x \in Device \ {d} : Informed(x, f) => Informed(x, f)'
  BY <1>1 DEF PutOn, Subject, Alone, Informed, Kinds, Types, SameHeard, SameTold, Tells, Stored
<1>4. \/ store'[f] = store[f]
      \/ /\ Served(f)'
         /\ \A x \in Device \ {d} : phase[x] = "off" \/ Informed(x, f)'
  BY <1>1, <1>2 DEF Known, PutOn, Stored, NoneBoots, Tells, Informed, Served, Kinds
<1>5. AgreeOn(d, f)'
  BY <1>1, <1>2, <1>4, NotNone DEF Known, PutOn, AgreeOn, HasRow, Exists, Served, Dirty, Pulling, Doing,
     Informed, Idle, LivingOn, VersionOn, ShapeOf, Types, Kinds, SameHeard, SameTold, Tells, Stored
<1>6. f \in meta' /\ ~Served(f)' /\ (f \notin meta \/ Bearer(d, f)) => \E x \in Device : Bearer(x, f)'
  BY <1>1, <1>2, <1>4, NotNone DEF Known, PutOn, Bearer, HasRow, Exists, Served, Pulling, Doing, Idle,
     LivingOn, VersionOn, ShapeOf, Types, Kinds, SameHeard, SameTold, Tells, Stored
<1> QED BY <1>1, <1>3, <1>4, <1>5, <1>6, AgreedWhen

\* The handler tries again or goes to Conflict, and the others are told what was stored.
LEMMA PutFailsAgreed ==
    ASSUME Struct, Struct', NEW d \in Device, NEW f \in File, PutFailsOn(d, f),
           Live(f), Live(f)', VersionOf(f), VersionOf(f)', EmptyOf(f), EmptyOf(f)', Agreed(f),
           f \notin spoiled'
    PROVE  Agreed(f)'
<1>1. /\ f \in File /\ f # None /\ VersionOn(d, f) /\ ShapeOf(d)
      /\ AgreeOn(d, f) /\ LivingOn(d, f)
  BY FileAssumption, NotNone, Parts DEF VersionOf, Agreed, Live
<1>2. Known(d, f)
  BY <1>1, KnownOf
<1>3. Alone(d) /\ (f \in meta => f \in meta') /\ \A x \in Device \ {d} : Informed(x, f) => Informed(x, f)'
  BY <1>1 DEF PutFailsOn, Subject, Alone, Informed, Kinds, Types, SameHeard, SameTold, Tells, Stored
<1>4. \/ store'[f] = store[f]
      \/ /\ Served(f)'
         /\ \A x \in Device \ {d} : phase[x] = "off" \/ Informed(x, f)'
  BY <1>1, <1>2 DEF Known, PutFailsOn, Stored, NoneBoots, Tells, Informed, Served, Kinds
<1>5. AgreeOn(d, f)'
  BY <1>1, <1>2, <1>4, NotNone DEF Known, PutFailsOn, AgreeOn, HasRow, Exists, Served, Dirty, Pulling,
     Doing, Informed, Idle, LivingOn, VersionOn, ShapeOf, Types, Kinds, SameHeard, SameTold, Tells, Stored
<1>6. f \in meta' /\ ~Served(f)' /\ (f \notin meta \/ Bearer(d, f)) => \E x \in Device : Bearer(x, f)'
  BY <1>1, <1>2, <1>4, NotNone DEF Known, PutFailsOn, Bearer, HasRow, Exists, Served, Pulling, Doing,
     Idle, LivingOn, VersionOn, ShapeOf, Types, Kinds, SameHeard, SameTold, Tells, Stored
<1> QED BY <1>1, <1>3, <1>4, <1>5, <1>6, AgreedWhen

\* The row has the version that was stored, and what changed since was heard.
LEMMA RecordAgreed ==
    ASSUME Struct, Struct', NEW d \in Device, NEW f \in File, RecordOn(d, f),
           Live(f), Live(f)', VersionOf(f), VersionOf(f)', EmptyOf(f), EmptyOf(f)', Agreed(f),
           f \notin spoiled'
    PROVE  Agreed(f)'
<1>1. /\ f \in File /\ f # None /\ VersionOn(d, f) /\ ShapeOf(d)
      /\ AgreeOn(d, f) /\ LivingOn(d, f)
  BY FileAssumption, NotNone, Parts DEF VersionOf, Agreed, Live
<1>2. Known(d, f)
  BY <1>1, KnownOf
<1>3. Alone(d) /\ (f \in meta => f \in meta') /\ \A x \in Device \ {d} : Informed(x, f) => Informed(x, f)'
  BY <1>1 DEF RecordOn, Subject, Alone, Informed, Kinds, Types, SameHeard, SameTold
<1>4. store'[f] = store[f]
  BY DEF RecordOn
<1>5. AgreeOn(d, f)'
  BY <1>1, <1>2, <1>4, NotNone DEF Known, RecordOn, AgreeOn, HasRow, Exists, Served, Dirty, Pulling,
     Doing, Informed, Idle, LivingOn, VersionOn, ShapeOf, Types, Kinds, SameHeard, SameTold
<1>6. f \in meta' /\ ~Served(f)' /\ (f \notin meta \/ Bearer(d, f)) => \E x \in Device : Bearer(x, f)'
  BY <1>1, <1>2, <1>4, NotNone DEF Known, RecordOn, Bearer, HasRow, Exists, Served, Pulling, Doing, Idle,
     LivingOn, VersionOn, ShapeOf, Types, Kinds, SameHeard, SameTold
<1> QED BY <1>1, <1>3, <1>4, <1>5, <1>6, AgreedWhen

\* Each of the four outcomes leaves a row that fits, or an upload.
LEMMA GetAgreed ==
    ASSUME Struct, Struct', NEW d \in Device, NEW f \in File, GetOn(d, f),
           Live(f), Live(f)', VersionOf(f), VersionOf(f)', EmptyOf(f), EmptyOf(f)', Agreed(f),
           f \notin spoiled'
    PROVE  Agreed(f)'
<1>1. /\ f \in File /\ f # None /\ VersionOn(d, f) /\ ShapeOf(d)
      /\ AgreeOn(d, f) /\ LivingOn(d, f)
  BY FileAssumption, NotNone, Parts DEF VersionOf, Agreed, Live
<1>2. Known(d, f)
  BY <1>1, KnownOf
<1>3. Alone(d) /\ (f \in meta => f \in meta') /\ \A x \in Device \ {d} : Informed(x, f) => Informed(x, f)'
  BY <1>1 DEF GetOn, Subject, Alone, Informed, Kinds, Types, SameHeard, SameTold, Hears, Wrote, Synced
<1>4. store'[f] = store[f]
  BY DEF GetOn
<1>5. /\ phase' = phase /\ todo' = todo /\ had' = had /\ meta' = meta
      /\ HasRow(d, f) /\ f \in meta /\ Doing(d, {"get"}, f)
  BY <1>1 DEF GetOn, LivingOn, Doing
<1>6. ASSUME AgreeOn(d, f)', Served(f)' PROVE Agreed(f)'
  BY <1>1, <1>3, <1>4, <1>6, AgreedWhen
<1>7. CASE ~Served(f)
  <2>1. job'[d] = Idle /\ SameHeard /\ UNCHANGED <<disk, row>> /\ Storing(f)
    BY <1>5, <1>7 DEF GetOn
  <2>2. row[d][f].ver = store[f].ver
    BY <1>1, <1>2, <1>5, <1>7 DEF Known, VersionOn, Live
  <2>3. AgreeOn(d, f)'
    BY <1>1, <1>4, <1>5, <1>7, <2>1, <2>2 DEF AgreeOn, HasRow, Served, Doing, Idle
  <2>4. \E x \in Device : Bearer(x, f)'
    <3>1. PICK x \in Device : \/ job[x].file = f /\ job[x].at = "upload"
                              \/ Heard(x, "created", f)
                              \/ Heard(x, "modified", f) /\ HasRow(x, f) /\ ~row[x][f].hashed
      BY <2>1 DEF Storing
    <3>2. x # d \/ ~(job[x].file = f /\ job[x].at = "upload")
      BY DEF GetOn
    <3>3. job[x].file = f /\ job[x].at = "upload" => job'[x] = job[x]
      BY <1>3, <3>2 DEF Alone
    <3> QED BY <1>1, <2>1, <3>1, <3>3 DEF Bearer, HasRow, Doing, SameHeard, Types
  <2> QED BY <1>1, <1>3, <1>4, <2>3, <2>4, AgreedWhen
<1>8. ASSUME Served(f), job[d].seen = store[f].data, row'[d][f] = Synced(store[f]), row'[d][f] # None,
             job'[d] = Idle, SameHeard, UNCHANGED disk
      PROVE  Agreed(f)'
  <2>1. /\ HasRow(d, f)' /\ row'[d][f].ver = store'[f].ver /\ row'[d][f].base = job[d].seen
        /\ row'[d][f].hashed /\ Served(f)'
    BY <1>4, <1>8 DEF HasRow, Synced, Served
  <2>2. disk'[d][f] = job[d].seen \/ Heard(d, "modified", f)'
    BY <1>1, <1>5, <1>8 DEF AgreeOn, SameHeard, Types, Doing
  <2>3. AgreeOn(d, f)'
    BY <1>1, <1>8, <2>1, <2>2 DEF AgreeOn, Doing, Dirty, Idle
  <2> QED BY <1>6, <2>1, <2>3
<1>9. ASSUME Served(f), job'[d] = [at |-> "upload", file |-> f, seen |-> None],
             UNCHANGED row PROVE Agreed(f)'
  <2>1. HasRow(d, f)' /\ Served(f)' /\ job'[d].file = f /\ job'[d].at = "upload"
    BY <1>4, <1>5, <1>9 DEF HasRow, Served
  <2>2. AgreeOn(d, f)'
    BY <2>1 DEF AgreeOn, Doing
  <2> QED BY <1>6, <2>1, <2>2
<1>10. ASSUME Served(f), disk'[d][f] = store[f].data, row'[d][f] = Synced(store[f]), row'[d][f] # None,
              job'[d] = [at |-> "copy", file |-> f, seen |-> job[d].seen]
       PROVE  Agreed(f)'
  <2>1. HasRow(d, f)' /\ row'[d][f].ver = store'[f].ver /\ ~Dirty(d, f)' /\ Served(f)'
    BY <1>4, <1>10 DEF HasRow, Synced, Served, Dirty
  <2>2. AgreeOn(d, f)'
    BY <1>10, <2>1 DEF AgreeOn, Doing
  <2> QED BY <1>6, <2>1, <2>2
<1> QED BY <1>5, <1>7, <1>8, <1>9, <1>10 DEF GetOn

\* The boot looks at the file: Conflict, or a fetch.
LEMMA PullAgreed ==
    ASSUME Struct, Struct', NEW d \in Device, NEW f \in File, PullOn(d, f),
           Live(f), Live(f)', VersionOf(f), VersionOf(f)', EmptyOf(f), EmptyOf(f)', Agreed(f),
           f \notin spoiled'
    PROVE  Agreed(f)'
<1>1. /\ f \in File /\ f # None /\ VersionOn(d, f) /\ ShapeOf(d)
      /\ AgreeOn(d, f) /\ LivingOn(d, f)
  BY FileAssumption, NotNone, Parts DEF VersionOf, Agreed, Live
<1>2. Known(d, f)
  BY <1>1, KnownOf
<1>3. Alone(d) /\ (f \in meta => f \in meta') /\ \A x \in Device \ {d} : Informed(x, f) => Informed(x, f)'
  BY <1>1 DEF PullOn, Subject, Alone, Informed, Kinds, Types, SameTold, SameHeard, Hears, Wrote,
     ConflictOn, FetchOn, Synced
<1>4. store'[f] = store[f]
  BY DEF PullOn
<1>5. /\ phase' = phase /\ had' = had /\ meta' = meta
      /\ phase[d] = "pull" /\ job[d] = Idle /\ f \in meta /\ Pulling(d, f)
  BY <1>1 DEF PullOn, LivingOn, Pulling
<1>6. CASE f \in had[d]
  <2>1. ConflictOn(d, f) /\ HasRow(d, f)
    BY <1>1, <1>6 DEF PullOn, ShapeOf
  <2>2. /\ job'[d].file = f /\ job'[d].at = "get" /\ job'[d].seen = disk'[d][f] /\ HasRow(d, f)'
    BY <1>1, <1>2, <2>1 DEF Known, ConflictOn, LivingOn, HasRow
  <2>3. AgreeOn(d, f)' /\ Bearer(d, f)'
    BY <2>2 DEF AgreeOn, Bearer, Doing
  <2> QED BY <1>1, <1>3, <1>4, <2>3, AgreedWhen
<1>7. CASE f \notin had[d]
  <2>1. FetchOn(d, f) /\ job' = job
    BY <1>7 DEF PullOn, FetchOn
  <2>2. CASE Served(f)
    <3>1. disk'[d][f] = store[f].data /\ row'[d][f] = Synced(store[f]) /\ HasRow(d, f)'
      BY <1>5, <2>1, <2>2 DEF FetchOn, HasRow
    <3>2. ~Dirty(d, f)' /\ row'[d][f].ver = store'[f].ver /\ Served(f)'
      BY <1>4, <2>2, <3>1 DEF Dirty, Synced, Served
    <3>3. AgreeOn(d, f)'
      BY <1>1, <1>5, <2>1, <3>1, <3>2 DEF AgreeOn, Doing, Idle
    <3> QED BY <1>1, <1>3, <1>4, <3>2, <3>3, AgreedWhen
  <2>3. CASE ~Served(f)
    <3>1. SameHeard /\ disk' = disk /\ row' = row /\ ~Served(f)'
      BY <1>4, <2>1, <2>3 DEF FetchOn, Served
    <3>2. HasRow(d, f) => row[d][f].ver = store[f].ver
      BY <1>1, <1>2, <2>3 DEF Known, VersionOn, Live
    <3>3. AgreeOn(d, f)'
      BY <1>1, <1>4, <1>5, <2>1, <3>1, <3>2 DEF AgreeOn, HasRow, Doing, Idle
    <3>4. Bearer(d, f) => Bearer(d, f)'
      BY <1>1, <1>5, <1>7, <2>1, <3>1 DEF Bearer, HasRow, Exists, Pulling, Doing, Idle, SameHeard, Types
    <3> QED BY <1>1, <1>3, <1>4, <1>5, <3>3, <3>4, AgreedWhen
  <2> QED BY <2>2, <2>3
<1> QED BY <1>6, <1>7

\* The handler goes to createFile.
LEMMA PushAgreed ==
    ASSUME Struct, Struct', NEW d \in Device, NEW f \in File, PushOn(d, f),
           Live(f), Live(f)', VersionOf(f), VersionOf(f)', EmptyOf(f), EmptyOf(f)', Agreed(f),
           f \notin spoiled'
    PROVE  Agreed(f)'
<1>1. /\ f \in File /\ f # None /\ VersionOn(d, f) /\ ShapeOf(d)
      /\ AgreeOn(d, f) /\ LivingOn(d, f)
  BY FileAssumption, NotNone, Parts DEF VersionOf, Agreed, Live
<1>2. Known(d, f)
  BY <1>1, KnownOf
<1>3. Alone(d) /\ (f \in meta => f \in meta') /\ \A x \in Device \ {d} : Informed(x, f) => Informed(x, f)'
  BY <1>1 DEF PushOn, Subject, Alone, Informed, Kinds, Types, SameTold, SameHeard
<1>4. store'[f] = store[f]
  BY DEF PushOn
<1>5. AgreeOn(d, f)'
  BY <1>1, <1>2, <1>4, NotNone DEF Known, PushOn, AgreeOn, HasRow, Exists, Served, Dirty, Pulling, Doing,
     Informed, Idle, LivingOn, VersionOn, ShapeOf, Types, Kinds, SameTold, SameHeard
<1>6. f \in meta' /\ ~Served(f)' /\ (f \notin meta \/ Bearer(d, f)) => \E x \in Device : Bearer(x, f)'
  BY <1>1, <1>2, <1>4, NotNone DEF Known, PushOn, Bearer, HasRow, Exists, Served, Pulling, Doing, Idle,
     LivingOn, VersionOn, ShapeOf, Types, Kinds, SameTold, SameHeard
<1> QED BY <1>1, <1>3, <1>4, <1>5, <1>6, AgreedWhen

\* The handler goes to createFile, for the copy.
LEMMA CopyAgreed ==
    ASSUME Struct, Struct', NEW d \in Device, NEW g \in File, NEW f \in {g, CopyName[d][g]},
           CopyOn(d, g, CopyName[d][g]),
           Live(f), Live(f)', VersionOf(f), VersionOf(f)', EmptyOf(f), EmptyOf(f)', Agreed(f),
           f \notin spoiled'
    PROVE  Agreed(f)'
<1>1. /\ f \in File /\ f # None /\ VersionOn(d, f) /\ ShapeOf(d)
      /\ AgreeOn(d, f) /\ LivingOn(d, f)
  BY FileAssumption, NotNone, Parts DEF VersionOf, Agreed, Live
<1>2. Known(d, f)
  BY <1>1, KnownOf
<1>3. Alone(d) /\ (f \in meta => f \in meta') /\ \A x \in Device \ {d} : Informed(x, f) => Informed(x, f)'
  BY <1>1 DEF CopyOn, Subject, Alone, Informed, Kinds, Types, SameTold, Hears, Wrote
<1>4. store'[f] = store[f]
  BY DEF CopyOn
<1>5. AgreeOn(d, f)'
  BY <1>1, <1>2, <1>4, NotNone DEF Known, CopyOn, AgreeOn, HasRow, Exists, Served, Dirty, Pulling, Doing,
     Informed, Idle, LivingOn, VersionOn, ShapeOf, Types, Kinds, SameTold, Hears, Wrote
<1>6. f \in meta' /\ ~Served(f)' /\ (f \notin meta \/ Bearer(d, f)) => \E x \in Device : Bearer(x, f)'
  BY <1>1, <1>2, <1>4, NotNone DEF Known, CopyOn, Bearer, HasRow, Exists, Served, Pulling, Doing, Idle,
     LivingOn, VersionOn, ShapeOf, Types, Kinds, SameTold, Hears, Wrote
<1> QED BY <1>1, <1>3, <1>4, <1>5, <1>6, AgreedWhen

\* The next boot finds what was lost.
LEMMA CrashAgreed ==
    ASSUME Struct, Struct', NEW d \in Device, NEW f \in File, CrashOn(d),
           Live(f), Live(f)', VersionOf(f), VersionOf(f)', EmptyOf(f), EmptyOf(f)', Agreed(f),
           f \notin spoiled'
    PROVE  Agreed(f)'
<1>1. /\ f \in File /\ f # None /\ VersionOn(d, f) /\ ShapeOf(d)
      /\ AgreeOn(d, f) /\ LivingOn(d, f)
  BY FileAssumption, NotNone, Parts DEF VersionOf, Agreed, Live
<1>2. Known(d, f)
  BY <1>1, KnownOf
<1>3. Alone(d) /\ (f \in meta => f \in meta') /\ \A x \in Device \ {d} : Informed(x, f) => Informed(x, f)'
  BY <1>1 DEF CrashOn, Subject, Alone, Informed, Kinds, Types
<1>4. store'[f] = store[f]
  BY DEF CrashOn
<1>5. AgreeOn(d, f)'
  BY <1>1, <1>2, <1>4, NotNone DEF Known, CrashOn, AgreeOn, HasRow, Exists, Served, Dirty, Pulling, Doing,
     Informed, Idle, LivingOn, VersionOn, ShapeOf, Types, Kinds
<1>6. f \in meta' /\ ~Served(f)' /\ (f \notin meta \/ Bearer(d, f)) => \E x \in Device : Bearer(x, f)'
  BY <1>1, <1>2, <1>4, NotNone DEF Known, CrashOn, Bearer, HasRow, Exists, Served, Pulling, Doing, Idle,
     LivingOn, VersionOn, ShapeOf, Types, Kinds
<1> QED BY <1>1, <1>3, <1>4, <1>5, <1>6, AgreedWhen

\* All the metaserver knows is on the list.
LEMMA BootAgreed ==
    ASSUME Struct, Struct', NEW d \in Device, NEW f \in File, BootOn(d),
           Live(f), Live(f)', VersionOf(f), VersionOf(f)', EmptyOf(f), EmptyOf(f)', Agreed(f),
           f \notin spoiled'
    PROVE  Agreed(f)'
<1>1. /\ f \in File /\ f # None /\ VersionOn(d, f) /\ ShapeOf(d)
      /\ AgreeOn(d, f) /\ LivingOn(d, f)
  BY FileAssumption, NotNone, Parts DEF VersionOf, Agreed, Live
<1>2. Known(d, f)
  BY <1>1, KnownOf
<1>3. Alone(d) /\ (f \in meta => f \in meta') /\ \A x \in Device \ {d} : Informed(x, f) => Informed(x, f)'
  BY <1>1 DEF BootOn, Subject, Alone, Informed, Kinds, Types, SameHeard, SameTold
<1>4. store'[f] = store[f]
  BY DEF BootOn
<1>5. /\ phase'[d] = "pull" /\ todo'[d] = meta /\ had'[d] = {g \in File : Exists(d, g)}
      /\ row'[d][f] = IF Exists(d, f) THEN (IF HasRow(d, f) THEN row[d][f] ELSE DefaultRow) ELSE None
      /\ UNCHANGED <<disk, job, meta>> /\ phase[d] = "off" /\ job[d] = Idle
  BY <1>1 DEF BootOn, ShapeOf
<1>6. f \in meta => Pulling(d, f)'
  BY <1>5 DEF Pulling
<1>7. f \notin meta => ~Served(f)' /\ store'[f].ver = 0
  BY <1>2, <1>4 DEF Known, Served
<1>8. HasRow(d, f)' /\ f \notin meta => row'[d][f].ver = 0
  <2>1. HasRow(d, f) /\ f \notin meta => row[d][f].ver = 0
    BY <1>1, <1>2 DEF Known, VersionOn, Live
  <2> QED BY <1>5, <2>1 DEF HasRow, DefaultRow
<1>9. AgreeOn(d, f)'
  BY <1>1, <1>5, <1>6, <1>7, <1>8 DEF AgreeOn, Doing, Idle
<1>10. Bearer(d, f) /\ f \in meta => Bearer(d, f)'
  BY <1>1, <1>5, <1>6 DEF Bearer, Exists, Doing, Idle, ShapeOf, Types, Pulling, SameHeard
<1> QED BY <1>1, <1>3, <1>4, <1>5, <1>9, <1>10, AgreedWhen

\* The list is empty.
LEMMA PullEndsAgreed ==
    ASSUME Struct, Struct', NEW d \in Device, NEW f \in File, PullEndsOn(d),
           Live(f), Live(f)', VersionOf(f), VersionOf(f)', EmptyOf(f), EmptyOf(f)', Agreed(f),
           f \notin spoiled'
    PROVE  Agreed(f)'
<1>1. /\ f \in File /\ f # None /\ VersionOn(d, f) /\ ShapeOf(d)
      /\ AgreeOn(d, f) /\ LivingOn(d, f)
  BY FileAssumption, NotNone, Parts DEF VersionOf, Agreed, Live
<1>2. Known(d, f)
  BY <1>1, KnownOf
<1>3. Alone(d) /\ (f \in meta => f \in meta') /\ \A x \in Device \ {d} : Informed(x, f) => Informed(x, f)'
  BY <1>1 DEF PullEndsOn, Subject, Alone, Informed, Kinds, Types, SameHeard, SameTold
<1>4. store'[f] = store[f]
  BY DEF PullEndsOn
<1>5. AgreeOn(d, f)'
  BY <1>1, <1>2, <1>4, NotNone DEF Known, PullEndsOn, AgreeOn, HasRow, Exists, Served, Dirty, Pulling,
     Doing, Informed, Idle, LivingOn, VersionOn, ShapeOf, Types, Kinds, SameHeard, SameTold
<1>6. f \in meta' /\ ~Served(f)' /\ (f \notin meta \/ Bearer(d, f)) => \E x \in Device : Bearer(x, f)'
  BY <1>1, <1>2, <1>4, NotNone DEF Known, PullEndsOn, Bearer, HasRow, Exists, Served, Pulling, Doing,
     Idle, LivingOn, VersionOn, ShapeOf, Types, Kinds, SameHeard, SameTold
<1> QED BY <1>1, <1>3, <1>4, <1>5, <1>6, AgreedWhen

\* The list is empty.
LEMMA PushEndsAgreed ==
    ASSUME Struct, Struct', NEW d \in Device, NEW f \in File, PushEndsOn(d),
           Live(f), Live(f)', VersionOf(f), VersionOf(f)', EmptyOf(f), EmptyOf(f)', Agreed(f),
           f \notin spoiled'
    PROVE  Agreed(f)'
<1>1. /\ f \in File /\ f # None /\ VersionOn(d, f) /\ ShapeOf(d)
      /\ AgreeOn(d, f) /\ LivingOn(d, f)
  BY FileAssumption, NotNone, Parts DEF VersionOf, Agreed, Live
<1>2. Known(d, f)
  BY <1>1, KnownOf
<1>3. Alone(d) /\ (f \in meta => f \in meta') /\ \A x \in Device \ {d} : Informed(x, f) => Informed(x, f)'
  BY <1>1 DEF PushEndsOn, Subject, Alone, Informed, Kinds, Types, SameHeard, SameTold
<1>4. store'[f] = store[f]
  BY DEF PushEndsOn
<1>5. AgreeOn(d, f)'
  BY <1>1, <1>2, <1>4, NotNone DEF Known, PushEndsOn, AgreeOn, HasRow, Exists, Served, Dirty, Pulling,
     Doing, Informed, Idle, LivingOn, VersionOn, ShapeOf, Types, Kinds, SameHeard, SameTold
<1>6. f \in meta' /\ ~Served(f)' /\ (f \notin meta \/ Bearer(d, f)) => \E x \in Device : Bearer(x, f)'
  BY <1>1, <1>2, <1>4, NotNone DEF Known, PushEndsOn, Bearer, HasRow, Exists, Served, Pulling, Doing,
     Idle, LivingOn, VersionOn, ShapeOf, Types, Kinds, SameHeard, SameTold
<1> QED BY <1>1, <1>3, <1>4, <1>5, <1>6, AgreedWhen

\* Every step keeps the sixth layer.
LEMMA AgreeStep ==
    ASSUME Struct, Struct', CopiesInv, Step, LifeInv, LifeInv', VersionInv, VersionInv', EmptyInv,
           EmptyInv', AgreeInv
    PROVE  AgreeInv'
<1> SUFFICES ASSUME NEW f \in File, f \notin spoiled', ~Deleting(f)' PROVE Agreed(f)'
  BY DEF AgreeInv
<1>1. f \notin spoiled /\ StepOf(f)
  BY FileSteps
<1>2. LifeOf(f) /\ LifeOf(f)' /\ VersionOf(f) /\ VersionOf(f)' /\ EmptyOf(f) /\ EmptyOf(f)'
  BY <1>1 DEF LifeInv, VersionInv, EmptyInv
<1>3. CASE Deleting(f)
  <2>1. f \notin meta' /\ \A x \in Device : ~HasRow(x, f)' /\ job'[x].file # f
    BY <1>1, <1>2, <1>3, Ends
  <2> QED BY <2>1 DEF Agreed, Borne, AgreeOn, Doing
<1>4. CASE ~Deleting(f)
  <2>1. Live(f) /\ Live(f)' /\ Agreed(f)
    BY <1>1, <1>2, <1>4, LiveWhen DEF AgreeInv
  <2>2. CASE Still(f)
    BY <2>1, <2>2, StillAgreed
  <2>3. ~PurgeOn(f)
    BY <1>4, DeletingIs DEF Deletes, PurgeOn, Struct
  <2>4. ASSUME NEW d \in Device, ActsOn(d, f) PROVE Agreed(f)'
    <3>1. CASE \E g \in File : f \in {g, CopyName[d][g]} /\ CopyOn(d, g, CopyName[d][g])
      BY <1>2, <2>1, <3>1, CopyAgreed
    <3>2. CASE CrashOn(d) \/ BootOn(d) \/ PullEndsOn(d) \/ PushEndsOn(d)
      BY <1>2, <2>1, <3>2, CrashAgreed, BootAgreed, PullEndsAgreed, PushEndsAgreed
    <3>3. ~UserDeletesOn(d, f) /\ ~DeleteOn(d, f)
      <4>1. ~DeleteOn(d, f)
        BY <1>4, DeletingIs DEF Deletes, DeleteOn, Struct, Doing
      <4>2. ~UserDeletesOn(d, f)
        BY NotBusy, DeletingIsToo DEF Deletes, UserDeletesOn, Struct, Hears, Types
      <4> QED BY <4>1, <4>2
    <3>4. CASE f \in Main /\ \E e \in Edit : UserEditsOn(d, f, e)
      BY <1>2, <2>1, <3>4, UserEditsAgreed
    <3>5. CASE (\E t \in Types : LocalEventOn(d, t, f)) \/ \E k \in Kinds : RemoteEventOn(d, k, f)
      BY <1>2, <2>1, <3>5, LocalEventAgreed, RemoteEventAgreed
    <3>6. CASE CreateOn(d, f) \/ PutOn(d, f) \/ PutFailsOn(d, f)
      BY <1>2, <2>1, <3>6, CreateAgreed, PutAgreed, PutFailsAgreed
    <3>7. CASE RecordOn(d, f) \/ GetOn(d, f) \/ PullOn(d, f) \/ PushOn(d, f)
      BY <1>2, <2>1, <3>7, RecordAgreed, GetAgreed, PullAgreed, PushAgreed
    <3> QED BY <2>4, <3>1, <3>2, <3>3, <3>4, <3>5, <3>6, <3>7 DEF ActsOn
  <2> QED BY <1>1, <2>2, <2>3, <2>4 DEF StepOf
<1> QED BY <1>3, <1>4

\* In the beginning every device has what the servers have.
LEMMA AgreeStart == ASSUME Init PROVE AgreeInv
<1> SUFFICES ASSUME NEW f \in File PROVE Agreed(f)
  BY DEF AgreeInv
<1>1. \A d \in Device : job[d].at = "idle"
  BY StructInit DEF Idle
<1>2. f \in meta => Served(f) /\ store[f] = [ver |-> 1, data |-> Old] /\ Old \in Content
  BY NoneAssumption DEF Init, Content, Served
<1>3. f \notin meta => ~Served(f)
  BY DEF Init, Served, NoData
<1>4. ASSUME NEW d \in Device PROVE AgreeOn(d, f)
  <2>1. disk[d][f] = store[f].data /\ row[d][f] = IF f \in meta THEN Synced(store[f]) ELSE None
    BY DEF Init
  <2>2. CASE f \in meta
    <3>1. HasRow(d, f)
      <4>1. Synced(store[f]) \in Row
        BY <1>2, <2>2 DEF Synced, Row
      <4> QED BY <2>1, <2>2, <4>1, NotNone DEF HasRow
    <3>2. ~Dirty(d, f) /\ row[d][f].ver = store[f].ver
      BY <2>1, <2>2 DEF Dirty, Synced
    <3> QED BY <1>1, <3>1, <3>2 DEF AgreeOn, Doing
  <2>3. CASE f \notin meta
    BY <1>1, <1>3, <2>1, <2>3 DEF AgreeOn, HasRow, Doing
  <2> QED BY <2>2, <2>3
<1> QED BY <1>2, <1>4 DEF Agreed, Borne

-----------------------------------------------------------------------------
(* Growth: what merges start from. *)

\* The common ancestor in a row is part of the local file and of the served one: a
\* three-way merge from it can lose nothing of either.
GrowthOn(d, f) ==
    /\ HasRow(d, f) =>
         /\ row[d][f].base \subseteq disk[d][f]
         /\ Served(f) => row[d][f].base \subseteq store[f].data
         /\ row[d][f].ver = 0 => row[d][f].base = {}
    /\ Doing(d, {"get"}, f) => row[d][f].base \subseteq job[d].seen /\ job[d].seen \subseteq disk[d][f]
    /\ Doing(d, {"record"}, f) => job[d].seen \subseteq disk[d][f] /\ job[d].seen \subseteq store[f].data
GrowthOf(f) == \A d \in Device : GrowthOn(d, f)

\* The seventh layer, of the files users edit: nothing that was synchronised shrinks.
GrowthInv == \A f \in Main \ spoiled : ~Deleting(f) => GrowthOf(f)

\* A step about another file keeps it.
LEMMA StillGrowth ==
    ASSUME Struct, Struct', NEW f \in File, Still(f), GrowthOf(f)
    PROVE  GrowthOf(f)'
<1> SUFFICES ASSUME NEW d \in Device PROVE GrowthOn(d, f)'
  BY DEF GrowthOf
<1> QED BY DEF GrowthOf, GrowthOn, Still, OwnStill, ServerStill, HasRow, Served, Doing

\* So does a step of d that stores nothing, if it does for d.
LEMMA GrowthWhen ==
    ASSUME NEW d \in Device, NEW f \in File, Alone(d), GrowthOf(f), store'[f] = store[f], GrowthOn(d, f)'
    PROVE  GrowthOf(f)'
<1> SUFFICES ASSUME NEW x \in Device \ {d} PROVE GrowthOn(x, f)'
  BY DEF GrowthOf
<1> QED BY DEF GrowthOf, GrowthOn, Alone, HasRow, Served, Doing

\* What a device stores holds all that was stored.
LEMMA StoredGrows ==
    ASSUME Struct, NEW d \in Device, NEW f \in File, Live(f), VersionOf(f), EmptyOf(f), GrowthOf(f),
           HasRow(d, f), Stored(d, f)
    PROVE  /\ store'[f].data = disk[d][f] /\ Served(f)'
           /\ Served(f) => store[f].data \subseteq disk[d][f]
           /\ \A x \in Device : HasRow(x, f) => row[x][f].base \subseteq store'[f].data
           /\ \A x \in Device : Doing(x, {"record"}, f) => job[x].seen \subseteq store'[f].data
<1>1. /\ GrowthOn(d, f) /\ VersionOn(d, f) /\ LivingOn(d, f)
      /\ row[d][f].ver = store[f].ver /\ store'[f].data = Read(d, f) /\ Read(d, f) # None
  BY Numbers DEF Counted, GrowthOf, VersionOf, Live, Stored
<1>2. Exists(d, f) /\ store'[f].data = disk[d][f]
  BY <1>1 DEF LivingOn, Read
<1>3. Served(f) => store[f].data \subseteq disk[d][f]
  BY <1>1 DEF VersionOn, GrowthOn
<1>4. ASSUME NEW x \in Device, HasRow(x, f) PROVE row[x][f].base \subseteq store'[f].data
  <2>1. GrowthOn(x, f) /\ VersionOn(x, f) /\ ~Deleting(f) /\ row[x][f].ver \in Nat
    BY <1>4, Numbers DEF Counted, GrowthOf, VersionOf, Live
  <2>2. CASE Served(f)
    BY <1>2, <1>3, <1>4, <2>1, <2>2 DEF GrowthOn
  <2>3. CASE ~Served(f)
    <3>1. row[x][f].ver = 0
      BY <1>4, <2>1, <2>3 DEF VersionOn, EmptyOf
    <3> QED BY <1>4, <2>1, <3>1 DEF GrowthOn
  <2> QED BY <2>2, <2>3
<1>5. ASSUME NEW x \in Device, Doing(x, {"record"}, f) PROVE job[x].seen \subseteq store'[f].data
  <2>1. Served(f) /\ job[x].seen \subseteq store[f].data
    BY <1>5 DEF VersionOf, VersionOn, GrowthOf, GrowthOn
  <2> QED BY <1>2, <1>3, <2>1
<1> QED BY <1>1, <1>2, <1>3, <1>4, <1>5 DEF Served

\* An edit only adds.
LEMMA UserEditsGrowth ==
    ASSUME Struct, Struct', NEW d \in Device, NEW f \in Main, NEW e \in Edit, UserEditsOn(d, f, e),
           Live(f), Live(f)', VersionOf(f), EmptyOf(f), GrowthOf(f), f \notin spoiled'
    PROVE  GrowthOf(f)'
<1>1. /\ f \in File /\ f # None /\ VersionOn(d, f) /\ ShapeOf(d)
      /\ GrowthOn(d, f) /\ LivingOn(d, f) /\ LivingOn(d, f)'
  BY FileAssumption, NotNone, Parts DEF VersionOf, GrowthOf, Live
<1>2. Known(d, f)
  BY <1>1, KnownOf
<1>3. Alone(d)
  BY DEF UserEditsOn, Subject
<1>4. store'[f] = store[f]
  BY DEF UserEditsOn
<1>5. GrowthOn(d, f)'
  BY <1>1, <1>2, <1>4, NotNone DEF Known, UserEditsOn, GrowthOn, HasRow, Exists, Served, Doing, Idle,
     LivingOn, VersionOn, ShapeOf
<1> QED BY <1>1, <1>3, <1>4, <1>5, GrowthWhen

\* A new row has an empty base.
LEMMA LocalEventGrowth ==
    ASSUME Struct, Struct', NEW d \in Device, NEW f \in Main, NEW t \in Types, LocalEventOn(d, t, f),
           Live(f), Live(f)', VersionOf(f), EmptyOf(f), GrowthOf(f), f \notin spoiled'
    PROVE  GrowthOf(f)'
<1>1. /\ f \in File /\ f # None /\ VersionOn(d, f) /\ ShapeOf(d)
      /\ GrowthOn(d, f) /\ LivingOn(d, f) /\ LivingOn(d, f)'
  BY FileAssumption, NotNone, Parts DEF VersionOf, GrowthOf, Live
<1>2. Known(d, f)
  BY <1>1, KnownOf
<1>3. Alone(d)
  BY DEF LocalEventOn, Subject
<1>4. store'[f] = store[f]
  BY DEF LocalEventOn
<1>5. GrowthOn(d, f)'
  BY <1>1, <1>2, <1>4, NotNone DEF Known, LocalEventOn, GrowthOn, HasRow, Exists, Served, Doing, Idle,
     LivingOn, VersionOn, ShapeOf, DefaultRow
<1> QED BY <1>1, <1>3, <1>4, <1>5, GrowthWhen

\* A fetch takes file and row from the same content.
LEMMA RemoteEventGrowth ==
    ASSUME Struct, Struct', NEW d \in Device, NEW f \in Main, NEW k \in Kinds, RemoteEventOn(d, k, f),
           Live(f), Live(f)', VersionOf(f), EmptyOf(f), GrowthOf(f), f \notin spoiled'
    PROVE  GrowthOf(f)'
<1>1. /\ f \in File /\ f # None /\ VersionOn(d, f) /\ ShapeOf(d)
      /\ GrowthOn(d, f) /\ LivingOn(d, f) /\ LivingOn(d, f)'
  BY FileAssumption, NotNone, Parts DEF VersionOf, GrowthOf, Live
<1>2. Known(d, f)
  BY <1>1, KnownOf
<1>3. Alone(d)
  BY DEF RemoteEventOn, Subject
<1>4. store'[f] = store[f]
  BY DEF RemoteEventOn
<1>5. GrowthOn(d, f)'
  BY <1>1, <1>2, <1>4, NotNone DEF Known, RemoteEventOn, GrowthOn, HasRow, Exists, Served, Doing, Idle,
     LivingOn, VersionOn, ShapeOf, ConflictOn, FetchOn, Synced
<1> QED BY <1>1, <1>3, <1>4, <1>5, GrowthWhen

\* Contents are as they were.
LEMMA CreateGrowth ==
    ASSUME Struct, Struct', NEW d \in Device, NEW f \in Main, CreateOn(d, f),
           Live(f), Live(f)', VersionOf(f), EmptyOf(f), GrowthOf(f), f \notin spoiled'
    PROVE  GrowthOf(f)'
<1>1. /\ f \in File /\ f # None /\ VersionOn(d, f) /\ ShapeOf(d)
      /\ GrowthOn(d, f) /\ LivingOn(d, f) /\ LivingOn(d, f)'
  BY FileAssumption, NotNone, Parts DEF VersionOf, GrowthOf, Live
<1>2. Known(d, f)
  BY <1>1, KnownOf
<1>3. Alone(d)
  BY DEF CreateOn, Subject
<1>4. store'[f] = store[f]
  BY DEF CreateOn
<1>5. GrowthOn(d, f)'
  BY <1>1, <1>2, <1>4, NotNone DEF Known, CreateOn, GrowthOn, HasRow, Exists, Served, Doing, Idle,
     LivingOn, VersionOn, ShapeOf
<1> QED BY <1>1, <1>3, <1>4, <1>5, GrowthWhen

\* What is stored holds what was stored.
LEMMA PutGrowth ==
    ASSUME Struct, Struct', NEW d \in Device, NEW f \in Main, PutOn(d, f),
           Live(f), Live(f)', VersionOf(f), EmptyOf(f), GrowthOf(f), f \notin spoiled'
    PROVE  GrowthOf(f)'
<1>1. /\ f \in File /\ f # None /\ VersionOn(d, f) /\ ShapeOf(d)
      /\ GrowthOn(d, f) /\ LivingOn(d, f) /\ LivingOn(d, f)'
  BY FileAssumption, NotNone, Parts DEF VersionOf, GrowthOf, Live
<1>2. Known(d, f)
  BY <1>1, KnownOf
<1>3. Alone(d)
  BY DEF PutOn, Subject
<1>4. GrowthOn(d, f)'
  BY <1>1, <1>2, StoredGrows, NotNone DEF Known, PutOn, GrowthOn, HasRow, Served, Doing, Idle, LivingOn
<1>5. ASSUME NEW x \in Device \ {d} PROVE GrowthOn(x, f)'
  BY <1>1, <1>2, <1>3, <1>5, StoredGrows DEF Known, PutOn, Alone, GrowthOf, GrowthOn, HasRow, Served,
     Doing
<1> QED BY <1>4, <1>5 DEF GrowthOf

\* So does what is stored although the reply is late.
LEMMA PutFailsGrowth ==
    ASSUME Struct, Struct', NEW d \in Device, NEW f \in Main, PutFailsOn(d, f),
           Live(f), Live(f)', VersionOf(f), EmptyOf(f), GrowthOf(f), f \notin spoiled'
    PROVE  GrowthOf(f)'
<1>1. /\ f \in File /\ f # None /\ VersionOn(d, f) /\ ShapeOf(d)
      /\ GrowthOn(d, f) /\ LivingOn(d, f) /\ LivingOn(d, f)'
  BY FileAssumption, NotNone, Parts DEF VersionOf, GrowthOf, Live
<1>2. Known(d, f)
  BY <1>1, KnownOf
<1>3. Alone(d)
  BY DEF PutFailsOn, Subject
<1>4. GrowthOn(d, f)'
  BY <1>1, <1>2, StoredGrows, NotNone DEF Known, PutFailsOn, GrowthOn, HasRow, Served, Doing, Idle,
     LivingOn
<1>5. ASSUME NEW x \in Device \ {d} PROVE GrowthOn(x, f)'
  BY <1>1, <1>2, <1>3, <1>5, StoredGrows DEF Known, PutFailsOn, Alone, GrowthOf, GrowthOn, HasRow, Served,
     Doing
<1> QED BY <1>4, <1>5 DEF GrowthOf

\* The new base is in the file, and in what is served.
LEMMA RecordGrowth ==
    ASSUME Struct, Struct', NEW d \in Device, NEW f \in Main, RecordOn(d, f),
           Live(f), Live(f)', VersionOf(f), EmptyOf(f), GrowthOf(f), f \notin spoiled'
    PROVE  GrowthOf(f)'
<1>1. /\ f \in File /\ f # None /\ VersionOn(d, f) /\ ShapeOf(d)
      /\ GrowthOn(d, f) /\ LivingOn(d, f) /\ LivingOn(d, f)'
  BY FileAssumption, NotNone, Parts DEF VersionOf, GrowthOf, Live
<1>2. Known(d, f)
  BY <1>1, KnownOf
<1>3. Alone(d)
  BY DEF RecordOn, Subject
<1>4. store'[f] = store[f]
  BY DEF RecordOn
<1>5. GrowthOn(d, f)'
  BY <1>1, <1>2, <1>4, NotNone DEF Known, RecordOn, GrowthOn, HasRow, Exists, Served, Doing, Idle,
     LivingOn, VersionOn, ShapeOf
<1> QED BY <1>1, <1>3, <1>4, <1>5, GrowthWhen

\* A merge holds the base; an overwrite makes base, file and served content the same.
LEMMA GetGrowth ==
    ASSUME Struct, Struct', NEW d \in Device, NEW f \in Main, GetOn(d, f),
           Live(f), Live(f)', VersionOf(f), EmptyOf(f), GrowthOf(f), f \notin spoiled'
    PROVE  GrowthOf(f)'
<1>1. /\ f \in File /\ f # None /\ VersionOn(d, f) /\ ShapeOf(d)
      /\ GrowthOn(d, f) /\ LivingOn(d, f) /\ LivingOn(d, f)'
  BY FileAssumption, NotNone, Parts DEF VersionOf, GrowthOf, Live
<1>2. Known(d, f)
  BY <1>1, KnownOf
<1>3. Alone(d)
  BY DEF GetOn, Subject
<1>4. store'[f] = store[f] /\ HasRow(d, f) /\ Doing(d, {"get"}, f)
  BY DEF GetOn, Doing
<1>5. ASSUME GrowthOn(d, f)' PROVE GrowthOf(f)'
  BY <1>1, <1>3, <1>4, <1>5, GrowthWhen
<1>6. /\ row[d][f].base \subseteq job[d].seen /\ job[d].seen \subseteq disk[d][f]
      /\ Served(f) => row[d][f].base \subseteq store[f].data
      /\ row[d][f].ver = 0 => row[d][f].base = {}
  BY <1>1, <1>4 DEF GrowthOn
<1>7. CASE ~Served(f)
  <2>1. job'[d] = Idle /\ UNCHANGED <<disk, row>>
    BY <1>7 DEF GetOn
  <2> QED BY <1>1, <1>4, <1>5, <2>1 DEF GrowthOn, HasRow, Served, Doing, Idle
<1>8. ASSUME Served(f), job[d].seen = store[f].data, row'[d][f] = Synced(store[f]), job'[d] = Idle,
             UNCHANGED disk
      PROVE  GrowthOf(f)'
  <2>1. row'[d][f].base = store[f].data /\ row'[d][f].ver = store[f].ver
    BY <1>8 DEF Synced
  <2> QED BY <1>2, <1>4, <1>5, <1>6, <1>8, <2>1 DEF Known, GrowthOn, Doing, Idle
<1>9. ASSUME Served(f), disk'[d][f] = Merged(row[d][f].base, job[d].seen, store[f].data), UNCHANGED row,
             job'[d] = [at |-> "upload", file |-> f, seen |-> None]
      PROVE  GrowthOf(f)'
  <2>1. row[d][f].base \subseteq disk'[d][f]
    BY <1>6, <1>9 DEF Merged
  <2> QED BY <1>1, <1>4, <1>5, <1>6, <1>9, <2>1 DEF GrowthOn, HasRow, Served, Doing
<1>10. ASSUME Served(f), disk'[d][f] = store[f].data, row'[d][f] = Synced(store[f]),
              job'[d] = [at |-> "copy", file |-> f, seen |-> job[d].seen]
       PROVE  GrowthOf(f)'
  <2>1. row'[d][f].base = store[f].data /\ row'[d][f].ver = store[f].ver
    BY <1>10 DEF Synced
  <2> QED BY <1>2, <1>4, <1>5, <1>10, <2>1 DEF Known, GrowthOn, Doing
<1>11. f \in meta
  BY <1>1, <1>4 DEF LivingOn, Doing
<1> QED BY <1>7, <1>8, <1>9, <1>10, <1>11 DEF GetOn

\* A fetch takes file and row from the same content.
LEMMA PullGrowth ==
    ASSUME Struct, Struct', NEW d \in Device, NEW f \in Main, PullOn(d, f),
           Live(f), Live(f)', VersionOf(f), EmptyOf(f), GrowthOf(f), f \notin spoiled'
    PROVE  GrowthOf(f)'
<1>1. /\ f \in File /\ f # None /\ VersionOn(d, f) /\ ShapeOf(d)
      /\ GrowthOn(d, f) /\ LivingOn(d, f) /\ LivingOn(d, f)'
  BY FileAssumption, NotNone, Parts DEF VersionOf, GrowthOf, Live
<1>2. Known(d, f)
  BY <1>1, KnownOf
<1>3. Alone(d)
  BY DEF PullOn, Subject
<1>4. store'[f] = store[f]
  BY DEF PullOn
<1>5. GrowthOn(d, f)'
  BY <1>1, <1>2, <1>4, NotNone DEF Known, PullOn, GrowthOn, HasRow, Exists, Served, Doing, Idle, LivingOn,
     VersionOn, ShapeOf, ConflictOn, FetchOn, Synced
<1> QED BY <1>1, <1>3, <1>4, <1>5, GrowthWhen

\* Contents are as they were.
LEMMA PushGrowth ==
    ASSUME Struct, Struct', NEW d \in Device, NEW f \in Main, PushOn(d, f),
           Live(f), Live(f)', VersionOf(f), EmptyOf(f), GrowthOf(f), f \notin spoiled'
    PROVE  GrowthOf(f)'
<1>1. /\ f \in File /\ f # None /\ VersionOn(d, f) /\ ShapeOf(d)
      /\ GrowthOn(d, f) /\ LivingOn(d, f) /\ LivingOn(d, f)'
  BY FileAssumption, NotNone, Parts DEF VersionOf, GrowthOf, Live
<1>2. Known(d, f)
  BY <1>1, KnownOf
<1>3. Alone(d)
  BY DEF PushOn, Subject
<1>4. store'[f] = store[f]
  BY DEF PushOn
<1>5. GrowthOn(d, f)'
  BY <1>1, <1>2, <1>4, NotNone DEF Known, PushOn, GrowthOn, HasRow, Exists, Served, Doing, Idle, LivingOn,
     VersionOn, ShapeOf
<1> QED BY <1>1, <1>3, <1>4, <1>5, GrowthWhen

\* The file of a user is not written by it.
LEMMA CopyGrowth ==
    ASSUME Struct, Struct', NEW d \in Device, NEW f \in Main, CopyOn(d, f, CopyName[d][f]),
           Live(f), Live(f)', VersionOf(f), EmptyOf(f), GrowthOf(f), f \notin spoiled'
    PROVE  GrowthOf(f)'
<1>1. /\ f \in File /\ f # None /\ VersionOn(d, f) /\ ShapeOf(d)
      /\ GrowthOn(d, f) /\ LivingOn(d, f) /\ LivingOn(d, f)'
  BY FileAssumption, NotNone, Parts DEF VersionOf, GrowthOf, Live
<1>2. Known(d, f)
  BY <1>1, KnownOf
<1>3. Alone(d)
  BY DEF CopyOn, Subject
<1>4. store'[f] = store[f]
  BY DEF CopyOn
<1>5. GrowthOn(d, f)'
  BY <1>1, <1>2, <1>4, NotNone DEF Known, CopyOn, GrowthOn, HasRow, Exists, Served, Doing, Idle, LivingOn,
     VersionOn, ShapeOf
<1> QED BY <1>1, <1>3, <1>4, <1>5, GrowthWhen

\* Contents are as they were.
LEMMA CrashGrowth ==
    ASSUME Struct, Struct', NEW d \in Device, NEW f \in Main, CrashOn(d),
           Live(f), Live(f)', VersionOf(f), EmptyOf(f), GrowthOf(f), f \notin spoiled'
    PROVE  GrowthOf(f)'
<1>1. /\ f \in File /\ f # None /\ VersionOn(d, f) /\ ShapeOf(d)
      /\ GrowthOn(d, f) /\ LivingOn(d, f) /\ LivingOn(d, f)'
  BY FileAssumption, NotNone, Parts DEF VersionOf, GrowthOf, Live
<1>2. Known(d, f)
  BY <1>1, KnownOf
<1>3. Alone(d)
  BY DEF CrashOn, Subject
<1>4. store'[f] = store[f]
  BY DEF CrashOn
<1>5. GrowthOn(d, f)'
  BY <1>1, <1>2, <1>4, NotNone DEF Known, CrashOn, GrowthOn, HasRow, Exists, Served, Doing, Idle,
     LivingOn, VersionOn, ShapeOf
<1> QED BY <1>1, <1>3, <1>4, <1>5, GrowthWhen

\* A row made at boot has an empty base.
LEMMA BootGrowth ==
    ASSUME Struct, Struct', NEW d \in Device, NEW f \in Main, BootOn(d),
           Live(f), Live(f)', VersionOf(f), EmptyOf(f), GrowthOf(f), f \notin spoiled'
    PROVE  GrowthOf(f)'
<1>1. /\ f \in File /\ f # None /\ VersionOn(d, f) /\ ShapeOf(d)
      /\ GrowthOn(d, f) /\ LivingOn(d, f) /\ LivingOn(d, f)'
  BY FileAssumption, NotNone, Parts DEF VersionOf, GrowthOf, Live
<1>2. Known(d, f)
  BY <1>1, KnownOf
<1>3. Alone(d)
  BY DEF BootOn, Subject
<1>4. store'[f] = store[f] /\ disk' = disk /\ job' = job /\ job[d] = Idle
  BY <1>1 DEF BootOn, ShapeOf
<1>5. row'[d][f] = row[d][f] \/ row'[d][f] = None \/ row'[d][f] = DefaultRow
  BY <1>1 DEF BootOn
<1>6. CASE row'[d][f] = row[d][f]
  <2>1. GrowthOn(d, f)'
    BY <1>1, <1>4, <1>6 DEF GrowthOn, HasRow, Served, Doing, Idle
  <2> QED BY <1>1, <1>3, <1>4, <2>1, GrowthWhen
<1>7. CASE row'[d][f] = None
  <2>1. GrowthOn(d, f)'
    BY <1>1, <1>4, <1>7 DEF GrowthOn, HasRow, Doing, Idle
  <2> QED BY <1>1, <1>3, <1>4, <2>1, GrowthWhen
<1>8. CASE row'[d][f] = DefaultRow
  <2>1. row'[d][f].base = {}
    BY <1>8 DEF DefaultRow
  <2>2. GrowthOn(d, f)'
    BY <1>1, <1>4, <2>1 DEF GrowthOn, Doing, Idle
  <2> QED BY <1>1, <1>3, <1>4, <2>2, GrowthWhen
<1> QED BY <1>5, <1>6, <1>7, <1>8

\* Contents are as they were.
LEMMA PullEndsGrowth ==
    ASSUME Struct, Struct', NEW d \in Device, NEW f \in Main, PullEndsOn(d),
           Live(f), Live(f)', VersionOf(f), EmptyOf(f), GrowthOf(f), f \notin spoiled'
    PROVE  GrowthOf(f)'
<1>1. /\ f \in File /\ f # None /\ VersionOn(d, f) /\ ShapeOf(d)
      /\ GrowthOn(d, f) /\ LivingOn(d, f) /\ LivingOn(d, f)'
  BY FileAssumption, NotNone, Parts DEF VersionOf, GrowthOf, Live
<1>2. Known(d, f)
  BY <1>1, KnownOf
<1>3. Alone(d)
  BY DEF PullEndsOn, Subject
<1>4. store'[f] = store[f]
  BY DEF PullEndsOn
<1>5. GrowthOn(d, f)'
  BY <1>1, <1>2, <1>4, NotNone DEF Known, PullEndsOn, GrowthOn, HasRow, Exists, Served, Doing, Idle,
     LivingOn, VersionOn, ShapeOf
<1> QED BY <1>1, <1>3, <1>4, <1>5, GrowthWhen

\* Contents are as they were.
LEMMA PushEndsGrowth ==
    ASSUME Struct, Struct', NEW d \in Device, NEW f \in Main, PushEndsOn(d),
           Live(f), Live(f)', VersionOf(f), EmptyOf(f), GrowthOf(f), f \notin spoiled'
    PROVE  GrowthOf(f)'
<1>1. /\ f \in File /\ f # None /\ VersionOn(d, f) /\ ShapeOf(d)
      /\ GrowthOn(d, f) /\ LivingOn(d, f) /\ LivingOn(d, f)'
  BY FileAssumption, NotNone, Parts DEF VersionOf, GrowthOf, Live
<1>2. Known(d, f)
  BY <1>1, KnownOf
<1>3. Alone(d)
  BY DEF PushEndsOn, Subject
<1>4. store'[f] = store[f]
  BY DEF PushEndsOn
<1>5. GrowthOn(d, f)'
  BY <1>1, <1>2, <1>4, NotNone DEF Known, PushEndsOn, GrowthOn, HasRow, Exists, Served, Doing, Idle,
     LivingOn, VersionOn, ShapeOf
<1> QED BY <1>1, <1>3, <1>4, <1>5, GrowthWhen

\* Every step keeps the seventh layer.
LEMMA GrowthStep ==
    ASSUME Struct, Struct', CopiesInv, Step, LifeInv, LifeInv', VersionInv, EmptyInv, GrowthInv
    PROVE  GrowthInv'
<1> SUFFICES ASSUME NEW f \in Main, f \notin spoiled', ~Deleting(f)' PROVE GrowthOf(f)'
  BY DEF GrowthInv
<1>1. f \in File /\ f \notin spoiled /\ StepOf(f)
  BY FileSteps, FileAssumption
<1>2. LifeOf(f) /\ LifeOf(f)' /\ VersionOf(f) /\ EmptyOf(f)
  BY <1>1 DEF LifeInv, VersionInv, EmptyInv
<1>3. CASE Deleting(f)
  <2>1. \A x \in Device : ~HasRow(x, f)' /\ job'[x].file # f
    BY <1>1, <1>2, <1>3, Ends
  <2> QED BY <2>1 DEF GrowthOf, GrowthOn, Doing
<1>4. CASE ~Deleting(f)
  <2>1. Live(f) /\ Live(f)' /\ GrowthOf(f)
    BY <1>1, <1>2, <1>4, LiveWhen DEF GrowthInv
  <2>2. CASE Still(f)
    BY <1>1, <2>1, <2>2, StillGrowth
  <2>3. ~PurgeOn(f)
    BY <1>1, <1>4, DeletingIs DEF Deletes, PurgeOn, Struct
  <2>4. ASSUME NEW d \in Device, ActsOn(d, f) PROVE GrowthOf(f)'
    <3>1. ASSUME NEW g \in File, f \in {g, CopyName[d][g]},
                 CopyOn(d, g, CopyName[d][g]) PROVE GrowthOf(f)'
      <4>1. f = g
        BY <3>1, FileAssumption
      <4> QED BY <1>1, <1>2, <2>1, <3>1, <4>1, CopyGrowth
    <3>2. CASE CrashOn(d) \/ BootOn(d) \/ PullEndsOn(d) \/ PushEndsOn(d)
      BY <1>2, <2>1, <3>2, CrashGrowth, BootGrowth, PullEndsGrowth, PushEndsGrowth
    <3>3. ~UserDeletesOn(d, f) /\ ~DeleteOn(d, f)
      <4>1. ~DeleteOn(d, f)
        BY <1>1, <1>4, DeletingIs DEF Deletes, DeleteOn, Struct, Doing
      <4>2. ~UserDeletesOn(d, f)
        BY <1>1, NotBusy, DeletingIsToo DEF Deletes, UserDeletesOn, Struct, Hears, Types
      <4> QED BY <4>1, <4>2
    <3>4. CASE f \in Main /\ \E e \in Edit : UserEditsOn(d, f, e)
      BY <1>2, <2>1, <3>4, UserEditsGrowth
    <3>5. CASE (\E t \in Types : LocalEventOn(d, t, f)) \/ \E k \in Kinds : RemoteEventOn(d, k, f)
      BY <1>2, <2>1, <3>5, LocalEventGrowth, RemoteEventGrowth
    <3>6. CASE CreateOn(d, f) \/ PutOn(d, f) \/ PutFailsOn(d, f)
      BY <1>2, <2>1, <3>6, CreateGrowth, PutGrowth, PutFailsGrowth
    <3>7. CASE RecordOn(d, f) \/ GetOn(d, f) \/ PullOn(d, f) \/ PushOn(d, f)
      BY <1>2, <2>1, <3>7, RecordGrowth, GetGrowth, PullGrowth, PushGrowth
    <3> QED BY <2>4, <3>1, <3>2, <3>3, <3>4, <3>5, <3>6, <3>7 DEF ActsOn
  <2> QED BY <1>1, <2>2, <2>3, <2>4 DEF StepOf
<1> QED BY <1>3, <1>4

\* In the beginning all contents of a file are the same.
LEMMA GrowthStart == ASSUME Init PROVE GrowthInv
<1> SUFFICES ASSUME NEW f \in Main, NEW d \in Device PROVE GrowthOn(d, f)
  BY DEF GrowthInv, GrowthOf
<1>1. job[d].at = "idle" /\ f \in File
  BY StructInit, FileAssumption DEF Idle
<1>2. disk[d][f] = store[f].data /\ row[d][f] = IF f \in meta THEN Synced(store[f]) ELSE None
  BY <1>1 DEF Init
<1>3. f \in meta => store[f].ver = 1
  BY <1>1 DEF Init
<1>4. HasRow(d, f) => row[d][f].base = store[f].data /\ row[d][f].ver = 1
  BY <1>2, <1>3 DEF HasRow, Synced
<1> QED BY <1>1, <1>2, <1>4 DEF GrowthOn, Doing

-----------------------------------------------------------------------------
(* Conflicted copies are kept. *)

\* The copy d makes of f: where it exists it is the same.
OnlyCopy(x, c, A) ==
    /\ disk[x][c] \in {None, A}
    /\ Doing(x, {"get", "record", "copy"}, c) => job[x].seen = A

\* x has nothing of it, and is not told of it.
NoCopy(x, c) == ~Exists(x, c) /\ job[x].file # c /\ ~Informed(x, c)

\* A copy never changes; until it is made it is nowhere.
CopyOf(d, c) ==
    /\ Exists(d, c) =>
         /\ store[c].data \in {None, disk[d][c]}
         /\ \A x \in Device : OnlyCopy(x, c, disk[d][c])
         /\ Pulling(d, c) => c \in had[d]
    /\ ~Exists(d, c) =>
         /\ store[c].data = None /\ c \notin meta /\ c \notin todo[d]
         /\ \A x \in Device : NoCopy(x, c)

\* The eighth layer: conflicted copies are kept.
CopyInv == \A f \in Main \ spoiled, d \in Device : CopyOf(d, CopyName[d][f])

\* A copy that is there stays as it is, whoever handles it.
LEMMA CopyKept ==
    ASSUME Struct, Struct', CopiesInv, NEW f \in Main, NEW d \in Device, f \notin spoiled',
           NEW c \in File, c = CopyName[d][f], CopyOf(d, c), Exists(d, c), NEW y \in Device, ActsOn(y, c)
    PROVE  /\ OnlyCopy(y, c, disk[d][c])'
           /\ disk'[d][c] = disk[d][c]
           /\ store'[c].data \in {None, disk[d][c]}
           /\ Pulling(d, c)' => c \in had'[d]
<1> DEFINE A == disk[d][c]
           Kept == /\ disk'[y][c] \in {None, A} /\ (disk[y][c] = A => disk'[y][c] = A)
                   /\ Doing(y, {"get", "record", "copy"}, c)' => job'[y].seen = A
                   /\ store'[c].data \in {None, A}
                   /\ y = d /\ Pulling(d, c)' => c \in had'[d]
<1>1. /\ c \in File \ Main /\ c \in File /\ c # None /\ A # None /\ A \in Content /\ Exists(d, c)
      /\ OnlyCopy(y, c, A) /\ store[c].data \in {None, A} /\ (y = d /\ Pulling(d, c) => c \in had[d])
      /\ ShapeOf(y)
  BY FileAssumption, NotNone, Parts DEF CopyOf, Exists
<1>2. /\ ~Told(y, "FILE-", c) /\ ~Doing(y, {"delete"}, c) /\ ~Heard(y, "deleted", c) /\ c \notin doomed
      /\ HasRow(y, c) <=> Exists(y, c)
      /\ Exists(y, c) => disk[y][c] = A /\ Read(y, c) = A
  BY <1>1 DEF CopiesInv, Plain, OnlyCopy, Exists, Read, Doing
<1> HIDE DEF A
<1>3. Kept
  <2>1. CASE CreateOn(y, c) \/ RecordOn(y, c) \/ PushOn(y, c)
    BY <1>1, <1>2, <2>1 DEF CreateOn, RecordOn, PushOn, OnlyCopy, Doing, Pulling, Idle
  <2>2. CASE PutOn(y, c) \/ PutFailsOn(y, c)
    BY <1>1, <1>2, <2>2 DEF PutOn, PutFailsOn, Stored, OnlyCopy, Doing, Pulling, Idle
  <2>3. CASE GetOn(y, c)
    <3>1. /\ job[y].seen = A /\ disk[y][c] = A /\ (Served(c) => store[c].data = A)
      BY <1>1, <1>2, <2>3 DEF GetOn, OnlyCopy, Doing, Served
    <3>2. disk'[y][c] = A
      BY <3>1, <2>3 DEF GetOn, Merged
    <3> QED BY <1>1, <2>3, <3>1, <3>2 DEF GetOn, Doing, Pulling, Idle
  <2>4. CASE PullOn(y, c)
    <3>1. CASE c \in had[y]
      BY <1>1, <1>2, <2>4, <3>1 DEF PullOn, ConflictOn, OnlyCopy, Doing, Pulling, ShapeOf
    <3>2. CASE c \notin had[y]
      BY <1>1, <1>2, <2>4, <3>2 DEF PullOn, FetchOn, OnlyCopy, Doing, Pulling, Served, Idle
    <3> QED BY <3>1, <3>2
  <2>5. CASE CrashOn(y) \/ BootOn(y) \/ PullEndsOn(y) \/ PushEndsOn(y)
    <3>1. disk' = disk /\ store' = store /\ (job'[y] = job[y] \/ job'[y] = Idle)
      BY <2>5 DEF CrashOn, BootOn, PullEndsOn, PushEndsOn
    <3>2. Pulling(y, c)' => BootOn(y)
      BY <1>1, <2>5 DEF CrashOn, BootOn, PullEndsOn, PushEndsOn, Pulling
    <3>3. y = d /\ BootOn(y) => c \in had'[d]
      BY <1>1 DEF BootOn
    <3> QED BY <1>1, <3>1, <3>2, <3>3 DEF OnlyCopy, Doing, Idle
  <2>6. ASSUME NEW t \in Types, LocalEventOn(y, t, c) PROVE Kept
    BY <1>1, <1>2, <2>6 DEF LocalEventOn, OnlyCopy, Doing, Pulling, Idle
  <2>7. ASSUME NEW k \in Kinds, RemoteEventOn(y, k, c) PROVE Kept
    <3>1. k # "FILE-"
      BY <1>2, <2>7 DEF RemoteEventOn
    <3>2. CASE HasRow(y, c)
      BY <1>1, <1>2, <2>7, <3>1, <3>2 DEF RemoteEventOn, ConflictOn, OnlyCopy, Doing, Pulling
    <3>3. CASE ~HasRow(y, c)
      BY <1>1, <1>2, <2>7, <3>1, <3>3 DEF RemoteEventOn, FetchOn, OnlyCopy, Doing, Pulling, Served, Idle
    <3> QED BY <3>2, <3>3
  <2>8. ASSUME NEW g \in File, c \in {g, CopyName[y][g]}, CopyOn(y, g, CopyName[y][g]) PROVE Kept
    <3>1. c # CopyName[y][g]
      BY <2>8, CopyAssumption DEF CopyOn
    <3>2. c = g /\ CopyName[y][g] \in File
      BY <2>8, <3>1, FileAssumption
    <3> QED BY <1>1, <2>8, <3>1, <3>2 DEF CopyOn, OnlyCopy, Doing, Pulling
  <2>9. ~DeleteOn(y, c)
    BY <1>2 DEF DeleteOn, Doing
  <2> QED BY <1>1, <2>1, <2>2, <2>3, <2>4, <2>5, <2>6, <2>7, <2>8, <2>9 DEF ActsOn
<1>4. y # d => disk'[d] = disk[d] /\ (Pulling(d, c)' <=> Pulling(d, c)) /\ had'[d] = had[d]
  BY <1>1, ActsAlone DEF Alone, Pulling
<1>5. disk'[d][c] = A /\ (Pulling(d, c)' => c \in had'[d])
  BY <1>1, <1>3, <1>4 DEF CopyOf, A, Pulling
<1> QED BY <1>3, <1>5 DEF OnlyCopy, A, Doing

\* A copy that is not there is nowhere, until d makes it.
LEMMA CopyMade ==
    ASSUME Struct, Struct', CopiesInv, NEW f \in Main, NEW d \in Device,
           NEW c \in File, c = CopyName[d][f], CopyOf(d, c), ~Exists(d, c), NEW y \in Device, ActsOn(y, c)
    PROVE  CopyOf(d, c)'
<1>1. /\ c \in File \ Main /\ c \in File /\ c # None
      /\ store[c].data = None /\ ~Served(c) /\ c \notin meta /\ c \notin todo[d]
      /\ ShapeOf(y) /\ \A x \in Device : NoCopy(x, c)
  BY FileAssumption, NotNone, Parts DEF CopyOf, Served
<1>2. /\ ~Exists(y, c) /\ job[y].file # c /\ ~HasRow(y, c) /\ c \notin had[y] /\ ~Exists(d, c)
      /\ \A k \in Kinds : ~Told(y, k, c)
      /\ \A t \in Types : ~Heard(y, t, c)
  BY <1>1 DEF CopiesInv, Plain, NoCopy, Informed, Types, Kinds, ShapeOf
<1>3. Alone(y)
  BY <1>1, ActsAlone
<1>4. ASSUME NEW g \in File, c = CopyName[y][g], CopyOn(y, g, c) PROVE CopyOf(d, c)'
  <2>1. y = d /\ g = f /\ CopyOn(d, f, c)
    <3>1. CopyName[d][f] = CopyName[y][g]
      BY <1>4
    <3>2. d = y /\ f = g
      BY <3>1, CopyAssumption
    <3> QED BY <1>4, <3>2
  <2>2. /\ disk'[d][c] = job[d].seen /\ Exists(d, c)' /\ store' = store /\ todo' = todo
        /\ job'[d].at = "create" /\ phase' = phase
    BY <2>1 DEF CopyOn, Exists
  <2>3. ASSUME NEW x \in Device \ {d} PROVE OnlyCopy(x, c, disk[d][c])'
    BY <1>1, <1>3, <2>1, <2>3 DEF Alone, NoCopy, OnlyCopy, Exists, Doing
  <2>4. OnlyCopy(d, c, disk[d][c])'
    BY <2>2 DEF OnlyCopy, Doing
  <2> QED BY <1>1, <2>2, <2>3, <2>4 DEF CopyOf, Pulling
<1>5. CASE \A g \in File : c = CopyName[y][g] => ~CopyOn(y, g, c)
  <2>1. ~(CreateOn(y, c) \/ RecordOn(y, c) \/ PutOn(y, c) \/ PutFailsOn(y, c) \/ GetOn(y, c) \/ DeleteOn(y, c))
    BY <1>2 DEF CreateOn, RecordOn, PutOn, PutFailsOn, GetOn, DeleteOn
  <2>2. /\ \A t \in Types : ~LocalEventOn(y, t, c)
        /\ \A k \in Kinds : ~RemoteEventOn(y, k, c)
        /\ ~PushOn(y, c)
        /\ \A g \in File : c = g => ~CopyOn(y, g, CopyName[y][g])
    BY <1>1, <1>2 DEF LocalEventOn, RemoteEventOn, PushOn, ShapeOf, CopyOn
  <2>3. CASE PullOn(y, c)
    <3>1. y # d /\ FetchOn(y, c) /\ SameTold
      BY <1>1, <1>2, <2>3 DEF PullOn
    <3>2. disk' = disk /\ job' = job /\ store' = store /\ meta' = meta
      BY <1>1, <2>3, <3>1 DEF FetchOn, PullOn
    <3>3. todo'[d] = todo[d]
      BY <1>3, <3>1 DEF Alone
    <3>4. \A x \in Device : NoCopy(x, c)'
      BY <1>1, <3>1, <3>2 DEF NoCopy, Exists, SameTold, Informed, Kinds
    <3> QED BY <1>1, <1>2, <3>2, <3>3, <3>4 DEF CopyOf, Exists
  <2>4. CASE CrashOn(y) \/ BootOn(y) \/ PullEndsOn(y) \/ PushEndsOn(y)
    <3>1. disk' = disk /\ store' = store /\ meta' = meta /\ job'[y] \in {job[y], Idle}
      BY <2>4 DEF CrashOn, BootOn, PullEndsOn, PushEndsOn
    <3>2. \A x \in Device, k \in Kinds : Told(x, k, c)' => Told(x, k, c)
      BY <1>1, <2>4 DEF CrashOn, BootOn, PullEndsOn, PushEndsOn, SameTold
    <3>3. c \notin todo'[y] \/ y # d
      BY <1>1, <1>2, <2>4 DEF CrashOn, BootOn, PullEndsOn, PushEndsOn
    <3>4. c \notin todo'[d]
      BY <1>1, <1>3, <3>3 DEF Alone
    <3>5. \A x \in Device : NoCopy(x, c)'
      BY <1>1, <1>3, <3>1, <3>2 DEF NoCopy, Exists, Informed, Kinds, Alone, Idle
    <3> QED BY <1>1, <1>2, <3>1, <3>4, <3>5 DEF CopyOf, Exists
  <2> QED BY <1>1, <1>5, <2>1, <2>2, <2>3, <2>4 DEF ActsOn
<1> QED BY <1>4, <1>5

\* Every step keeps the eighth layer, and the copy.
LEMMA CopyStep ==
    ASSUME Struct, Struct', CopiesInv, Step, CopyInv, NEW f \in Main, f \notin spoiled', NEW d \in Device
    PROVE  /\ CopyOf(d, CopyName[d][f])'
           /\ Exists(d, CopyName[d][f]) => disk'[d][CopyName[d][f]] = disk[d][CopyName[d][f]]
<1> SUFFICES ASSUME NEW c \in File \ Main, c = CopyName[d][f]
             PROVE  CopyOf(d, c)' /\ (Exists(d, c) => disk'[d][c] = disk[d][c])
  BY FileAssumption
<1>1. f \notin spoiled /\ CopyOf(d, c) /\ (StepOf(c) \/ LoseNoticeOn(c)) /\ c \in File
  BY AnySteps DEF CopyInv
<1>2. CASE Still(c)
  <2>1. /\ \A x \in Device : OwnStill(x, c)
        /\ ServerStill(c)
    BY <1>2 DEF Still
  <2>2. /\ disk'[d][c] = disk[d][c] /\ store'[c] = store[c] /\ (c \in meta' <=> c \in meta)
        /\ c \in todo'[d] <=> c \in todo[d]
        /\ c \in had'[d] <=> c \in had[d]
        /\ phase'[d] = phase[d]
    BY <2>1 DEF OwnStill, ServerStill
  <2>3. \A x \in Device : NoCopy(x, c) => NoCopy(x, c)'
    BY <2>1 DEF NoCopy, OwnStill, ServerStill, ToldStill, Exists, Informed, Kinds
  <2>4. \A x \in Device : OnlyCopy(x, c, disk[d][c]) => OnlyCopy(x, c, disk[d][c])'
    BY <2>1, <2>2 DEF OnlyCopy, OwnStill, Doing
  <2> QED BY <1>1, <2>2, <2>3, <2>4 DEF CopyOf, Exists, Pulling
<1>3. CASE LoseNoticeOn(c)
  <2>1. UNCHANGED <<disk, phase, todo, had, job, meta, store>>
    BY <1>3 DEF LoseNoticeOn
  <2>2. \A x \in Device : NoCopy(x, c) => NoCopy(x, c)'
    BY <1>1, <1>3, <2>1 DEF LoseNoticeOn, NoCopy, Exists, Informed, Kinds
  <2>3. \A x \in Device : OnlyCopy(x, c, disk[d][c]) => OnlyCopy(x, c, disk[d][c])'
    BY <2>1 DEF OnlyCopy, Doing
  <2> QED BY <1>1, <2>1, <2>2, <2>3 DEF CopyOf, Exists, Pulling
<1>4. ~PurgeOn(c)
  BY DEF PurgeOn, CopiesInv, Plain
<1>5. ASSUME NEW y \in Device, ActsOn(y, c), Exists(d, c) PROVE CopyOf(d, c)' /\ disk'[d][c] = disk[d][c]
  <2>1. /\ OnlyCopy(y, c, disk[d][c])' /\ disk'[d][c] = disk[d][c]
        /\ store'[c].data \in {None, disk[d][c]}
        /\ Pulling(d, c)' => c \in had'[d]
    BY <1>1, <1>5, CopyKept
  <2>2. ASSUME NEW x \in Device \ {y} PROVE OnlyCopy(x, c, disk[d][c])'
    <3>1. OnlyCopy(x, c, disk[d][c])
      BY <1>1, <1>5 DEF CopyOf
    <3>2. disk'[x] = disk[x] /\ job'[x] = job[x]
      BY <1>1, <1>5, ActsAlone DEF Alone
    <3> QED BY <2>1, <3>1, <3>2 DEF OnlyCopy, Doing
  <2> QED BY <1>5, <2>1, <2>2 DEF CopyOf, Exists
<1>6. ASSUME NEW y \in Device, ActsOn(y, c), ~Exists(d, c) PROVE CopyOf(d, c)'
  BY <1>1, <1>6, CopyMade
<1> QED BY <1>1, <1>2, <1>3, <1>4, <1>5, <1>6 DEF StepOf

\* In the beginning there are no copies.
LEMMA CopyStart == ASSUME Init PROVE CopyInv
<1> SUFFICES ASSUME NEW f \in Main, NEW d \in Device, NEW c \in File \ Main, c = CopyName[d][f]
             PROVE  CopyOf(d, c)
  BY FileAssumption DEF CopyInv
<1>1. /\ c \notin meta /\ todo[d] = {} /\ store[c] = NoData
      /\ \A x \in Device : disk[x][c] = None
  BY FileAssumption DEF Init, NoData
<1>2. \A x \in Device : job[x] = Idle /\ ~Informed(x, c)
  BY StructInit DEF Informed, Kinds
<1> QED BY <1>1, <1>2, NotNone DEF CopyOf, NoCopy, Exists, Idle, NoData

-----------------------------------------------------------------------------
(* Edits. *)

\* The edit is in a conflicted copy, on the device that made it.
InCopies(e, f) == \E d \in Device : Holds(disk[d][CopyName[d][f]], e)

\* The edit is served, in the file on some device, or on its way to a copy.
InUse(e, f) ==
    \/ Holds(store[f].data, e)
    \/ \E d \in Device : Holds(disk[d][f], e) \/ (Doing(d, {"copy"}, f) /\ e \in job[d].seen)

\* An edit that nobody deleted is in a copy, or in a file that is not being deleted.
EditOf(f) == \A e \in Edit \ dropped : madeIn[e] = f => InCopies(e, f) \/ (~Deleting(f) /\ InUse(e, f))

\* The ninth layer: no edit is lost.
EditInv == \A f \in Main \ spoiled : EditOf(f)

\* Edits are made, and dropped, by users only.
LEMMA MadeBy ==
    ASSUME Struct, Step, NEW f \in Main, NEW e \in Edit, madeIn'[e] = f
    PROVE  /\ dropped \subseteq dropped'
           /\ \/ madeIn[e] = f
              \/ \E d \in Device : UserEditsOn(d, f, e)
<1>1. madeIn \in [Edit -> Main \cup {None}]
  BY TypeParts DEF Struct, RestOK
<1>2. ASSUME NEW d \in Device, NEW g \in Main, NEW h \in Edit, UserEditsOn(d, g, h)
      PROVE  dropped' = dropped /\ (madeIn[e] = f \/ UserEditsOn(d, f, e))
  BY <1>1, <1>2 DEF UserEditsOn
<1>3. ASSUME NEW d \in Device, NEW g \in Main, UserDeletesOn(d, g)
      PROVE  dropped \subseteq dropped' /\ madeIn' = madeIn
  BY <1>3 DEF UserDeletesOn
<1>4. CASE Rests \/ \E g \in File : LoseNoticeOn(g) \/ PurgeOn(g)
  BY <1>4 DEF Rests, LoseNoticeOn, PurgeOn
<1>5. ASSUME NEW d \in Device, Acts(d),
             \A g \in Main : ~UserDeletesOn(d, g) /\ \A h \in Edit : ~UserEditsOn(d, g, h)
      PROVE  dropped' = dropped /\ madeIn' = madeIn
  <2>1. CASE CrashOn(d) \/ BootOn(d) \/ PullEndsOn(d) \/ PushEndsOn(d)
    BY <2>1 DEF CrashOn, BootOn, PullEndsOn, PushEndsOn
  <2>2. ASSUME NEW g \in File, \/ \E t \in Types : LocalEventOn(d, t, g)
                               \/ \E k \in Kinds : RemoteEventOn(d, k, g)
        PROVE  dropped' = dropped /\ madeIn' = madeIn
    BY <2>2 DEF LocalEventOn, RemoteEventOn
  <2>3. ASSUME NEW g \in File,
               CreateOn(d, g) \/ DeleteOn(d, g) \/ PutOn(d, g) \/ PutFailsOn(d, g) \/ RecordOn(d, g)
        PROVE  dropped' = dropped /\ madeIn' = madeIn
    BY <2>3 DEF CreateOn, DeleteOn, PutOn, PutFailsOn, RecordOn
  <2>4. ASSUME NEW g \in File, GetOn(d, g) \/ CopyOn(d, g, CopyName[d][g]) \/ PullOn(d, g) \/ PushOn(d, g)
        PROVE  dropped' = dropped /\ madeIn' = madeIn
    BY <2>4 DEF GetOn, CopyOn, PullOn, PushOn
  <2> QED BY <1>5, <2>1, <2>2, <2>3, <2>4 DEF Acts
<1> QED BY <1>2, <1>3, <1>4, <1>5 DEF Step, Acts

\* A file nobody is busy with is the same everywhere.  It is QuietAgree for one file,
\* and the reason why a deletion that overlaps with nothing drops every edit it takes along.
LEMMA Calm ==
    ASSUME Struct, NEW f \in File, f \notin spoiled, LifeInv, VersionInv, AgreeInv, ~Busy(f),
           NEW d \in Device
    PROVE  disk[d][f] = IF f \in meta THEN store[f].data ELSE None
<1>1. /\ \A x \in Device, t \in Types : ~Heard(x, t, f)
      /\ \A x \in Device, k \in Kinds : ~Told(x, k, f)
      /\ \A x \in Device : phase[x] = "on" /\ job[x].file # f
      /\ f \notin doomed /\ ~Deleting(f)
  BY NotBusy DEF Struct
<1>2. Live(f) /\ Agreed(f) /\ VersionOf(f)
  BY <1>1, LiveWhen DEF LifeInv, AgreeInv, VersionInv
<1>3. LivingOn(d, f) /\ AgreeOn(d, f) /\ VersionOn(d, f) /\ (f \in meta => Served(f))
  BY <1>1, <1>2 DEF Live, Agreed, Borne, Bearer, VersionOf, Pulling, Doing, Types
<1>4. CASE f \in meta
  BY <1>1, <1>3, <1>4 DEF AgreeOn, VersionOn, Informed, Doing, Pulling, Dirty, Types, Kinds
<1>5. CASE f \notin meta
  BY <1>1, <1>3, <1>5 DEF LivingOn, Doing, Exists, Types
<1> QED BY <1>4, <1>5

\* Only a user begins a deletion of a file that is no copy.
LEMMA Started ==
    ASSUME Struct, Struct', NEW f \in File, f \notin spoiled', StepOf(f), ~Deleting(f),
           \A d \in Device : ~UserDeletesOn(d, f),
           \A d \in Device, g \in File : f = CopyName[d][g] => ~CopyOn(d, g, f)
    PROVE  ~Deleting(f)' /\ ~PurgeOn(f) /\ \A d \in Device : ~DeleteOn(d, f)
<1>1. (Deleting(f) <=> Deletes(f)) /\ (Deleting(f)' <=> Deletes(f)') /\ f # None
  BY DeletingIs, DeletingIsToo, NotNone DEF Struct
<1>2. ~PurgeOn(f) /\ \A d \in Device : ~DeleteOn(d, f)
  BY <1>1 DEF Deletes, PurgeOn, DeleteOn, Doing
<1>3. CASE Still(f)
  BY <1>2, <1>3, StillLife
<1>4. ASSUME NEW d \in Device, ActsOn(d, f) PROVE ~Deleting(f)'
  <2>1. Alone(d)
    BY <1>4, ActsAlone
  <2>2. ASSUME NEW x \in Device \ {d}
        PROVE ~Heard(x, "deleted", f)' /\ ~(job'[x].file = f /\ job'[x].at = "delete")
    BY <1>1, <2>1, <2>2 DEF Deletes, Alone, HeardStill, Types, Doing
  <2>3. /\ f \notin doomed' /\ ~Heard(d, "deleted", f)' /\ ~(job'[d].file = f /\ job'[d].at = "delete")
        /\ \A x \in Device : ~Told(x, "FILE-", f)'
    <3>1. CASE CreateOn(d, f) \/ PutOn(d, f) \/ PutFailsOn(d, f)
      BY <1>1, <3>1 DEF Deletes, CreateOn, PutOn, PutFailsOn, Stored, SameHeard, SameTold, Tells, Types,
         Kinds, Doing, Idle
    <3>2. CASE RecordOn(d, f) \/ GetOn(d, f)
      BY <1>1, <3>2 DEF Deletes, RecordOn, GetOn, SameHeard, SameTold, Hears, Wrote, Types, Kinds, Doing,
         Idle
    <3>3. CASE PullOn(d, f) \/ PushOn(d, f)
      BY <1>1, <3>3 DEF Deletes, PullOn, PushOn, ConflictOn, FetchOn, SameHeard, SameTold, Hears, Wrote,
         Types, Kinds, Doing, Idle
    <3>4. CASE CrashOn(d) \/ BootOn(d) \/ PullEndsOn(d) \/ PushEndsOn(d)
      BY <1>1, <3>4 DEF Deletes, CrashOn, BootOn, PullEndsOn, PushEndsOn, SameHeard, SameTold, Types,
         Kinds, Doing, Idle
    <3>5. ASSUME NEW e \in Edit, UserEditsOn(d, f, e)
          PROVE  /\ f \notin doomed' /\ ~Heard(d, "deleted", f)' /\ ~(job'[d].file = f /\ job'[d].at = "delete")
                 /\ \A x \in Device : ~Told(x, "FILE-", f)'
      BY <1>1, <3>5 DEF Deletes, UserEditsOn, SameTold, Hears, Types, Kinds, Doing
    <3>6. ASSUME NEW t \in Types, LocalEventOn(d, t, f)
          PROVE  /\ f \notin doomed' /\ ~Heard(d, "deleted", f)' /\ ~(job'[d].file = f /\ job'[d].at = "delete")
                 /\ \A x \in Device : ~Told(x, "FILE-", f)'
      BY <1>1, <3>6 DEF Deletes, LocalEventOn, SameTold, Taken, Types, Kinds, Doing
    <3>7. ASSUME NEW k \in Kinds, RemoteEventOn(d, k, f)
          PROVE  /\ f \notin doomed' /\ ~Heard(d, "deleted", f)' /\ ~(job'[d].file = f /\ job'[d].at = "delete")
                 /\ \A x \in Device : ~Told(x, "FILE-", f)'
      <4>1. k # "FILE-" /\ (ConflictOn(d, f) \/ FetchOn(d, f))
        BY <1>1, <3>7 DEF Deletes, RemoteEventOn
      <4> QED BY <1>1, <3>7, <4>1 DEF Deletes, RemoteEventOn, ConflictOn, FetchOn, TakenNotice, SameHeard,
                 Hears, Wrote, Types, Kinds, Doing
    <3>8. ASSUME NEW g \in File, f = g, f # CopyName[d][g], CopyOn(d, g, CopyName[d][g])
          PROVE  /\ f \notin doomed' /\ ~Heard(d, "deleted", f)' /\ ~(job'[d].file = f /\ job'[d].at = "delete")
                 /\ \A x \in Device : ~Told(x, "FILE-", f)'
      BY <1>1, <3>8 DEF Deletes, CopyOn, SameTold, HeardStill, Types, Kinds, Doing
    <3> QED BY <1>2, <1>4, <3>1, <3>2, <3>3, <3>4, <3>5, <3>6, <3>7, <3>8 DEF ActsOn
  <2> QED BY <1>1, <2>2, <2>3 DEF Deletes, Doing
<1> QED BY <1>2, <1>3, <1>4 DEF StepOf

\* An edit that is in use stays in use, or goes to a copy.
LEMMA StaysInUse ==
    ASSUME Struct, Struct', NEW f \in Main, f \notin spoiled', StepOf(f),
           Live(f), VersionOf(f), EmptyOf(f), GrowthOf(f),
           \A d \in Device : ~UserDeletesOn(d, f), NEW e \in Edit, InUse(e, f)
    PROVE  InUse(e, f)' \/ InCopies(e, f)'
<1>1. /\ f \in File /\ f # None
      /\ ~PurgeOn(f) /\ \A d \in Device : ~DeleteOn(d, f)
  BY FileAssumption, NotNone, Started DEF Live
<1>2. CASE Still(f)
  BY <1>2 DEF InUse, Holds, Still, OwnStill, ServerStill, Doing
<1>3. ASSUME NEW d \in Device, ActsOn(d, f) PROVE InUse(e, f)' \/ InCopies(e, f)'
  <2>1. Alone(d)
    BY <1>1, <1>3, ActsAlone
  <2> DEFINE Carried == job[d].file = f /\ job[d].at = "copy" /\ e \in job[d].seen
             Kept == Holds(store[f].data, e) \/ Holds(disk[d][f], e) \/ Carried
  <2>2. Kept' => InUse(e, f)'
    BY DEF InUse, Doing
  <2>3. \/ Kept
        \/ \E x \in Device \ {d} : Holds(disk[x][f], e) \/ (Doing(x, {"copy"}, f) /\ e \in job[x].seen)
    BY DEF InUse, Doing
  <2>4. ASSUME Kept => Kept' \/ InCopies(e, f)' PROVE InUse(e, f)' \/ InCopies(e, f)'
    <3>1. ASSUME NEW x \in Device \ {d},
                 Holds(disk[x][f], e) \/ (Doing(x, {"copy"}, f) /\ e \in job[x].seen)
          PROVE  InUse(e, f)'
      BY <2>1, <3>1 DEF InUse, Holds, Alone, Doing
    <3> QED BY <2>2, <2>3, <2>4, <3>1
  <2>5. CASE PutOn(d, f) \/ PutFailsOn(d, f)
    <3>1. HasRow(d, f) /\ disk' = disk /\ ~Carried /\ (store' = store \/ Stored(d, f))
      BY <2>5 DEF PutOn, PutFailsOn, Doing
    <3>2. Holds(store[f].data, e) => Holds(store'[f].data, e)
      BY <1>1, <3>1, StoredGrows DEF Holds, Served
    <3> QED BY <2>4, <3>1, <3>2
  <2>6. CASE GetOn(d, f)
    <3>1. store' = store /\ ~Carried /\ HasRow(d, f) /\ Doing(d, {"get"}, f)
      BY <2>6 DEF GetOn, Doing
    <3>2. GrowthOn(d, f) /\ LivingOn(d, f)
      BY <1>1 DEF GrowthOf, Live
    <3>3. disk[d][f] # None /\ Read(d, f) = disk[d][f]
      BY <3>1, <3>2 DEF LivingOn, Read, Exists
    <3>4. ASSUME e \in disk[d][f] PROVE Holds(disk'[d][f], e) \/ Carried'
      <4>1. CASE disk' = disk
        BY <3>3, <3>4, <4>1 DEF Holds
      <4>2. ASSUME Served(f), disk'[d][f] = Merged(row[d][f].base, job[d].seen, store[f].data),
                   disk'[d][f] # None, Read(d, f) = job[d].seen
            PROVE  Holds(disk'[d][f], e)
        <5>1. row[d][f].base \subseteq store[f].data
          BY <3>1, <3>2, <4>2 DEF GrowthOn
        <5> QED BY <3>3, <3>4, <4>2, <5>1 DEF Merged, Holds
      <4>3. ASSUME Read(d, f) = job[d].seen, job'[d] = [at |-> "copy", file |-> f, seen |-> job[d].seen]
            PROVE  Carried'
        BY <3>3, <3>4, <4>3 DEF Doing
      <4> QED BY <2>6, <4>1, <4>2, <4>3 DEF GetOn
    <3> QED BY <2>4, <3>1, <3>4 DEF Holds
  <2>7. ASSUME NEW g \in File, f \in {g, CopyName[d][g]},
               CopyOn(d, g, CopyName[d][g]) PROVE InUse(e, f)' \/ InCopies(e, f)'
    <3>1. f = g /\ f # CopyName[d][g]
      BY <2>7, FileAssumption
    <3>2. /\ store' = store /\ disk'[d][f] = disk[d][f]
          /\ disk'[d][CopyName[d][f]] = job[d].seen /\ job[d].seen # None
      BY <1>1, <2>7, <3>1 DEF CopyOn
    <3>3. e \in job[d].seen => InCopies(e, f)'
      BY <3>2 DEF InCopies, Holds
    <3> QED BY <2>4, <3>2, <3>3
  <2>8. CASE CrashOn(d)
    <3>1. ~Carried
      BY <1>1, <2>8 DEF CrashOn, Interrupted, Doing
    <3>2. disk' = disk /\ store' = store
      BY <2>8 DEF CrashOn
    <3> QED BY <2>4, <3>1, <3>2
  <2>9. CASE BootOn(d) \/ PullEndsOn(d) \/ PushEndsOn(d) \/ CreateOn(d, f) \/ RecordOn(d, f) \/ PushOn(d, f)
    <3>1. /\ disk' = disk /\ store' = store
          /\ ~Carried \/ job' = job
      BY <2>9 DEF BootOn, PullEndsOn, PushEndsOn, CreateOn, RecordOn, PushOn, Doing, Idle
    <3> QED BY <2>4, <3>1 DEF Doing
  <2>10. ASSUME FetchOn(d, f) \/ ConflictOn(d, f), store' = store,
                job[d] = Idle PROVE InUse(e, f)' \/ InCopies(e, f)' \/ InCopies(e, f)'
    <3>1. ~Carried
      BY <2>10 DEF Doing, Idle
    <3>2. Holds(disk[d][f], e) => Holds(disk'[d][f], e)
      BY <2>10 DEF FetchOn, ConflictOn, Exists, Holds
    <3> QED BY <2>4, <2>10, <3>1, <3>2
  <2>11. CASE PullOn(d, f)
    BY <2>10, <2>11 DEF PullOn
  <2>12. ASSUME NEW k \in Kinds, RemoteEventOn(d, k, f) PROVE InUse(e, f)' \/ InCopies(e, f)'
    <3>1. k # "FILE-"
      BY <1>1, <2>12, DeletingIs DEF Deletes, Live, RemoteEventOn, Struct
    <3> QED BY <2>10, <2>12, <3>1 DEF RemoteEventOn
  <2>13. ASSUME NEW t \in Types, LocalEventOn(d, t, f) PROVE InUse(e, f)' \/ InCopies(e, f)'
    <3>1. disk' = disk /\ store' = store /\ ~Carried
      BY <2>13 DEF LocalEventOn, Doing, Idle
    <3> QED BY <2>4, <3>1
  <2>14. ASSUME NEW h \in Edit, UserEditsOn(d, f, h) PROVE InUse(e, f)' \/ InCopies(e, f)'
    <3>1. store' = store /\ job' = job /\ (Holds(disk[d][f], e) => Holds(disk'[d][f], e))
      BY <2>14 DEF UserEditsOn, Read, Exists, Holds
    <3> QED BY <2>4, <3>1 DEF Doing
  <2> QED BY <1>1, <1>3, <2>5, <2>6, <2>7, <2>8, <2>9, <2>11, <2>12, <2>13, <2>14 DEF ActsOn
<1> QED BY <1>1, <1>2, <1>3 DEF StepOf

\* Every step keeps the ninth layer.
LEMMA EditStep ==
    ASSUME Struct, Struct', CopiesInv, Step, LifeInv, LifeInv', VersionInv, EmptyInv, AgreeInv, GrowthInv,
           CopyInv, EditInv
    PROVE  EditInv'
<1> SUFFICES ASSUME NEW f \in Main, f \notin spoiled', NEW e \in Edit, e \notin dropped', madeIn'[e] = f,
                    ~InCopies(e, f)'
             PROVE  ~Deleting(f)' /\ InUse(e, f)'
  BY DEF EditInv, EditOf
<1>1. f \in File /\ f \notin spoiled /\ StepOf(f)
  BY FileSteps, FileAssumption
<1>2. LifeOf(f) /\ LifeOf(f)' /\ VersionOf(f) /\ EmptyOf(f) /\ EditOf(f)
  BY <1>1 DEF LifeInv, VersionInv, EmptyInv, EditInv
<1>3. ~InCopies(e, f)
  <2>1. \A d \in Device : Exists(d, CopyName[d][f]) => disk'[d][CopyName[d][f]] = disk[d][CopyName[d][f]]
    BY CopyStep
  <2> QED BY <2>1 DEF InCopies, Holds, Exists
<1>4. e \notin dropped /\ (madeIn[e] = f \/ \E d \in Device : UserEditsOn(d, f, e))
  BY MadeBy
<1>5. ASSUME NEW d \in Device, UserEditsOn(d, f, e) PROVE ~Deleting(f)' /\ InUse(e, f)'
  <2>1. ~Deleting(f)
    BY <1>5 DEF UserEditsOn
  <2>2. ~Deleting(f)'
    BY <1>1, <1>5, <2>1, DeletingIs, DeletingIsToo DEF Deletes, Struct, UserEditsOn, Subject, Alone,
       HeardStill, Hears, SameTold, Doing, Types, Kinds
  <2>3. Holds(disk'[d][f], e)
    BY <1>5 DEF UserEditsOn, Holds
  <2> QED BY <2>2, <2>3 DEF InUse
<1>6. CASE madeIn[e] = f
  <2>1. ~Deleting(f) /\ InUse(e, f)
    BY <1>2, <1>3, <1>4, <1>6 DEF EditOf
  <2>2. Live(f) /\ GrowthOf(f)
    BY <1>1, <1>2, <2>1, LiveWhen DEF GrowthInv
  <2>3. ASSUME NEW d \in Device, UserDeletesOn(d, f) PROVE FALSE
    <3>1. /\ ~Busy(f) /\ Exists(d, f) /\ e \notin disk[d][f]
      BY <1>4, <2>3 DEF UserDeletesOn
    <3>2. \A x \in Device : disk[x][f] = IF f \in meta THEN store[f].data ELSE None
      BY <1>1, <3>1, Calm
    <3>3. f \in meta /\ store[f].data = disk[d][f] /\ \A x \in Device : disk[x][f] = disk[d][f]
      BY <3>1, <3>2 DEF Exists
    <3>4. \A x \in Device : job[x].file # f
      BY <1>1, <3>1, NotBusy DEF Struct
    <3> QED BY <2>1, <3>1, <3>3, <3>4 DEF InUse, Holds, Doing
  <2>4. InUse(e, f)'
    BY <1>1, <1>2, <2>1, <2>2, <2>3, StaysInUse
  <2>5. ~Deleting(f)'
    <3>1. \A d \in Device, g \in File : f # CopyName[d][g]
      BY FileAssumption
    <3> QED BY <1>1, <2>1, <2>3, <3>1, Started
  <2> QED BY <2>4, <2>5
<1> QED BY <1>4, <1>5, <1>6

\* In the beginning there are no edits.
LEMMA EditStart == ASSUME Init PROVE EditInv
<1>1. \A e \in Edit : madeIn[e] = None
  BY DEF Init
<1> QED BY <1>1, NotNone, FileAssumption DEF EditInv, EditOf

-----------------------------------------------------------------------------
(* The theorems. *)

\* The inductive invariant: all layers.
SyncInvariant ==
    /\ Struct /\ CopiesInv /\ LifeInv /\ VersionInv /\ EmptyInv
    /\ AgreeInv /\ GrowthInv /\ CopyInv /\ EditInv

\* The invariant holds: for any number of devices, files, edits and mishaps.
THEOREM Invariance == Spec => []SyncInvariant
<1>1. Init => SyncInvariant
  BY StructInit, LifeStart, VersionStart, EmptyStart, AgreeStart, GrowthStart, CopyStart, EditStart
     DEF SyncInvariant
<1>2. SyncInvariant /\ [Next]_vars => SyncInvariant'
  <2> SUFFICES ASSUME SyncInvariant, [Next]_vars PROVE SyncInvariant'
    OBVIOUS
  <2> USE DEF SyncInvariant
  <2>1. Struct' /\ Step
    BY Steps
  <2>2. CopiesInv'
    BY <2>1, PlainStep DEF CopiesInv
  <2>3. LifeInv'
    BY <2>1, <2>2, LifeStep
  <2>4. VersionInv' /\ EmptyInv'
    BY <2>1, <2>3, VersionStep, EmptyStep
  <2>5. AgreeInv' /\ GrowthInv'
    BY <2>1, <2>3, <2>4, AgreeStep, GrowthStep
  <2>6. CopyInv'
    <3>1. Main \ spoiled' \subseteq Main \ spoiled
      BY <2>1, AnySteps, FileAssumption
    <3> QED BY <2>1, <3>1, CopyStep DEF CopyInv
  <2>7. EditInv'
    BY <2>1, <2>3, EditStep
  <2> QED BY <2>1, <2>2, <2>3, <2>4, <2>5, <2>6, <2>7
<1> QED BY <1>1, <1>2, PTL DEF Spec

\* Every variable keeps its type; in particular no step leaves a row of a missing base,
\* a handler without a file or a version below zero.
THEOREM TypeCorrect == Spec => []TypeOK
<1>1. SyncInvariant => TypeOK
  BY DEF SyncInvariant, Struct
<1> QED BY <1>1, Invariance, PTL

\* A row with the servers' version has the servers' content: the next merge starts from
\* a true common ancestor (serverUtils::Conflict).
THEOREM VersionsTell == Spec => []VersionTellsContent
<1>1. SyncInvariant => VersionTellsContent
  BY DEF SyncInvariant, VersionTellsContent, VersionInv, VersionOf, VersionOn
<1> QED BY <1>1, Invariance, PTL

\* When nothing is left to do, every device has what the servers have, for every file
\* without a known loss: no event, notice or boot step is needed that nobody is about to take.
THEOREM QuietDevicesAgree == Spec => []QuietAgree
<1>1. ASSUME SyncInvariant PROVE QuietAgree
  <2> SUFFICES ASSUME Quiet, NEW f \in File \ spoiled, NEW d \in Device
               PROVE  disk[d][f] = IF f \in meta THEN store[f].data ELSE None
    BY DEF QuietAgree
  <2>1. ~Busy(f)
    BY NotNone DEF Quiet, Busy, Heard, ToSet, BagToSet, EmptyBag, SetToBag, Idle
  <2> QED BY <1>1, <2>1, Calm DEF SyncInvariant
<1> QED BY <1>1, Invariance, PTL

\* An edit nobody deleted is in its file, in a conflicted copy of it, on the servers or in
\* the hands of a handler: no merge, overwrite, late reply or stop loses it unnoticed.
THEOREM EditsSurvive == Spec => []EditSurvives
<1>1. ASSUME SyncInvariant PROVE EditSurvives
  <2> SUFFICES ASSUME NEW e \in Edit, e \notin dropped, NEW f, f = madeIn[e], f \notin spoiled, f # None
               PROVE  Somewhere(e, f)
    BY DEF EditSurvives
  <2>1. f \in Main
    <3>1. TypeOK
      BY <1>1 DEF SyncInvariant, Struct
    <3> QED BY <3>1 DEF TypeOK
  <2>2. InCopies(e, f) \/ InUse(e, f)
    BY <1>1, <2>1 DEF SyncInvariant, EditInv, EditOf
  <2>3. CASE InCopies(e, f)
    <3>1. PICK d \in Device : Holds(disk[d][CopyName[d][f]], e)
      BY <2>3 DEF InCopies
    <3>2. CopyName[d][f] \in Family(f)
      BY DEF Family
    <3> QED BY <3>1, <3>2 DEF Somewhere
  <2>4. CASE InUse(e, f)
    <3>1. f \in Family(f)
      BY DEF Family
    <3>2. ASSUME NEW d \in Device, Doing(d, {"copy"}, f), e \in job[d].seen
          PROVE  job[d].file = f /\ Holds(job[d].seen, e)
      BY <1>1, <3>2, Parts DEF SyncInvariant, ShapeOf, Doing, Holds
    <3> QED BY <2>4, <3>1, <3>2 DEF InUse, Somewhere
  <2> QED BY <2>2, <2>3, <2>4
<1> QED BY <1>1, Invariance, PTL

=============================================================================
