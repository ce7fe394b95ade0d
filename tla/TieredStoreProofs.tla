-------------------------- MODULE TieredStoreProofs --------------------------
(***************************************************************************)
(* The tiered store never answers with another key's entry nor with one    *)
(* that had expired, for any calls, keys, slots and times to live, however *)
(* the calls interleave and whatever L2 loses.  Nor, under a key whose     *)
(* calls do not overlap, with one that a finished call replaced or removed,*)
(* whatever the calls on other keys do to the slot.  A Del takes its own   *)
(* key's item out of a slot, or none.                                      *)
(***************************************************************************)
EXTENDS TieredStore, TLAPS

\* Entry e was put under key k by a Set.
StoredUnder(e, k) ==
    /\ e \in Ops /\ pc[e] # "idle"
    /\ call[e].op = "set" /\ call[e].key = k

\* A call is where its operation may be.
PlaceOfCall ==
    \A o \in Ops :
        /\ pc[o] # "idle" => call[o] \in Calls
        /\ pc[o] \in {"probe", "getL2"} => call[o].op = "get"
        /\ pc[o] = "setL2" => call[o].op = "set"
        /\ pc[o] = "promote" => call[o].op \in {"get", "set"}
        /\ pc[o] \in {"load", "swap", "delL2"} => call[o].op = "del"
        /\ pc[o] \in {"clear", "closeL2"} => call[o].op = "close"

L2Right == \A k \in Keys : l2[k] # None => StoredUnder(l2[k], k)

\* What a slot holds carries its entry's own expiration.
SlotsRight ==
    \A s \in Slots : l1[s] # None =>
        LET i == item[l1[s]] IN /\ StoredUnder(i.entry, i.key)
                                /\ i.expireAt = expiry[i.entry]

\* What a call is about to promote is its key's, and was alive when the call began.
HeldRight ==
    \A o \in Ops : pc[o] = "promote" =>
        /\ StoredUnder(held[o], call[o].key)
        /\ call[o].op = "get" => expiry[held[o]] = 0 \/ since[o] <= expiry[held[o]]

ClockAhead == \A o \in Ops : since[o] <= now

\* The answers are those of RightKey and NeverExpired.
AnswersRight ==
    \A o \in Ops : Got(o) =>
        /\ StoredUnder(ret[o], call[o].key)
        /\ expiry[ret[o]] = 0 \/ since[o] <= expiry[ret[o]]

IInv == TieredTypeOK /\ PlaceOfCall /\ L2Right /\ SlotsRight /\ HeldRight /\ ClockAhead
        /\ AnswersRight

LEMMA CallType ==
    \A c \in Calls : /\ c.op \in {"get", "del", "set", "close"}
                     /\ c.op # "close" => c.key \in Keys
                     /\ c.op = "close" => c.key = None
                     /\ c.ttl \in Nat
  BY TieredAssumption DEF Calls

LEMMA InvInit == Init => IInv
  <1> SUFFICES ASSUME Init PROVE IInv
    OBVIOUS
  <1>1. TieredTypeOK
    BY DEF Init, TieredTypeOK, SlotsFilled
  <1>2. PlaceOfCall /\ HeldRight
    BY TieredAssumption DEF Init, PlaceOfCall, HeldRight
  <1>3. L2Right /\ SlotsRight /\ ClockAhead
    BY DEF Init, L2Right, SlotsRight, ClockAhead
  <1>4. AnswersRight
    BY DEF Init, AnswersRight, Got
  <1> QED
    BY <1>1, <1>2, <1>3, <1>4 DEF IInv

--------------------------------------------------------------------------------
\* A step that puts no item into a slot leaves the slots filled.
LEMMA SlotsKept ==
    ASSUME IInv, UNCHANGED item, \A s \in Slots : l1'[s] \in {l1[s], None},
           \A p \in Ops : pc[p] = "done" => pc'[p] = "done"
    PROVE  SlotsFilled'
  BY DEF IInv, TieredTypeOK, SlotsFilled

\* One lemma per step: what it does to each conjunct it can disturb.
LEMMA BeginStep ==
    ASSUME IInv, NEW o \in Ops, NEW c \in Calls, Begin(o, c)
    PROVE  IInv'
  <1> USE DEF Goto, history
  <1>0. SlotsFilled'
    BY SlotsKept DEF Begin, IInv, TieredTypeOK
  <1>1. TieredTypeOK'
    BY <1>0, TieredAssumption, CallType DEF Begin, Start, SetOver, IInv, TieredTypeOK
  <1>2. PlaceOfCall'
    BY TieredAssumption, CallType DEF Begin, Start, IInv, TieredTypeOK, PlaceOfCall
  <1>3. \A e \in Ops, k \in Keys : StoredUnder(e, k) =>
          StoredUnder(e, k)' /\ expiry'[e] = expiry[e] /\ e # o
    BY DEF Begin, IInv, TieredTypeOK, PlaceOfCall, StoredUnder
  <1>4. L2Right'
    BY <1>3 DEF Begin, IInv, L2Right, StoredUnder
  <1>5. SlotsRight'
    BY <1>3 DEF Begin, IInv, SlotsRight, StoredUnder, TieredTypeOK, Items
  <1>6. HeldRight'
    BY <1>3, CallType DEF Begin, Start, IInv, HeldRight, StoredUnder, TieredTypeOK
  <1>7. ClockAhead'
    BY DEF Begin, IInv, ClockAhead, TieredTypeOK
  <1>8. AnswersRight'
    BY <1>3, CallType DEF Begin, Start, IInv, AnswersRight, Got, StoredUnder, TieredTypeOK
  <1> QED
    BY <1>1, <1>2, <1>4, <1>5, <1>6, <1>7, <1>8 DEF IInv

\* A call on a key has a slot.
LEMMA SlotOfCall ==
    ASSUME IInv, NEW o \in Ops,
           pc[o] \in {"probe", "getL2", "setL2", "promote", "load", "swap", "delL2"}
    PROVE  call[o].key \in Keys /\ Slot(o) \in Slots
  BY TieredAssumption, CallType DEF IInv, PlaceOfCall, Slot

\* L1 answers only for its own key and time.
LEMMA ProbeStep ==
    ASSUME IInv, NEW o \in Ops, Probe(o)
    PROVE  IInv'
  <1> DEFINE i == item[l1[Slot(o)]]
  <1>1. Slot(o) \in Slots
    BY SlotOfCall DEF Probe
  <1>2. \/ /\ pc' = [pc EXCEPT ![o] = "done"] /\ ret' = [ret EXCEPT ![o] = i.entry]
           /\ StoredUnder(i.entry, call[o].key)
           /\ expiry[i.entry] = 0 \/ now <= expiry[i.entry]
        \/ pc' = [pc EXCEPT ![o] = "getL2"] /\ ret' = ret
    BY <1>1 DEF Probe, Goto, Over, IInv, SlotsRight
  <1>3. UNCHANGED <<call, l1, item, l2, expiry, held, todo, now, history>>
        /\ pc[o] = "probe"
    BY DEF Probe
  <1> HIDE DEF i
  <1> USE DEF history, StoredUnder
  <1>0. SlotsFilled'
    BY <1>2, <1>3, SlotsKept DEF IInv, TieredTypeOK
  <1>4. TieredTypeOK' /\ PlaceOfCall'
    BY <1>0, <1>2, <1>3 DEF IInv, TieredTypeOK, PlaceOfCall
  <1>5. L2Right' /\ SlotsRight' /\ ClockAhead' /\ HeldRight'
    BY <1>2, <1>3 DEF IInv, TieredTypeOK, L2Right, SlotsRight, ClockAhead, HeldRight
  <1>6. AnswersRight'
    BY <1>2, <1>3 DEF IInv, TieredTypeOK, AnswersRight, Got, ClockAhead
  <1> QED
    BY <1>4, <1>5, <1>6 DEF IInv

\* L2 answers only for its own key; what it returns has not expired yet.
LEMMA GetL2Step ==
    ASSUME IInv, NEW o \in Ops, GetL2(o)
    PROVE  IInv'
  <1> DEFINE e == l2[call[o].key]
  <1>1. call[o].key \in Keys
    BY SlotOfCall DEF GetL2
  <1>2. \/ /\ pc' = [pc EXCEPT ![o] = "done"] /\ ret' = [ret EXCEPT ![o] = None]
           /\ held' = held
        \/ /\ pc' = [pc EXCEPT ![o] = "promote"] /\ ret' = ret
           /\ held' = [held EXCEPT ![o] = e]
           /\ StoredUnder(e, call[o].key) /\ (expiry[e] = 0 \/ now <= expiry[e])
    BY <1>1 DEF GetL2, Goto, Over, IInv, L2Right, Expired, TieredTypeOK, StoredUnder
  <1>3. UNCHANGED <<call, l1, item, l2, expiry, todo, now, history>>
        /\ pc[o] = "getL2"
    BY DEF GetL2
  <1> HIDE DEF e
  <1> USE DEF history, StoredUnder
  <1>0. SlotsFilled'
    BY <1>2, <1>3, SlotsKept DEF IInv, TieredTypeOK
  <1>4. TieredTypeOK' /\ PlaceOfCall'
    BY <1>0, <1>2, <1>3 DEF IInv, TieredTypeOK, PlaceOfCall
  <1>5. L2Right' /\ SlotsRight' /\ ClockAhead'
    BY <1>2, <1>3 DEF IInv, TieredTypeOK, L2Right, SlotsRight, ClockAhead
  <1>6. HeldRight'
    BY <1>2, <1>3 DEF IInv, TieredTypeOK, HeldRight, ClockAhead
  <1>7. AnswersRight'
    BY <1>2, <1>3 DEF IInv, TieredTypeOK, AnswersRight, Got
  <1> QED
    BY <1>4, <1>5, <1>6, <1>7 DEF IInv

\* Set names the new entry by the call itself.
LEMMA SetL2Step ==
    ASSUME IInv, NEW o \in Ops, SetL2(o)
    PROVE  IInv'
  <1>1. call[o].key \in Keys
    BY SlotOfCall DEF SetL2
  <1> USE DEF history, StoredUnder, Goto, Over
  <1>0. SlotsFilled'
    BY SlotsKept DEF SetL2, IInv, TieredTypeOK
  <1>2. TieredTypeOK' /\ PlaceOfCall'
    BY <1>0, <1>1 DEF SetL2, IInv, TieredTypeOK, PlaceOfCall
  <1>3. L2Right' /\ SlotsRight' /\ ClockAhead'
    BY <1>1 DEF SetL2, IInv, TieredTypeOK, L2Right, SlotsRight, ClockAhead, PlaceOfCall
  <1>4. HeldRight' /\ AnswersRight'
    BY <1>1 DEF SetL2, IInv, TieredTypeOK, HeldRight, AnswersRight, Got, PlaceOfCall
  <1> QED
    BY <1>2, <1>3, <1>4 DEF IInv

\* Promotion copies the key and the expiration of what is held.
LEMMA PromoteStep ==
    ASSUME IInv, NEW o \in Ops, Promote(o)
    PROVE  IInv'
  <1>1. call[o].key \in Keys /\ Slot(o) \in Slots
    BY SlotOfCall DEF Promote
  <1>2. StoredUnder(held[o], call[o].key)
    BY DEF Promote, IInv, HeldRight
  <1> USE DEF history, StoredUnder, Goto, Over
  <1>0. SlotsFilled'
    <2>1. ASSUME NEW s \in Slots, l1'[s] # None
          PROVE  pc'[l1'[s]] = "done" /\ item'[l1'[s]] \in Items /\ SlotOf[item'[l1'[s]].key] = s
      <3>1. CASE s = Slot(o)
        <4>1. l1'[s] = o /\ pc'[o] = "done"
              /\ item'[o] = [key |-> call[o].key, entry |-> held[o], expireAt |-> expiry[held[o]]]
          BY <1>1, <3>1 DEF Promote, IInv, TieredTypeOK
        <4> QED
          BY <1>1, <1>2, <3>1, <4>1 DEF IInv, TieredTypeOK, Items, Slot
      <3>2. CASE s # Slot(o)
        <4>1. l1'[s] = l1[s] /\ l1[s] \in Ops /\ pc[l1[s]] = "done" /\ l1[s] # o
          BY <1>1, <2>1, <3>2 DEF Promote, IInv, TieredTypeOK, SlotsFilled
        <4> QED
          BY <2>1, <3>2, <4>1 DEF Promote, IInv, TieredTypeOK, SlotsFilled
      <3> QED
        BY <3>1, <3>2
    <2> QED
      BY <2>1 DEF SlotsFilled
  <1>3. TieredTypeOK' /\ PlaceOfCall'
    BY <1>0, <1>1, <1>2 DEF Promote, IInv, TieredTypeOK, Items, PlaceOfCall
  <1>4. L2Right' /\ HeldRight' /\ ClockAhead'
    BY DEF Promote, IInv, TieredTypeOK, L2Right, HeldRight, ClockAhead
  <1>5. SlotsRight'
    BY <1>1, <1>2 DEF Promote, IInv, TieredTypeOK, SlotsRight
  <1>6. AnswersRight'
    BY <1>2 DEF Promote, IInv, TieredTypeOK, AnswersRight, Got, HeldRight
  <1> QED
    BY <1>3, <1>4, <1>5, <1>6 DEF IInv

\* Del and Close empty slots and L2, and remember nothing that is promoted later.
LEMMA ForgetStep ==
    ASSUME IInv, NEW o \in Ops,
           Load(o) \/ Swap(o) \/ DelL2(o) \/ Clear(o) \/ CloseL2(o)
    PROVE  IInv'
  <1> USE DEF history, StoredUnder, Goto, Over
  <1>0. SlotsFilled'
    BY SlotsKept DEF Load, Swap, DelL2, Clear, CloseL2, IInv, TieredTypeOK
  <1>1. TieredTypeOK'
    <2>1. CASE Load(o)
      BY <1>0, <2>1, SlotOfCall DEF Load, IInv, TieredTypeOK
    <2>2. CASE Swap(o)
      BY <1>0, <2>2 DEF Swap, IInv, TieredTypeOK
    <2>3. CASE DelL2(o) \/ CloseL2(o)
      BY <1>0, <2>3 DEF DelL2, CloseL2, IInv, TieredTypeOK
    <2>4. CASE Clear(o)
      BY <1>0, <2>4 DEF Clear, IInv, TieredTypeOK
    <2> QED
      BY <2>1, <2>2, <2>3, <2>4
  <1>2. PlaceOfCall'
    BY DEF Load, Swap, DelL2, Clear, CloseL2, IInv, TieredTypeOK, PlaceOfCall
  <1>3. SlotsRight'
    BY DEF Load, Swap, DelL2, Clear, CloseL2, IInv, TieredTypeOK, SlotsRight
  <1>4. L2Right' /\ ClockAhead'
    BY DEF Load, Swap, DelL2, Clear, CloseL2, IInv, TieredTypeOK, L2Right, ClockAhead
  <1>5. HeldRight' /\ AnswersRight'
    BY DEF Load, Swap, DelL2, Clear, CloseL2, IInv, TieredTypeOK, HeldRight, AnswersRight,
           Got, PlaceOfCall
  <1> QED
    BY <1>1, <1>2, <1>3, <1>4, <1>5 DEF IInv

\* L2 makes room, time passes.
LEMMA OtherStep ==
    ASSUME IInv, (\E k \in Keys : Evict(k)) \/ Tick \/ UNCHANGED vars
    PROVE  IInv'
  <1> USE DEF history, StoredUnder
  <1>0. SlotsFilled'
    BY SlotsKept DEF Evict, Tick, vars, IInv, TieredTypeOK
  <1>1. TieredTypeOK' /\ PlaceOfCall'
    BY <1>0 DEF Evict, Tick, vars, IInv, TieredTypeOK, PlaceOfCall
  <1>2. L2Right' /\ SlotsRight' /\ ClockAhead'
    BY DEF Evict, Tick, vars, IInv, TieredTypeOK, L2Right, SlotsRight, ClockAhead
  <1>3. HeldRight' /\ AnswersRight'
    BY DEF Evict, Tick, vars, IInv, HeldRight, AnswersRight, Got
  <1> QED
    BY <1>1, <1>2, <1>3 DEF IInv

--------------------------------------------------------------------------------
\* The strengthened invariant holds for ever.  RightKey and NeverExpired alone are
\* not inductive: a Get is as right as the slot, the L2 entry or the item it reads.
THEOREM Invariance == Spec => []IInv
  <1>1. IInv /\ [Next]_vars => IInv'
    BY BeginStep, ProbeStep, GetL2Step, SetL2Step, PromoteStep, ForgetStep, OtherStep
       DEF Next
  <1> QED
    BY InvInit, <1>1, PTL DEF Spec

\* Every variable of store_tier.go's store and its calls keeps its type, and a slot
\* always points to a finished call's item of a key of its own.
THEOREM TypeCorrect == Spec => []TieredTypeOK
  BY Invariance, PTL DEF IInv

\* No Get is answered with another key's entry, although keys share slots.
THEOREM KeysApart == Spec => []RightKey
  <1>1. IInv => RightKey
    BY DEF IInv, AnswersRight, StoredUnder, RightKey
  <1> QED
    BY <1>1, Invariance, PTL

\* No Get is answered with an entry that had expired when it began.
THEOREM ExpiryKept == Spec => []NeverExpired
  <1>1. IInv => NeverExpired
    BY DEF IInv, AnswersRight, NeverExpired
  <1> QED
    BY <1>1, Invariance, PTL

--------------------------------------------------------------------------------
\* What a Del has loaded is an item of its key, and will be for ever.
LoadedRight ==
    \A o \in Ops : pc[o] = "swap" =>
        /\ held[o] \in Ops /\ pc[held[o]] = "done"
        /\ item[held[o]].key = call[o].key

LEMMA LoadedStep ==
    ASSUME IInv, LoadedRight, [Next]_vars
    PROVE  LoadedRight'
  <1> USE DEF Goto, Over, history, IInv, TieredTypeOK
  <1>1. ASSUME NEW o \in Ops, Load(o) PROVE LoadedRight'
    <2>1. LET i == l1[Slot(o)] IN i # None => i \in Ops /\ pc[i] = "done"
      BY <1>1, SlotOfCall DEF Load, SlotsFilled
    <2> QED
      BY <1>1, <2>1 DEF Load, LoadedRight
  <1>2. ASSUME NEW o \in Ops, NEW c \in Calls, Begin(o, c) PROVE LoadedRight'
    <2>1. pc'[o] # "swap"
      BY <1>2, CallType DEF Begin, Start
    <2> QED
      BY <1>2, <2>1 DEF Begin, LoadedRight
  <1>3. ASSUME NEW o \in Ops, Promote(o) PROVE LoadedRight'
    BY <1>3 DEF Promote, LoadedRight
  <1>4. ASSUME NEW o \in Ops, Probe(o) PROVE LoadedRight'
    BY <1>4 DEF Probe, LoadedRight
  <1>5. ASSUME NEW o \in Ops, GetL2(o) \/ SetL2(o) PROVE LoadedRight'
    BY <1>5 DEF GetL2, SetL2, LoadedRight
  <1>6. ASSUME NEW o \in Ops, Swap(o) \/ DelL2(o) \/ Clear(o) \/ CloseL2(o) PROVE LoadedRight'
    BY <1>6 DEF Swap, DelL2, Clear, CloseL2, LoadedRight
  <1>7. CASE (\E k \in Keys : Evict(k)) \/ Tick \/ UNCHANGED vars
    BY <1>7 DEF Evict, Tick, vars, LoadedRight
  <1> QED
    BY <1>1, <1>2, <1>3, <1>4, <1>5, <1>6, <1>7 DEF Next

\* A Del takes no other key's item out of the slot it shares, whatever has been put
\* there between its load and its swap: the swap is for the item it loaded, and an
\* item's key never changes.
THEOREM DelKeepsOthers == Spec => DelSparesOthers
  <1> DEFINE Spared ==
        \A o \in Ops, s \in Slots :
            /\ pc[o] # pc'[o] /\ call[o] # None /\ call[o].op = "del"
            /\ l1[s] # None /\ l1'[s] = None
            => item[l1[s]].key = call[o].key
  <1>1. Init => LoadedRight
    BY DEF Init, LoadedRight
  <1>2. ASSUME IInv, LoadedRight, [Next]_vars PROVE [Spared]_vars
    <2> SUFFICES ASSUME Next, NEW o \in Ops, NEW s \in Slots, pc[o] # pc'[o],
                        call[o] # None, call[o].op = "del", l1[s] # None, l1'[s] = None
                 PROVE  item[l1[s]].key = call[o].key
      BY <1>2
    <2>1. ASSUME NEW p \in Ops, NEW c \in Calls, Begin(p, c) PROVE FALSE
      BY <2>1 DEF Begin
    <2>2. ASSUME NEW p \in Ops, Probe(p) \/ GetL2(p) \/ SetL2(p) \/ Load(p) \/ DelL2(p) \/ CloseL2(p)
          PROVE  FALSE
      BY <2>2 DEF Probe, GetL2, SetL2, Load, DelL2, CloseL2
    <2>3. ASSUME NEW p \in Ops, Promote(p) PROVE FALSE
      BY <1>2, <2>3, SlotOfCall, TieredAssumption DEF Promote, IInv, TieredTypeOK
    <2>4. ASSUME NEW p \in Ops, Clear(p) PROVE FALSE
      BY <1>2, <2>4 DEF Clear, Goto, IInv, TieredTypeOK, PlaceOfCall
    <2>5. ASSUME NEW p \in Ops, Swap(p) PROVE item[l1[s]].key = call[o].key
      <3>1. p = o
        BY <1>2, <2>5 DEF Swap, Goto, IInv, TieredTypeOK
      <3>2. l1[s] = held[o]
        BY <1>2, <2>5, <3>1 DEF Swap, IInv, TieredTypeOK
      <3> QED
        BY <1>2, <2>5, <3>1, <3>2 DEF Swap, LoadedRight
    <2>6. CASE (\E k \in Keys : Evict(k)) \/ Tick
      BY <2>6 DEF Evict, Tick
    <2> QED
      BY <2>1, <2>2, <2>3, <2>4, <2>5, <2>6 DEF Next
  <1>3. Spec => []LoadedRight
    BY <1>1, LoadedStep, Invariance, PTL DEF Spec
  <1> QED
    BY <1>2, <1>3, Invariance, PTL DEF Spec, DelSparesOthers

--------------------------------------------------------------------------------
\* A slot holds an item of its key; the entry in it.
Cached(k) == l1[SlotOf[k]] # None /\ item[l1[SlotOf[k]]].key = k
InL1(k) == item[l1[SlotOf[k]]].entry

\* Clients keep the calls on a serial key, and Close, apart.
OneAtATime ==
    \A o, p \in Active :
        o # p /\ call[o].key \in Serial => call[p].key \notin {call[o].key, None}

\* What is gone, or was there when a call began, was stored by calls that are over.
OnlyPast ==
    /\ \A e \in gone : pc[e] = "done"
    /\ \A o \in Ops : pc[o] # "idle" =>
          /\ \A e \in before[o] : pc[e] = "done"
          /\ call[o].op \in {"set", "del"} => \A e \in before[o] : call[e].key = call[o].key
          /\ call[o].op = "get" => before[o] \subseteq gone

\* Neither tier holds what is gone.
Clean == \A k \in Serial : l2[k] \notin gone /\ (Cached(k) => InL1(k) \notin gone)

\* What a call on a serial key relies on between two of its steps: a Set that nobody
\* stores after it, a Del that nobody fills the slot again with its key, a Close that
\* the slots behind it stay without serial keys.
Underway(o) ==
    /\ call[o].key \in Serial =>
        /\ pc[o] = "promote" =>
              /\ held[o] \notin gone
              /\ call[o].op = "set" => held[o] = o /\ l2[call[o].key] \in {o, None}
        /\ pc[o] = "swap" /\ Cached(call[o].key) => l1[Slot(o)] = held[o]
        /\ pc[o] = "delL2" => ~Cached(call[o].key)
    /\ pc[o] \in {"clear", "closeL2"} =>
        \A k \in Serial : SlotOf[k] \notin todo[o] => ~Cached(k)
    /\ pc[o] = "closeL2" => todo[o] = {}

FreshFor(o) == Got(o) /\ call[o].key \in Serial => ret[o] \notin before[o]

FreshInv ==
    OneAtATime /\ OnlyPast /\ Clean /\ \A o \in Ops : Underway(o) /\ FreshFor(o)

\* The step of one call: it leaves the other keys' entries where they are or drops them,
\* and what it does to its own key is for the step to show.
LEMMA OwnStep ==
    ASSUME IInv, FreshInv, NEW o \in Ops, pc[o] \notin {"idle", "done"},
           pc' = [pc EXCEPT ![o] = pc'[o]], pc'[o] # "idle", UNCHANGED <<call, before>>,
           held' = [held EXCEPT ![o] = held'[o]], ret' = [ret EXCEPT ![o] = ret'[o]],
           todo' = [todo EXCEPT ![o] = todo'[o]],
           \/ gone' = gone
           \/ gone' = gone \cup before[o] /\ pc'[o] = "done" /\ call[o].op # "get",
           \A k \in Serial : call[o].key # k =>
              /\ Cached(k)' => /\ Cached(k) /\ InL1(k)' = InL1(k)
                               /\ l1'[SlotOf[k]] = l1[SlotOf[k]]
              /\ call[o].key # None => l2'[k] = l2[k],
           \A k \in Serial : call[o].key \in {k, None} =>
              l2'[k] \notin gone' /\ (Cached(k)' => InL1(k)' \notin gone'),
           Underway(o)', FreshFor(o)'
    PROVE  FreshInv'
  <1>1. /\ Serial \subseteq Keys /\ None \notin Ops /\ call[o] \in Calls
        /\ call[o].op # "close" => call[o].key \in Keys
        /\ call[o].op = "close" => call[o].key = None
    BY TieredAssumption, CallType DEF IInv, PlaceOfCall
  <1>2. \A p \in Ops \ {o} : pc'[p] = pc[p] /\ held'[p] = held[p] /\ ret'[p] = ret[p]
                             /\ todo'[p] = todo[p]
    BY DEF IInv, TieredTypeOK
  <1>3. OneAtATime'
    <2>1. Active' \subseteq Active
      BY <1>2 DEF Active
    <2> QED
      BY <2>1 DEF FreshInv, OneAtATime
  <1>4. \A e \in Ops : pc[e] = "done" => pc'[e] = "done"
    BY <1>2
  <1>5. OnlyPast'
    <2>1. \A e \in gone' : pc'[e] = "done"
      BY <1>4 DEF FreshInv, OnlyPast, IInv, TieredTypeOK
    <2>2. ASSUME NEW p \in Ops, pc'[p] # "idle"
          PROVE  /\ \A e \in before'[p] : pc'[e] = "done"
                 /\ call'[p].op \in {"set", "del"} =>
                       \A e \in before'[p] : call'[e].key = call'[p].key
                 /\ call'[p].op = "get" => before'[p] \subseteq gone'
      <3>1. pc[p] # "idle" /\ before[p] \subseteq Ops
        BY <1>2, <2>2 DEF IInv, TieredTypeOK
      <3> QED
        BY <1>4, <3>1 DEF FreshInv, OnlyPast
    <2> QED
      BY <2>1, <2>2 DEF OnlyPast
  <1>6. ASSUME NEW k \in Serial, call[o].key \notin {k, None}, NEW e, e \notin gone,
               e = None \/ StoredUnder(e, k)
        PROVE  e \notin gone'
    <2>1. before[o] \subseteq Ops
      BY DEF IInv, TieredTypeOK
    <2>2. call[o].op \in {"set", "del"} => \A x \in before[o] : call[x].key = call[o].key
      BY DEF FreshInv, OnlyPast
    <2>3. call[o].op \in {"get", "set", "del"}
      BY <1>1, <1>6, CallType
    <2> QED
      BY <1>1, <1>6, <2>1, <2>2, <2>3 DEF StoredUnder
  <1>7. Clean'
    <2>1. ASSUME NEW k \in Serial, call[o].key \notin {k, None}
          PROVE  l2'[k] \notin gone' /\ (Cached(k)' => InL1(k)' \notin gone')
      <3>1. k \in Keys /\ (l2[k] = None \/ StoredUnder(l2[k], k)) /\ l2[k] \notin gone
        BY <1>1 DEF IInv, L2Right, FreshInv, Clean
      <3>2. Cached(k) => StoredUnder(InL1(k), k) /\ InL1(k) \notin gone
        BY <3>1, TieredAssumption DEF IInv, SlotsRight, Cached, InL1, FreshInv, Clean
      <3> QED
        BY <1>6, <2>1, <3>1, <3>2
    <2> QED
      BY <2>1 DEF Clean
  <1>8. ASSUME NEW p \in Ops \ {o} PROVE Underway(p)' /\ FreshFor(p)'
    <2>1. Underway(p) /\ FreshFor(p)
      BY DEF FreshInv
    <2>2. FreshFor(p)'
      BY <1>2, <2>1 DEF FreshFor, Got
    <2>3. ASSUME pc[p] \notin {"idle", "done"}, call[p].key \in Serial
          PROVE  call[o].key \notin {call[p].key, None}
      BY <2>3 DEF FreshInv, OneAtATime, Active
    <2>4. ASSUME pc[p] = "promote", call[p].key \in Serial
          PROVE  /\ held[p] \notin gone'
                 /\ call[p].op = "set" => held[p] = p /\ l2'[call[p].key] \in {p, None}
      <3>1. StoredUnder(held[p], call[p].key)
        BY <2>4 DEF IInv, HeldRight
      <3>2. held[p] \notin gone'
        BY <1>6, <2>1, <2>3, <2>4, <3>1 DEF Underway
      <3> QED
        BY <2>1, <2>3, <2>4, <3>2 DEF Underway
    <2>5. ASSUME pc[p] \in {"swap", "delL2"}, call[p].key \in Serial, Cached(call[p].key)'
          PROVE  /\ Cached(call[p].key)
                 /\ l1'[SlotOf[call[p].key]] = l1[SlotOf[call[p].key]]
      BY <2>3, <2>5
    <2>6. ASSUME pc[p] \in {"clear", "closeL2"}, NEW k \in Serial, Cached(k)' PROVE Cached(k)
      <3>1. call[p].key = None
        BY <2>6, CallType DEF IInv, PlaceOfCall
      <3>2. call[o].key # k
        BY <2>6, <3>1 DEF FreshInv, OneAtATime, Active
      <3> QED
        BY <2>6, <3>2
    <2>7. Underway(p)'
      BY <1>2, <2>1, <2>4, <2>5, <2>6 DEF Underway, Slot
    <2> QED
      BY <2>2, <2>7
  <1> QED
    BY <1>3, <1>5, <1>7, <1>8 DEF FreshInv

LEMMA FreshInit == Init => FreshInv
  <1> SUFFICES ASSUME Init PROVE FreshInv
    OBVIOUS
  <1> USE TieredAssumption DEF Init
  <1>1. OneAtATime /\ OnlyPast
    BY DEF OneAtATime, Active, OnlyPast
  <1>2. Clean
    BY DEF Clean, Cached
  <1>3. \A o \in Ops : Underway(o) /\ FreshFor(o)
    BY DEF Underway, FreshFor, Got
  <1> QED
    BY <1>1, <1>2, <1>3 DEF FreshInv

\* A call begins only when the calls it may not overlap are over.
LEMMA FreshBegin ==
    ASSUME IInv, FreshInv, NEW o \in Ops, NEW c \in Calls, Begin(o, c)
    PROVE  FreshInv'
  <1>1. /\ pc[o] = "idle" /\ MayOverlap(c)
        /\ call' = [call EXCEPT ![o] = c] /\ pc' = [pc EXCEPT ![o] = Start[c.op]]
        /\ todo' = [todo EXCEPT ![o] = IF c.op = "close" THEN Slots ELSE {}]
        /\ before' = [before EXCEPT ![o] = IF c.op = "get" THEN gone
                                           ELSE IF c.op = "close" THEN UNION {SetOver(k) : k \in Keys}
                                           ELSE SetOver(c.key)]
        /\ UNCHANGED <<l1, item, l2, held, ret, gone>>
    BY DEF Begin, Goto
  <1>2. /\ c.op \in {"get", "del", "set", "close"} /\ (c.op = "close" => c.key = None)
        /\ (c.op # "close" => c.key \in Keys) /\ None \notin Keys /\ Serial \subseteq Keys
    BY TieredAssumption, CallType
  <1>3. /\ Start[c.op] \in {"probe", "setL2", "load", "clear"}
        /\ Start[c.op] = "clear" <=> c.op = "close"
    BY <1>2 DEF Start
  <1>4. /\ pc'[o] = Start[c.op] /\ call'[o] = c
        /\ \A p \in Ops \ {o} : pc'[p] = pc[p] /\ call'[p] = call[p] /\ todo'[p] = todo[p]
                                /\ before'[p] = before[p]
        /\ todo'[o] = IF c.op = "close" THEN Slots ELSE {}
        /\ before'[o] = IF c.op = "get" THEN gone
                        ELSE IF c.op = "close" THEN UNION {SetOver(k) : k \in Keys}
                        ELSE SetOver(c.key)
    BY <1>1 DEF IInv, TieredTypeOK
  <1>5. OneAtATime'
    <2>1. ASSUME NEW p \in Ops, NEW q \in Ops, p # q, p \in Active', q \in Active',
                 call'[p].key \in Serial
          PROVE  call'[q].key \notin {call'[p].key, None}
      <3>1. CASE p = o
        BY <1>1, <1>4, <2>1, <3>1 DEF MayOverlap, Active
      <3>2. CASE q = o
        BY <1>1, <1>2, <1>4, <2>1, <3>2 DEF MayOverlap, Active
      <3>3. CASE p # o /\ q # o
        BY <1>4, <2>1, <3>3 DEF Active, FreshInv, OneAtATime
      <3> QED
        BY <3>1, <3>2, <3>3
    <2> QED
      BY <2>1 DEF OneAtATime, Active
  <1>6. \A e \in Ops : pc[e] = "done" => pc'[e] = "done" /\ call'[e] = call[e] /\ e # o
    BY <1>1, <1>4
  <1>7. OnlyPast'
    <2>1. gone \subseteq Ops /\ \A e \in gone : pc[e] = "done"
      BY DEF FreshInv, OnlyPast, IInv, TieredTypeOK
    <2>2. \A e \in before'[o] : e \in Ops /\ pc[e] = "done"
      BY <1>4, <2>1 DEF SetOver
    <2>3. c.op \in {"set", "del"} => \A e \in before'[o] : call[e].key = c.key
      BY <1>4 DEF SetOver
    <2>4. ASSUME NEW p \in Ops, pc'[p] # "idle"
          PROVE  /\ \A e \in before'[p] : pc'[e] = "done"
                 /\ call'[p].op \in {"set", "del"} =>
                       \A e \in before'[p] : call'[e].key = call'[p].key
                 /\ call'[p].op = "get" => before'[p] \subseteq gone'
      <3>1. CASE p = o
        BY <1>1, <1>4, <1>6, <2>2, <2>3, <3>1
      <3>2. CASE p # o
        <4>1. before[p] \subseteq Ops /\ pc[p] # "idle"
          BY <1>4, <2>4, <3>2 DEF IInv, TieredTypeOK
        <4> QED
          BY <1>1, <1>4, <1>6, <3>2, <4>1 DEF FreshInv, OnlyPast
      <3> QED
        BY <3>1, <3>2
    <2> QED
      BY <1>1, <1>6, <2>1, <2>4 DEF OnlyPast
  <1>8. Clean'
    BY <1>1 DEF FreshInv, Clean, Cached, InL1
  <1>9. ASSUME NEW p \in Ops PROVE Underway(p)' /\ FreshFor(p)'
    <2>1. CASE p = o
      <3>1. \A k \in Serial : SlotOf[k] \in Slots
        BY <1>2, TieredAssumption
      <3> QED
        BY <1>3, <1>4, <2>1, <3>1 DEF Underway, FreshFor, Got
    <2>2. CASE p # o
      BY <1>1, <1>4, <2>2 DEF FreshInv, Underway, FreshFor, Got, Cached, Slot
    <2> QED
      BY <2>1, <2>2
  <1> QED
    BY <1>5, <1>7, <1>8, <1>9 DEF FreshInv

\* What a Get finds in either tier is not gone, and what was gone when it began still is.
LEMMA FreshProbe ==
    ASSUME IInv, FreshInv, NEW o \in Ops, Probe(o)
    PROVE  FreshInv'
  <1> DEFINE i == item[l1[Slot(o)]]
  <1>1. \/ /\ pc' = [pc EXCEPT ![o] = "done"] /\ ret' = [ret EXCEPT ![o] = i.entry]
           /\ Cached(call[o].key) /\ i.entry = InL1(call[o].key)
        \/ pc' = [pc EXCEPT ![o] = "getL2"] /\ ret' = ret
    BY DEF Probe, Goto, Over, Cached, InL1, Slot
  <1>2. UNCHANGED <<call, l1, item, l2, held, todo, gone, before>> /\ pc[o] = "probe"
    BY DEF Probe, history
  <1> HIDE DEF i
  <1>3. /\ call[o].op = "get" /\ before[o] \subseteq gone
        /\ call[o].key # None
    BY <1>2, SlotOfCall, TieredAssumption DEF IInv, PlaceOfCall, FreshInv, OnlyPast
  <1>4. \A k \in Serial : (Cached(k)' <=> Cached(k)) /\ InL1(k)' = InL1(k)
    BY <1>2 DEF Cached, InL1
  <1>5. Underway(o)' /\ FreshFor(o)'
    BY <1>1, <1>2, <1>3 DEF IInv, TieredTypeOK, FreshInv, Clean, Underway, FreshFor, Got
  <1>6. /\ pc' = [pc EXCEPT ![o] = pc'[o]] /\ pc'[o] # "idle"
        /\ held' = [held EXCEPT ![o] = held'[o]] /\ ret' = [ret EXCEPT ![o] = ret'[o]]
        /\ todo' = [todo EXCEPT ![o] = todo'[o]]
    BY <1>1, <1>2 DEF IInv, TieredTypeOK
  <1>7. \A k \in Serial : l2'[k] \notin gone' /\ (Cached(k)' => InL1(k)' \notin gone')
    BY <1>2, <1>4 DEF FreshInv, Clean
  <1> QED
    BY <1>2, <1>4, <1>5, <1>6, <1>7, OwnStep

LEMMA FreshGetL2 ==
    ASSUME IInv, FreshInv, NEW o \in Ops, GetL2(o)
    PROVE  FreshInv'
  <1> DEFINE e == l2[call[o].key]
  <1>1. \/ /\ pc' = [pc EXCEPT ![o] = "done"] /\ ret' = [ret EXCEPT ![o] = None]
           /\ held' = held
        \/ /\ pc' = [pc EXCEPT ![o] = "promote"] /\ ret' = ret
           /\ held' = [held EXCEPT ![o] = e]
    BY DEF GetL2, Goto, Over
  <1>2. UNCHANGED <<call, l1, item, l2, todo, gone, before>> /\ pc[o] = "getL2"
    BY DEF GetL2, history
  <1>3. call[o].op = "get" /\ call[o].key # None /\ (call[o].key \in Serial => e \notin gone)
    BY <1>2, SlotOfCall, TieredAssumption DEF IInv, PlaceOfCall, FreshInv, Clean
  <1> HIDE DEF e
  <1>4. \A k \in Serial : (Cached(k)' <=> Cached(k)) /\ InL1(k)' = InL1(k)
    BY <1>2 DEF Cached, InL1
  <1>5. Underway(o)' /\ FreshFor(o)'
    BY <1>1, <1>2, <1>3 DEF IInv, TieredTypeOK, Underway, FreshFor, Got
  <1>6. /\ pc' = [pc EXCEPT ![o] = pc'[o]] /\ pc'[o] # "idle"
        /\ held' = [held EXCEPT ![o] = held'[o]] /\ ret' = [ret EXCEPT ![o] = ret'[o]]
        /\ todo' = [todo EXCEPT ![o] = todo'[o]]
    BY <1>1, <1>2 DEF IInv, TieredTypeOK
  <1>7. \A k \in Serial : l2'[k] \notin gone' /\ (Cached(k)' => InL1(k)' \notin gone')
    BY <1>2, <1>4 DEF FreshInv, Clean
  <1> QED
    BY <1>2, <1>4, <1>5, <1>6, <1>7, OwnStep

\* A Set's entry is its own: no call that is over stored it.
LEMMA FreshSetL2 ==
    ASSUME IInv, FreshInv, NEW o \in Ops, SetL2(o)
    PROVE  FreshInv'
  <1>1. \/ /\ pc' = [pc EXCEPT ![o] = "promote"] /\ ret' = ret
           /\ held' = [held EXCEPT ![o] = o] /\ l2' = [l2 EXCEPT ![call[o].key] = o]
        \/ /\ pc' = [pc EXCEPT ![o] = "done"] /\ ret' = [ret EXCEPT ![o] = None]
           /\ held' = held /\ l2' = l2
    BY DEF SetL2, Goto, Over
  <1>2. UNCHANGED <<call, l1, item, todo, gone, before>> /\ pc[o] = "setL2"
    BY DEF SetL2, history
  <1>3. /\ call[o].op = "set" /\ call[o].key \in Keys /\ call[o].key # None
        /\ o \notin gone /\ Serial \subseteq Keys
    BY <1>2, SlotOfCall, TieredAssumption DEF IInv, PlaceOfCall, FreshInv, OnlyPast
  <1>4. \A k \in Serial : (Cached(k)' <=> Cached(k)) /\ InL1(k)' = InL1(k)
    BY <1>2 DEF Cached, InL1
  <1>5. Underway(o)' /\ FreshFor(o)'
    BY <1>1, <1>2, <1>3 DEF IInv, TieredTypeOK, Underway, FreshFor, Got
  <1>6. /\ pc' = [pc EXCEPT ![o] = pc'[o]] /\ pc'[o] # "idle"
        /\ held' = [held EXCEPT ![o] = held'[o]] /\ ret' = [ret EXCEPT ![o] = ret'[o]]
        /\ todo' = [todo EXCEPT ![o] = todo'[o]]
    BY <1>1, <1>2 DEF IInv, TieredTypeOK
  <1>7. /\ \A k \in Serial : l2'[k] \notin gone' /\ (Cached(k)' => InL1(k)' \notin gone')
        /\ \A k \in Serial : call[o].key # k => l2'[k] = l2[k]
    BY <1>1, <1>2, <1>3, <1>4 DEF FreshInv, Clean, IInv, TieredTypeOK
  <1> QED
    BY <1>2, <1>4, <1>5, <1>6, <1>7, OwnStep

\* A promotion takes the slot: another key's entry leaves it, the call's own enters.
LEMMA FreshPromote ==
    ASSUME IInv, FreshInv, NEW o \in Ops, Promote(o)
    PROVE  FreshInv'
  <1>1. /\ pc[o] = "promote" /\ pc' = [pc EXCEPT ![o] = "done"]
        /\ item' = [item EXCEPT ![o] = [key |-> call[o].key, entry |-> held[o],
                                        expireAt |-> expiry[held[o]]]]
        /\ l1' = [l1 EXCEPT ![Slot(o)] = o]
        /\ ret' = [ret EXCEPT ![o] = held[o]]
        /\ gone' = IF call[o].op = "set" THEN gone \cup before[o] ELSE gone
        /\ UNCHANGED <<call, l2, held, todo, before>>
    BY DEF Promote, Goto, Over
  <1>2. /\ call[o].op \in {"get", "set"} /\ call[o].key \in Keys /\ call[o].key # None
        /\ Slot(o) \in Slots /\ Serial \subseteq Keys /\ None \notin Ops
        /\ \A k \in Keys : SlotOf[k] \in Slots
    BY <1>1, SlotOfCall, TieredAssumption DEF IInv, PlaceOfCall
  <1>3. ASSUME NEW k \in Serial, Cached(k)'
        PROVE  /\ call[o].key = k => InL1(k)' = held[o]
               /\ call[o].key # k =>
                    Cached(k) /\ InL1(k)' = InL1(k) /\ l1'[SlotOf[k]] = l1[SlotOf[k]]
    BY <1>1, <1>2, <1>3 DEF IInv, TieredTypeOK, Cached, InL1, Slot
  <1>4. call[o].key \in Serial => l2[call[o].key] \notin gone' /\ held[o] \notin gone'
    <2>1. SUFFICES ASSUME call[o].key \in Serial
          PROVE  l2[call[o].key] \notin gone' /\ held[o] \notin gone'
      OBVIOUS
    <2>2. held[o] \notin gone /\ l2[call[o].key] \notin gone
      BY <1>1, <2>1 DEF FreshInv, Underway, Clean
    <2>3. CASE call[o].op = "set"
      <3>1. held[o] = o /\ l2[call[o].key] \in {o, None}
        BY <1>1, <2>1, <2>3 DEF FreshInv, Underway
      <3>2. o \notin before[o] /\ None \notin before[o]
        BY <1>1, <1>2 DEF FreshInv, OnlyPast, IInv, TieredTypeOK
      <3> QED
        BY <1>1, <2>2, <3>1, <3>2
    <2> QED
      BY <1>1, <2>2, <2>3
  <1>5. Underway(o)' /\ FreshFor(o)'
    <2>1. call[o].op = "get" => before[o] \subseteq gone'
      BY <1>1 DEF FreshInv, OnlyPast
    <2> QED
      BY <1>1, <1>4, <2>1 DEF IInv, TieredTypeOK, Underway, FreshFor, Got
  <1>6. /\ pc' = [pc EXCEPT ![o] = pc'[o]] /\ pc'[o] = "done"
        /\ held' = [held EXCEPT ![o] = held'[o]] /\ ret' = [ret EXCEPT ![o] = ret'[o]]
        /\ todo' = [todo EXCEPT ![o] = todo'[o]]
    BY <1>1 DEF IInv, TieredTypeOK
  <1>7. \A k \in Serial : call[o].key \in {k, None} =>
          l2'[k] \notin gone' /\ (Cached(k)' => InL1(k)' \notin gone')
    BY <1>1, <1>2, <1>3, <1>4
  <1> QED
    BY <1>1, <1>2, <1>3, <1>6, <1>5, <1>7, OwnStep

\* Nothing but this call fills the slot with its key again: what Del saw is what it swaps.
LEMMA FreshLoad ==
    ASSUME IInv, FreshInv, NEW o \in Ops, Load(o)
    PROVE  FreshInv'
  <1>1. \/ /\ pc' = [pc EXCEPT ![o] = "swap"] /\ held' = [held EXCEPT ![o] = l1[Slot(o)]]
        \/ /\ pc' = [pc EXCEPT ![o] = "delL2"] /\ held' = held /\ ~Cached(call[o].key)
    BY DEF Load, Goto, Slot, Cached
  <1>2. UNCHANGED <<call, l1, item, l2, todo, ret, gone, before>> /\ pc[o] = "load"
    BY DEF Load, history
  <1>3. call[o].key # None
    BY <1>2, SlotOfCall, TieredAssumption
  <1>4. \A k : (Cached(k)' <=> Cached(k)) /\ InL1(k)' = InL1(k)
    BY <1>2 DEF Cached, InL1
  <1>5. Underway(o)' /\ FreshFor(o)'
    BY <1>1, <1>2, <1>4 DEF IInv, TieredTypeOK, Underway, FreshFor, Got, Slot
  <1>6. /\ pc' = [pc EXCEPT ![o] = pc'[o]] /\ pc'[o] # "idle"
        /\ held' = [held EXCEPT ![o] = held'[o]] /\ ret' = [ret EXCEPT ![o] = ret'[o]]
        /\ todo' = [todo EXCEPT ![o] = todo'[o]]
    BY <1>1, <1>2 DEF IInv, TieredTypeOK
  <1>7. \A k \in Serial : l2'[k] \notin gone' /\ (Cached(k)' => InL1(k)' \notin gone')
    BY <1>2, <1>4 DEF FreshInv, Clean
  <1> QED
    BY <1>2, <1>4, <1>5, <1>6, <1>7, OwnStep

LEMMA FreshSwap ==
    ASSUME IInv, FreshInv, NEW o \in Ops, Swap(o)
    PROVE  FreshInv'
  <1>1. /\ pc[o] = "swap" /\ pc' = [pc EXCEPT ![o] = "delL2"]
        /\ l1' = [l1 EXCEPT ![Slot(o)] = IF @ = held[o] THEN None ELSE @]
        /\ UNCHANGED <<call, item, l2, held, todo, ret, gone, before>>
    BY DEF Swap, Goto, history
  <1>2. /\ call[o].key # None /\ Slot(o) \in Slots /\ Serial \subseteq Keys
        /\ call[o].op = "del" /\ \A k \in Keys : SlotOf[k] \in Slots
    BY <1>1, SlotOfCall, TieredAssumption DEF IInv, PlaceOfCall
  <1>3. ASSUME NEW k \in Serial, Cached(k)'
        PROVE  Cached(k) /\ InL1(k)' = InL1(k) /\ l1'[SlotOf[k]] = l1[SlotOf[k]]
    BY <1>1, <1>2, <1>3 DEF IInv, TieredTypeOK, Cached, InL1
  <1>4. call[o].key \in Serial => ~Cached(call[o].key)'
    <2>1. call[o].key \in Serial /\ Cached(call[o].key) => l1[Slot(o)] = held[o]
      BY <1>1 DEF FreshInv, Underway
    <2>2. call[o].key \in Serial /\ Cached(call[o].key) => l1'[SlotOf[call[o].key]] = None
      BY <1>1, <1>2, <2>1 DEF IInv, TieredTypeOK, Slot
    <2> QED
      BY <1>1, <1>3, <2>2 DEF Cached
  <1>5. Underway(o)' /\ FreshFor(o)'
    BY <1>1, <1>2, <1>4 DEF IInv, TieredTypeOK, Underway, FreshFor, Got
  <1>6. /\ pc' = [pc EXCEPT ![o] = pc'[o]] /\ pc'[o] # "idle"
        /\ held' = [held EXCEPT ![o] = held'[o]] /\ ret' = [ret EXCEPT ![o] = ret'[o]]
        /\ todo' = [todo EXCEPT ![o] = todo'[o]]
    BY <1>1 DEF IInv, TieredTypeOK
  <1>7. \A k \in Serial : l2'[k] \notin gone' /\ (Cached(k)' => InL1(k)' \notin gone')
    BY <1>1, <1>3 DEF FreshInv, Clean
  <1> QED
    BY <1>1, <1>3, <1>5, <1>6, <1>7, OwnStep

\* When Del and Close end, neither tier holds what they found there when they began.
LEMMA FreshDelL2 ==
    ASSUME IInv, FreshInv, NEW o \in Ops, DelL2(o)
    PROVE  FreshInv'
  <1>1. /\ pc[o] = "delL2" /\ pc' = [pc EXCEPT ![o] = "done"]
        /\ l2' = [l2 EXCEPT ![call[o].key] = None] /\ ret' = [ret EXCEPT ![o] = None]
        /\ gone' = gone \cup before[o]
        /\ UNCHANGED <<call, l1, item, held, todo, before>>
    BY DEF DelL2, Goto, Over
  <1>2. /\ call[o].op = "del" /\ call[o].key \in Keys /\ call[o].key # None
        /\ Serial \subseteq Keys /\ None \notin gone'
    BY <1>1, SlotOfCall, TieredAssumption DEF IInv, PlaceOfCall, TieredTypeOK
  <1>3. \A k : (Cached(k)' <=> Cached(k)) /\ InL1(k)' = InL1(k)
    BY <1>1 DEF Cached, InL1
  <1>4. Underway(o)' /\ FreshFor(o)'
    BY <1>1, <1>2 DEF IInv, TieredTypeOK, Underway, FreshFor, Got
  <1>5. /\ pc' = [pc EXCEPT ![o] = pc'[o]] /\ pc'[o] = "done"
        /\ held' = [held EXCEPT ![o] = held'[o]] /\ ret' = [ret EXCEPT ![o] = ret'[o]]
        /\ todo' = [todo EXCEPT ![o] = todo'[o]]
    BY <1>1 DEF IInv, TieredTypeOK
  <1>6. /\ \A k \in Serial : call[o].key # k => l2'[k] = l2[k]
        /\ \A k \in Serial : call[o].key = k => l2'[k] \notin gone' /\ ~Cached(k)'
    BY <1>1, <1>2, <1>3 DEF IInv, TieredTypeOK, FreshInv, Underway
  <1>7. \A k \in Serial : call[o].key \in {k, None} =>
          l2'[k] \notin gone' /\ (Cached(k)' => InL1(k)' \notin gone')
    BY <1>2, <1>6
  <1> QED
    BY <1>1, <1>2, <1>3, <1>4, <1>5, <1>6, <1>7, OwnStep

LEMMA FreshClear ==
    ASSUME IInv, FreshInv, NEW o \in Ops, Clear(o)
    PROVE  FreshInv'
  <1>1. PICK s \in todo[o] :
          l1' = [l1 EXCEPT ![s] = None] /\ todo' = [todo EXCEPT ![o] = @ \ {s}]
    BY DEF Clear
  <1>2. /\ pc[o] = "clear"
        /\ pc' = [pc EXCEPT ![o] = IF todo'[o] = {} THEN "closeL2" ELSE "clear"]
        /\ UNCHANGED <<call, item, l2, held, ret, gone, before>>
    BY DEF Clear, Goto, history
  <1>3. /\ call[o].op = "close" /\ call[o].key = None /\ s \in Slots
        /\ None \notin Serial /\ \A k \in Serial : SlotOf[k] \in Slots
    BY <1>2, CallType, TieredAssumption DEF IInv, PlaceOfCall, TieredTypeOK
  <1>4. ASSUME NEW k \in Serial, Cached(k)'
        PROVE  /\ Cached(k) /\ InL1(k)' = InL1(k) /\ l1'[SlotOf[k]] = l1[SlotOf[k]]
               /\ SlotOf[k] # s
    BY <1>1, <1>2, <1>3, <1>4 DEF IInv, TieredTypeOK, Cached, InL1
  <1>5. todo'[o] = todo[o] \ {s} /\ pc'[o] = IF todo'[o] = {} THEN "closeL2" ELSE "clear"
    BY <1>1, <1>2 DEF IInv, TieredTypeOK
  <1>6. Underway(o)' /\ FreshFor(o)'
    <2>1. \A k \in Serial : SlotOf[k] \notin todo'[o] => ~Cached(k)'
      BY <1>2, <1>4, <1>5 DEF FreshInv, Underway
    <2> QED
      BY <1>2, <1>3, <1>5, <2>1 DEF Underway, FreshFor, Got
  <1>7. /\ pc' = [pc EXCEPT ![o] = pc'[o]] /\ pc'[o] # "idle"
        /\ held' = [held EXCEPT ![o] = held'[o]] /\ ret' = [ret EXCEPT ![o] = ret'[o]]
        /\ todo' = [todo EXCEPT ![o] = todo'[o]]
    BY <1>1, <1>2, <1>5 DEF IInv, TieredTypeOK
  <1>8. \A k \in Serial : l2'[k] \notin gone' /\ (Cached(k)' => InL1(k)' \notin gone')
    BY <1>2, <1>4 DEF FreshInv, Clean
  <1> QED
    BY <1>2, <1>3, <1>4, <1>6, <1>7, <1>8, OwnStep

LEMMA FreshCloseL2 ==
    ASSUME IInv, FreshInv, NEW o \in Ops, CloseL2(o)
    PROVE  FreshInv'
  <1>1. /\ pc[o] = "closeL2" /\ pc' = [pc EXCEPT ![o] = "done"]
        /\ l2' = [k \in Keys |-> None] /\ ret' = [ret EXCEPT ![o] = None]
        /\ gone' = gone \cup before[o]
        /\ UNCHANGED <<call, l1, item, held, todo, before>>
    BY DEF CloseL2, Goto, Over
  <1>2. /\ call[o].op = "close" /\ call[o].key = None
        /\ Serial \subseteq Keys /\ None \notin Keys /\ None \notin gone'
    BY <1>1, CallType, TieredAssumption DEF IInv, PlaceOfCall, TieredTypeOK
  <1>3. \A k \in Serial : ~Cached(k)'
    BY <1>1 DEF Cached, FreshInv, Underway
  <1>4. Underway(o)' /\ FreshFor(o)'
    BY <1>1, <1>2 DEF IInv, TieredTypeOK, Underway, FreshFor, Got
  <1>5. /\ pc' = [pc EXCEPT ![o] = pc'[o]] /\ pc'[o] = "done"
        /\ held' = [held EXCEPT ![o] = held'[o]] /\ ret' = [ret EXCEPT ![o] = ret'[o]]
        /\ todo' = [todo EXCEPT ![o] = todo'[o]]
    BY <1>1 DEF IInv, TieredTypeOK
  <1>6. \A k \in Serial : l2'[k] \notin gone'
    BY <1>1, <1>2
  <1> QED
    BY <1>1, <1>2, <1>3, <1>4, <1>5, <1>6, OwnStep

\* L2 makes room, time passes.
LEMMA FreshOther ==
    ASSUME IInv, FreshInv, (\E k \in Keys : Evict(k)) \/ Tick \/ UNCHANGED vars
    PROVE  FreshInv'
  <1>1. /\ UNCHANGED <<pc, call, l1, item, held, todo, ret, gone, before>>
        /\ \A k \in Keys : l2'[k] \in {l2[k], None}
    BY DEF Evict, Tick, vars, history, IInv, TieredTypeOK
  <1>2. OneAtATime' /\ OnlyPast'
    BY <1>1 DEF FreshInv, OneAtATime, Active, OnlyPast
  <1>3. Serial \subseteq Keys /\ None \notin gone
    BY TieredAssumption DEF IInv, TieredTypeOK
  <1>4. Clean'
    BY <1>1, <1>3 DEF FreshInv, Clean, Cached, InL1
  <1>5. \A o \in Ops : Underway(o)' /\ FreshFor(o)'
    BY <1>1, <1>3 DEF FreshInv, Underway, FreshFor, Got, Cached, Slot
  <1> QED
    BY <1>2, <1>4, <1>5 DEF FreshInv

\* Under a key whose calls do not overlap no Get is answered with what a finished Set
\* replaced or a finished Del or Close removed.  That neither tier holds what is gone
\* is not inductive: a call that is under way may still put it back, so the invariant
\* says what each call holds between its steps.
THEOREM SerialFresh == Spec => []FreshWhenSerial
  <1>1. IInv /\ FreshInv /\ [Next]_vars => FreshInv'
    BY FreshBegin, FreshProbe, FreshGetL2, FreshSetL2, FreshPromote, FreshLoad, FreshSwap,
       FreshDelL2, FreshClear, FreshCloseL2, FreshOther DEF Next
  <1>2. FreshInv => FreshWhenSerial
    BY DEF FreshInv, FreshFor, FreshWhenSerial
  <1> QED
    BY FreshInit, Invariance, <1>1, <1>2, PTL DEF Spec
================================================================================
