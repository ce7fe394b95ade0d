----------------------------- MODULE TieredStore -----------------------------
(***************************************************************************)
(* The two-tier store of store_tier.go: a direct-mapped L1 of atomic       *)
(* pointers over an L2 that is any Store.  An operation is one client's    *)
(* call of Get, Set, Del or Close; every atomic access to L1 and every     *)
(* call of L2 is one step.  An entry, and the l1Entry a call puts in a     *)
(* slot, are named by the Set, and by the call, that created them.  Equal  *)
(* 64-bit key hashes are taken to mean equal keys.                         *)
(***************************************************************************)
EXTENDS Naturals

CONSTANTS Ops,        \* calls, each made once
          Keys,
          Slots,      \* L1 slots
          SlotOf,     \* SlotOf[k]: hash of k modulo L1Slots
          TTLs,       \* TTLs[k]: times to live clients ask for under k, 0: none
          MaxTime,    \* bound of the clock
          Serial,     \* keys whose calls never overlap
          MayLose,    \* BOOLEAN: L2 may refuse a Set and drop entries (capacity)
          None

ASSUME TieredAssumption ==
    /\ SlotOf \in [Keys -> Slots]
    /\ TTLs \in [Keys -> SUBSET Nat] /\ MaxTime \in Nat
    /\ Serial \subseteq Keys /\ MayLose \in BOOLEAN
    /\ None \notin Ops \cup Keys

VARIABLES pc,     \* pc[o]: where call o is
          call,   \* call[o]: [op, key, ttl] of call o
          l1,     \* l1[s]: the item slot s points to, None if nil
          item,   \* item[o]: the l1Entry call o allocated
          l2,     \* l2[k]: the entry L2 holds for k
          expiry, \* expiry[o]: ExpiresAt of the entry Set o stored, 0: never
          held,   \* held[o]: the entry, or the item, call o has loaded
          todo,   \* todo[o]: the slots Close o has yet to clear
          ret,    \* ret[o]: what Get o returned
          now,
          gone,   \* entries overwritten or deleted by a call that is over
          before, \* before[o]: when o began, what was gone (Get), or stored
                  \* under the key (the others)
          since   \* since[o]: when Get o began

history == <<gone, before, since>>
vars == <<pc, call, l1, item, l2, expiry, held, todo, ret, now, history>>

Calls == [op : {"get", "del"}, key : Keys, ttl : {0}]
         \cup (UNION {[op : {"set"}, key : {k}, ttl : TTLs[k]] : k \in Keys})
         \cup {[op |-> "close", key |-> None, ttl |-> 0]}
Expired(e) == expiry[e] # 0 /\ now > expiry[e]
Goto(o, place) == pc' = [pc EXCEPT ![o] = place]
Slot(o) == SlotOf[call[o].key]
Active == {o \in Ops : pc[o] \notin {"idle", "done"}}

Init ==
    /\ pc = [o \in Ops |-> "idle"]
    /\ call = [o \in Ops |-> None]
    /\ l1 = [s \in Slots |-> None]
    /\ item = [o \in Ops |-> None]
    /\ l2 = [k \in Keys |-> None]
    /\ expiry = [o \in Ops |-> 0]
    /\ held = [o \in Ops |-> None]
    /\ todo = [o \in Ops |-> {}]
    /\ ret = [o \in Ops |-> None]
    /\ now = 1
    /\ gone = {}
    /\ before = [o \in Ops |-> {}]
    /\ since = [o \in Ops |-> 0]

\* The entries of a key whose Set succeeded and is over.
SetOver(k) == {o \in Ops : pc[o] = "done" /\ call[o].op = "set" /\ call[o].key = k /\ ret[o] = o}

\* How clients keep the calls on a serial key apart.
MayOverlap(c) ==
    \A p \in Active :
        /\ c.key \in Serial => call[p].key \notin {c.key, None}
        /\ c.op = "close" => call[p].key \notin Serial

\* The first access of a call.
Start == [get |-> "probe", set |-> "setL2", del |-> "load", close |-> "clear"]

\* A call begins; Set fixes the entry's expiration first.
Begin(o, c) ==
    /\ pc[o] = "idle"
    /\ MayOverlap(c)
    /\ call' = [call EXCEPT ![o] = c]
    /\ Goto(o, Start[c.op])
    /\ expiry' = [expiry EXCEPT ![o] = IF c.ttl > 0 THEN now + c.ttl ELSE 0]
    /\ todo' = [todo EXCEPT ![o] = IF c.op = "close" THEN Slots ELSE {}]
    /\ before' = [before EXCEPT ![o] = IF c.op = "get" THEN gone
                                       ELSE IF c.op = "close" THEN UNION {SetOver(k) : k \in Keys}
                                       ELSE SetOver(c.key)]
    /\ since' = [since EXCEPT ![o] = IF c.op = "get" THEN now ELSE 0]
    /\ UNCHANGED <<l1, item, l2, held, ret, now, gone>>

Over(o, result) ==
    /\ Goto(o, "done")
    /\ ret' = [ret EXCEPT ![o] = result]

\* Fault: whatever the slot holds is taken for the key.
ProbeSlot(o) ==
    /\ pc[o] = "probe"
    /\ LET i == l1[Slot(o)] IN
       IF i # None /\ (item[i].expireAt = 0 \/ now <= item[i].expireAt)
         THEN Over(o, item[i].entry)
         ELSE Goto(o, "getL2") /\ UNCHANGED ret
    /\ UNCHANGED <<call, l1, item, l2, expiry, held, todo, now, history>>

\* Get: an unexpired item of this key in the slot is the answer.
Probe(o) ==
    /\ pc[o] = "probe"
    /\ LET i == l1[Slot(o)] IN
       IF i # None /\ item[i].key = call[o].key
             /\ (item[i].expireAt = 0 \/ now <= item[i].expireAt)
         THEN Over(o, item[i].entry)
         ELSE Goto(o, "getL2") /\ UNCHANGED ret
    /\ UNCHANGED <<call, l1, item, l2, expiry, held, todo, now, history>>

GetL2(o) ==
    /\ pc[o] = "getL2"
    /\ LET e == l2[call[o].key] IN
       IF e = None \/ Expired(e)
         THEN Over(o, None) /\ UNCHANGED held
         ELSE /\ held' = [held EXCEPT ![o] = e]
              /\ Goto(o, "promote") /\ UNCHANGED ret
    /\ UNCHANGED <<call, l1, item, l2, expiry, todo, now, history>>

\* Set: L2 first; a refused entry leaves everything as it was.
SetL2(o) ==
    /\ pc[o] = "setL2"
    /\ \/ /\ l2' = [l2 EXCEPT ![call[o].key] = o]
          /\ held' = [held EXCEPT ![o] = o]
          /\ Goto(o, "promote")
          /\ UNCHANGED ret
       \/ /\ MayLose
          /\ Over(o, None)
          /\ UNCHANGED <<l2, held>>
    /\ UNCHANGED <<call, l1, item, expiry, todo, now, history>>

\* Fault: the slot points to the item before its fields are set.
PromoteUnfilled(o) ==
    /\ pc[o] = "promote"
    /\ \/ /\ l1[Slot(o)] # o
          /\ l1' = [l1 EXCEPT ![Slot(o)] = o]
          /\ UNCHANGED <<pc, item, ret, gone>>
       \/ /\ l1[Slot(o)] = o
          /\ item' = [item EXCEPT ![o] = [key |-> call[o].key, entry |-> held[o],
                                          expireAt |-> expiry[held[o]]]]
          /\ Over(o, held[o])
          /\ gone' = IF call[o].op = "set" THEN gone \cup before[o] ELSE gone
          /\ UNCHANGED l1
    /\ UNCHANGED <<call, l2, expiry, held, todo, now, before, since>>

\* Fault: the promoted item does not carry the entry's expiration.
PromoteForever(o) ==
    /\ pc[o] = "promote"
    /\ item' = [item EXCEPT ![o] = [key |-> call[o].key, entry |-> held[o], expireAt |-> 0]]
    /\ l1' = [l1 EXCEPT ![Slot(o)] = o]
    /\ Over(o, held[o])
    /\ gone' = IF call[o].op = "set" THEN gone \cup before[o] ELSE gone
    /\ UNCHANGED <<call, l2, expiry, held, todo, now, before, since>>

\* promoteL1, the last thing of a Get that went to L2 and of a Set.
Promote(o) ==
    /\ pc[o] = "promote"
    /\ item' = [item EXCEPT ![o] = [key |-> call[o].key, entry |-> held[o],
                                    expireAt |-> expiry[held[o]]]]
    /\ l1' = [l1 EXCEPT ![Slot(o)] = o]
    /\ Over(o, held[o])
    /\ gone' = IF call[o].op = "set" THEN gone \cup before[o] ELSE gone
    /\ UNCHANGED <<call, l2, expiry, held, todo, now, before, since>>

\* Fault: Del forgets L1.
LoadNothing(o) ==
    /\ pc[o] = "load"
    /\ Goto(o, "delL2")
    /\ UNCHANGED <<call, l1, item, l2, expiry, held, todo, ret, now, history>>

\* Del: load the slot, swap it for nil if it holds this key, then L2.
Load(o) ==
    /\ pc[o] = "load"
    /\ LET i == l1[Slot(o)] IN
       IF i # None /\ item[i].key = call[o].key
         THEN held' = [held EXCEPT ![o] = i] /\ Goto(o, "swap")
         ELSE UNCHANGED held /\ Goto(o, "delL2")
    /\ UNCHANGED <<call, l1, item, l2, expiry, todo, ret, now, history>>

\* Fault: the slot is emptied with Store(nil), whatever it holds by now.
SwapBlind(o) ==
    /\ pc[o] = "swap"
    /\ l1' = [l1 EXCEPT ![Slot(o)] = None]
    /\ Goto(o, "delL2")
    /\ UNCHANGED <<call, item, l2, expiry, held, todo, ret, now, history>>

Swap(o) ==
    /\ pc[o] = "swap"
    /\ l1' = [l1 EXCEPT ![Slot(o)] = IF @ = held[o] THEN None ELSE @]
    /\ Goto(o, "delL2")
    /\ UNCHANGED <<call, item, l2, expiry, held, todo, ret, now, history>>

DelL2(o) ==
    /\ pc[o] = "delL2"
    /\ l2' = [l2 EXCEPT ![call[o].key] = None]
    /\ Over(o, None)
    /\ gone' = gone \cup before[o]
    /\ UNCHANGED <<call, l1, item, expiry, held, todo, now, before, since>>

\* Close: the slots one by one, then L2 loses everything.
Clear(o) ==
    /\ pc[o] = "clear"
    /\ \E s \in todo[o] :
          /\ l1' = [l1 EXCEPT ![s] = None]
          /\ todo' = [todo EXCEPT ![o] = @ \ {s}]
    /\ Goto(o, IF todo'[o] = {} THEN "closeL2" ELSE "clear")
    /\ UNCHANGED <<call, item, l2, expiry, held, ret, now, history>>

CloseL2(o) ==
    /\ pc[o] = "closeL2"
    /\ l2' = [k \in Keys |-> None]
    /\ Over(o, None)
    /\ gone' = gone \cup before[o]
    /\ UNCHANGED <<call, l1, item, expiry, held, todo, now, before, since>>

\* L2 makes room.
Evict(k) ==
    /\ MayLose /\ l2[k] # None
    /\ l2' = [l2 EXCEPT ![k] = None]
    /\ UNCHANGED <<pc, call, l1, item, expiry, held, todo, ret, now, history>>

Tick ==
    /\ now < MaxTime
    /\ now' = now + 1
    /\ UNCHANGED <<pc, call, l1, item, l2, expiry, held, todo, ret, history>>

Next ==
    \/ \E o \in Ops :
        \/ \E c \in Calls : Begin(o, c)
        \/ Probe(o) \/ GetL2(o) \/ SetL2(o) \/ Promote(o)
        \/ Load(o) \/ Swap(o) \/ DelL2(o)
        \/ Clear(o) \/ CloseL2(o)
    \/ \E k \in Keys : Evict(k)
    \/ Tick

Spec == Init /\ [][Next]_vars
--------------------------------------------------------------------------------
Items == [key : Keys, entry : Ops, expireAt : Nat]

\* A slot points to an item that a finished call filled, of a key of this slot.
SlotsFilled ==
    \A s \in Slots : l1[s] # None =>
        /\ pc[l1[s]] = "done" /\ item[l1[s]] \in Items
        /\ SlotOf[item[l1[s]].key] = s

\* Types; and items are immutable once readers, who take no lock, can find them.
TieredTypeOK ==
    /\ pc \in [Ops -> {"idle", "probe", "getL2", "setL2", "promote", "load", "swap",
                      "delL2", "clear", "closeL2", "done"}]
    /\ call \in [Ops -> Calls \cup {None}]
    /\ l1 \in [Slots -> Ops \cup {None}]
    /\ item \in [Ops -> Items \cup {None}]
    /\ l2 \in [Keys -> Ops \cup {None}]
    /\ expiry \in [Ops -> Nat]
    /\ held \in [Ops -> Ops \cup {None}]
    /\ todo \in [Ops -> SUBSET Slots]
    /\ ret \in [Ops -> Ops \cup {None}]
    /\ now \in Nat
    /\ gone \subseteq Ops /\ before \in [Ops -> SUBSET Ops] /\ since \in [Ops -> Nat]
    /\ SlotsFilled

Got(o) == pc[o] = "done" /\ call[o].op = "get" /\ ret[o] # None

\* The contract the middleware relies on: a Get returns nothing, or an entry that
\* some Set stored under that very key, although keys share slots.
RightKey ==
    \A o \in Ops : Got(o) => call[ret[o]].op = "set" /\ call[ret[o]].key = call[o].key

\* No Get returns an entry that had expired when the Get began, whichever tier
\* it comes from and whoever promoted it in the meantime.
NeverExpired ==
    \A o \in Ops : Got(o) => expiry[ret[o]] = 0 \/ since[o] <= expiry[ret[o]]

\* A key whose calls do not overlap behaves like a cache of the last Set: what a
\* finished Set replaced, or a finished Del or Close removed, does not come back,
\* whatever other keys do to the slot it shares with them.
FreshWhenSerial ==
    \A o \in Ops : Got(o) /\ call[o].key \in Serial => ret[o] \notin before[o]

\* Keys share slots, and between Del's load and its swap (store_tier.go:115-117) another
\* key's call may have put its item there: a Del never takes another key's item out.
DelSparesOthers ==
    [][\A o \in Ops, s \in Slots :
          /\ pc[o] # pc'[o] /\ call[o] # None /\ call[o].op = "del"
          /\ l1[s] # None /\ l1'[s] = None
          => item[l1[s]].key = call[o].key]_vars

\* "Del invalidates the key in both L1 and L2" (store_tier.go:109), for all keys:
\* a Get that begins after the Del is over does not find what was there.
DeletedStaysDeleted == \A o \in Ops : Got(o) => ret[o] \notin before[o]
================================================================================
