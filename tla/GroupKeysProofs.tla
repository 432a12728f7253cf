--------------------------- MODULE GroupKeysProofs --------------------------
(***************************************************************************)
(* Proofs about the keys of a room, for every number of clients and        *)
(* supernodes, every epoch ring, and every order and loss of rosters, keys *)
(* and acknowledgements.                                                   *)
(*                                                                         *)
(* The first part shows that a keyer's own epoch key stays with the        *)
(* members it counts.  The heart of the argument is that keys travel       *)
(* upwards: a client accepts a key only from the elected keyer, who is     *)
(* below it, so a key that a client minted never comes back to it from     *)
(* somebody else.  What it holds of its own making it has distributed      *)
(* itself, to its own view only.                                           *)
(*                                                                         *)
(* The second part is about epochs: as long as the ring has not been used  *)
(* up, every client's current epoch is the highest it holds a key of and   *)
(* never falls while it keeps its keys, and where the recovery comes to    *)
(* rest the members that know of each other are on the keyer's epoch.      *)
(* Neither part takes the rosters to arrive in any order.                  *)
(***************************************************************************)
EXTENDS GroupKeys, WellFoundedInduction, FiniteSetTheorems, SequenceTheorems, TLAPS

\* Numbers of keys; that only minted ones are in use is the invariant's matter.
Number == Nat \ {0}

GroupState == [known : BOOLEAN, current : Epoch, seen_high : Epoch \cup {NoEpoch},
               keys : HashMap(Epoch, Number)]

ClientState == [members : [Server -> SUBSET Client],
                group   : GroupState,
                pending : HashMap(Client, PendingGroupKeyAck)]

Minting == [by : Client, to : SUBSET Client]

\* Keys travel from lower to higher clients only: k is one of the first n keys,
\* and if it has been minted before this step, then by c or a client below c.
Owned(c, k, n) == k \in 1 .. n /\ (k <= Len(minted) => minted[k].by <= c)

Held(c, st, n) == \A e \in DOMAIN st.group.keys : Owned(c, st.group.keys[e], n)

\* A client counts on acknowledgements of others in its view only, and only
\* for a key it has.
Formed(c, st) ==
  /\ st \in ClientState
  /\ c \notin union_members(st)
  /\ DOMAIN st.pending \subseteq union_members(st)
  /\ DOMAIN st.pending # {} => has_keys(st.group)

\* EpochConfined, of a state of client c.
Confined(c, st) ==
  \A k \in current_key(st.group) :
    k <= Len(minted) /\ minted[k].by = c /\ Elected(c, st) =>
      minted[k].to \subseteq union_members(st)

\* What c sends when n keys exist and its view is `members'.
Sends(c, m, members, n) ==
  /\ m.type \in {"SfuGroupKey", "SfuGroupKeyAck"}
  /\ m.from = c /\ m.to \in Client \ {c}
  /\ m.epoch \in Epoch /\ m.key \in 1 .. n
  /\ m = [type |-> m.type, from |-> c, to |-> m.to, epoch |-> m.epoch, key |-> m.key]
  /\ m.type = "SfuGroupKey" => m.to \in members /\ Owned(c, m.key, n)

\* What every handler of client c hands to Take.
Good(c, o) ==
  /\ o.mint \in {0, 1}
  /\ Formed(c, o.st)
  /\ Held(c, o.st, Len(minted) + o.mint)
  /\ Confined(c, o.st)
  /\ \A m \in o.out : Sends(c, m, union_members(o.st), Len(minted) + o.mint)

\* The inductive invariant.
Environment ==
  /\ present \in [Server -> SUBSET Client]
  /\ voice \in [Server -> SUBSET Client]
  /\ \A s \in Server : voice[s] \subseteq present[s]
  /\ linked \in [Server -> SUBSET Client]
  /\ handler \in [Server -> [Client -> Handler]]
  /\ inbox \in [Client -> [Server -> Seq(Notice)]]
  /\ churn \in 0 .. MaxChurn
  /\ lost \in 0 .. MaxLost

Minted == minted \in Seq(Minting) /\ Len(minted) <= MaxMinted

Clients ==
  /\ client \in [Client -> ClientState]
  /\ \A c \in Client :
       Formed(c, client[c]) /\ Held(c, client[c], Len(minted)) /\ Confined(c, client[c])

InFlight ==
  \A m \in net :
    /\ m.from \in Client
    /\ Sends(m.from, m, Client, Len(minted))

KeysInv == Environment /\ Minted /\ Clients /\ InFlight

-----------------------------------------------------------------------------
(* Maps, epochs and keys.                                                  *)

\* The domain and the values of a map, the empty map, and a map with less.
LEMMA MapFacts ==
  ASSUME NEW K, NEW V, NEW f \in HashMap(K, V)
  PROVE  /\ DOMAIN f \subseteq K
         /\ \A k \in DOMAIN f : f[k] \in V
         /\ f = [k \in DOMAIN f |-> f[k]]
         /\ \A D \in SUBSET K : \A g : g \in [D -> V] => g \in HashMap(K, V)
<1>1. PICK D \in SUBSET K : f \in [D -> V]
  BY DEF HashMap
<1>2. \A E \in SUBSET K : \A g : g \in [E -> V] => g \in HashMap(K, V)
  BY DEF HashMap
<1> QED
  BY <1>1, <1>2

\* A function on some of the keys is a map.
LEMMA MapIntro ==
  ASSUME NEW K, NEW V, NEW D \in SUBSET K, NEW f \in [D -> V]
  PROVE  f \in HashMap(K, V)
BY DEF HashMap

\* The map without entries.
LEMMA EmptyMapFacts ==
  ASSUME NEW K, NEW V
  PROVE  EmptyMap \in HashMap(K, V) /\ DOMAIN EmptyMap = {}
<1>1. EmptyMap \in [{} -> V] /\ DOMAIN EmptyMap = {}
  BY DEF EmptyMap
<1> QED
  BY <1>1, MapIntro

\* Removing entries.
LEMMA WithoutFacts ==
  ASSUME NEW K, NEW V, NEW f \in HashMap(K, V), NEW S
  PROVE  /\ Without(f, S) \in HashMap(K, V)
         /\ DOMAIN Without(f, S) = DOMAIN f \ S
         /\ \A k \in DOMAIN f \ S : Without(f, S)[k] = f[k]
<1>1. DOMAIN f \subseteq K /\ \A k \in DOMAIN f : f[k] \in V
  BY MapFacts
<1>2. Without(f, S) \in [DOMAIN f \ S -> V]
  BY <1>1 DEF Without
<1>3. DOMAIN f \ S \in SUBSET K
  BY <1>1
<1>4. Without(f, S) \in HashMap(K, V)
  BY <1>2, <1>3, MapIntro
<1> QED
  BY <1>4 DEF Without

\* Adding an entry.
LEMMA PutFacts ==
  ASSUME NEW K, NEW V, NEW f \in HashMap(K, V), NEW k \in K, NEW v \in V
  PROVE  /\ Put(f, k, v) \in HashMap(K, V)
         /\ DOMAIN Put(f, k, v) = DOMAIN f \cup {k}
         /\ \A x \in DOMAIN Put(f, k, v) : Put(f, k, v)[x] = IF x = k THEN v ELSE f[x]
<1>1. DOMAIN f \subseteq K /\ \A x \in DOMAIN f : f[x] \in V
  BY MapFacts
<1>2. Put(f, k, v) \in [DOMAIN f \cup {k} -> V]
  BY <1>1 DEF Put
<1>3. DOMAIN f \cup {k} \in SUBSET K
  BY <1>1
<1>4. Put(f, k, v) \in HashMap(K, V)
  BY <1>2, <1>3, MapIntro
<1> QED
  BY <1>4 DEF Put

\* Clients are ordered.
LEMMA RankType ==
  ASSUME NEW c \in Client
  PROVE  c \in Int
BY RoomAssumption

\* EpochInv stay in the ring.
LEMMA WrapType ==
  ASSUME NEW n \in Int
  PROVE  Wrap(n) \in Epoch
BY EpochAssumption DEF Wrap, Epoch

\* A non-empty set of naturals has a least element.
LEMMA LeastNat ==
  ASSUME NEW T \in SUBSET Nat, T # {}
  PROVE  \E x \in T : \A y \in T : x <= y
<1>1. PICK x \in T : \A y \in T : ~(<<y, x>> \in OpToRel(<, Nat))
  BY NatLessThanWellFounded, WFMin
<1>2. \A y \in T : ~(y < x)
  BY <1>1 DEF OpToRel
<1> QED
  BY <1>2

\* Retention never drops the highest epoch.
LEMMA SomeRetained ==
  ASSUME NEW E \in SUBSET Epoch, E # {}
  PROVE  Retained(E) # {}
<1> DEFINE T == {RING - e : e \in E}
<1>1. T \in SUBSET Nat /\ T # {}
  <2>1. \A e \in E : RING - e \in Nat
    BY EpochAssumption DEF Epoch
  <2> QED
    BY <2>1
<1>2. PICK x \in T : \A y \in T : x <= y
  BY <1>1, LeastNat
<1>3. PICK e \in E : x = RING - e
  BY <1>2
<1>4. \A f \in E : ~(f > e)
  <2> SUFFICES ASSUME NEW f \in E
               PROVE  ~(f > e)
    OBVIOUS
  <2>1. RING - f \in T
    OBVIOUS
  <2>2. RING - e <= RING - f
    BY <1>2, <1>3, <2>1
  <2>3. e \in Int /\ f \in Int /\ RING \in Int
    BY EpochAssumption DEF Epoch
  <2> QED
    BY <2>2, <2>3
<1>5. {f \in E : f > e} = {}
  BY <1>4
<1>6. Cardinality({f \in E : f > e}) = 0
  BY <1>5, FS_EmptySet
<1> QED
  BY <1>3, <1>6, EpochAssumption DEF Retained

\* What installing key k under epoch e leaves.
LEMMA InstallFacts ==
  ASSUME NEW g \in GroupState, NEW e \in Epoch, NEW k \in Number
  PROVE  LET h == install(g, e, k) IN
         /\ h \in GroupState
         /\ h.current = e
         /\ has_keys(h)
         /\ \A x \in DOMAIN h.keys :
              h.keys[x] = k \/ (x \in DOMAIN g.keys /\ h.keys[x] = g.keys[x])
         /\ current_key(h) \subseteq {k}
<1> DEFINE keys == Put(g.keys, e, k)
           kept == Without(keys, DOMAIN keys \ Retained(DOMAIN keys))
           high == Higher(g.seen_high, e)
           h    == install(g, e, k)
<1>1. g.keys \in HashMap(Epoch, Number)
  BY DEF GroupState
<1>2. /\ keys \in HashMap(Epoch, Number)
      /\ DOMAIN keys = DOMAIN g.keys \cup {e}
      /\ \A x \in DOMAIN keys : keys[x] = IF x = e THEN k ELSE g.keys[x]
  <2>1. keys \in HashMap(Epoch, Number)
    BY <1>1, PutFacts, Zenon
  <2> QED
    BY <2>1 DEF Put
<1>3. DOMAIN keys \in SUBSET Epoch
  BY <1>2, MapFacts
<1>4. Retained(DOMAIN keys) # {} /\ Retained(DOMAIN keys) \subseteq DOMAIN keys
  <2>1. Retained(DOMAIN keys) # {}
    BY <1>2, <1>3, SomeRetained
  <2> QED
    BY <2>1 DEF Retained
<1> HIDE DEF keys
<1>5. /\ kept \in HashMap(Epoch, Number)
      /\ DOMAIN kept = DOMAIN keys \ (DOMAIN keys \ Retained(DOMAIN keys))
      /\ \A x \in DOMAIN kept : kept[x] = keys[x]
  <2>1. kept \in HashMap(Epoch, Number)
    BY <1>2, WithoutFacts
  <2> QED
    BY <2>1 DEF Without
<1>6. DOMAIN kept # {} /\ DOMAIN kept \subseteq DOMAIN keys
  BY <1>4, <1>5
<1>7. high \in Epoch \cup {NoEpoch}
  BY DEF GroupState, Higher
<1>8. h = [g EXCEPT !.current = e, !.keys = kept, !.known = TRUE, !.seen_high = high]
  BY DEF install, note_seen, keys, GroupState
<1> HIDE DEF kept, high, h
<1>9. /\ h \in GroupState
      /\ h.current = e
      /\ h.keys = kept
  BY <1>5, <1>7, <1>8 DEF GroupState
<1>10. \A x \in DOMAIN h.keys :
         h.keys[x] = k \/ (x \in DOMAIN g.keys /\ h.keys[x] = g.keys[x])
  BY <1>2, <1>5, <1>6, <1>9
<1>11. current_key(h) \subseteq {k}
  BY <1>2, <1>5, <1>6, <1>9 DEF current_key, epoch_key
<1>12. has_keys(h)
  BY <1>6, <1>9 DEF has_keys
<1> QED
  BY <1>9, <1>10, <1>11, <1>12 DEF h

\* Observing an epoch touches no key.
LEMMA NoteSeenFacts ==
  ASSUME NEW g \in GroupState, NEW e \in Epoch
  PROVE  /\ note_seen(g, e) \in GroupState
         /\ note_seen(g, e).keys = g.keys
         /\ note_seen(g, e).current = g.current
<1>1. Higher(g.seen_high, e) \in Epoch \cup {NoEpoch}
  BY DEF GroupState, Higher
<1> QED
  BY <1>1 DEF GroupState, note_seen

\* Minting, by rotation or for a first epoch, adds the new key only.
LEMMA MintFacts ==
  ASSUME NEW g \in GroupState, NEW k \in Number,
         NEW h, h = rotate(g, k) \/ h = new_owner_epoch(g, k)
  PROVE  /\ h \in GroupState
         /\ has_keys(h)
         /\ \A x \in DOMAIN h.keys :
              h.keys[x] = k \/ (x \in DOMAIN g.keys /\ h.keys[x] = g.keys[x])
         /\ current_key(h) \subseteq {k}
<1>1. next_epoch(g) \in Epoch /\ 0 \in Epoch
  <2>1. Higher(g.seen_high, g.current) + 1 \in Int
    BY DEF GroupState, Higher, Epoch, NoEpoch
  <2> QED
    BY <2>1, WrapType, EpochAssumption DEF next_epoch, Epoch
<1>2. CASE h = install(g, next_epoch(g), k)
  BY <1>1, <1>2, InstallFacts
<1>3. CASE h = new_owner_epoch(g, k)
  <2> DEFINE b == [NoGroup EXCEPT !.seen_high = g.seen_high]
             e == IF g.known THEN next_epoch(g) ELSE 0
  <2>1. e \in Epoch
    BY <1>1
  <2>2. EmptyMap \in HashMap(Epoch, Number) /\ DOMAIN EmptyMap = {}
    BY EmptyMapFacts
  <2>3. b \in GroupState /\ b.keys = EmptyMap
    BY <1>1, <2>2 DEF GroupState, NoGroup
  <2>4. h = install(b, e, k)
    BY <1>3 DEF new_owner_epoch
  <2> HIDE DEF b, e
  <2> QED
    BY <2>1, <2>2, <2>3, <2>4, InstallFacts
<1> QED
  BY <1>2, <1>3 DEF rotate

-----------------------------------------------------------------------------
(* Distribution.                                                           *)

\* A client's view is a set of clients.
LEMMA ViewType ==
  ASSUME NEW st \in ClientState
  PROVE  union_members(st) \in SUBSET Client
BY DEF union_members, ClientState

\* Members that owe nothing yet now owe an acknowledgement of epoch e.
LEMMA AwaitingFacts ==
  ASSUME NEW p \in HashMap(Client, PendingGroupKeyAck), NEW e \in Epoch,
         NEW members \in SUBSET Client, members \cap DOMAIN p = {}
  PROVE  /\ Awaiting(p, e, members) \in HashMap(Client, PendingGroupKeyAck)
         /\ DOMAIN Awaiting(p, e, members) = DOMAIN p \cup members
<1>1. DOMAIN p \subseteq Client /\ \A m \in DOMAIN p : p[m] \in PendingGroupKeyAck
  BY MapFacts
<1>2. [epoch |-> e, attempts |-> 1] \in PendingGroupKeyAck
  BY EpochAssumption DEF PendingGroupKeyAck
<1>3. Awaiting(p, e, members) \in [DOMAIN p \cup members -> PendingGroupKeyAck]
  BY <1>1, <1>2 DEF Awaiting
<1>4. DOMAIN p \cup members \in SUBSET Client
  BY <1>1
<1> QED
  BY <1>3, <1>4, MapIntro

\* Distributing a key that may be passed on, within the client's own view.
LEMMA DistributeGood ==
  ASSUME Minted, NEW c \in Client, NEW st, Formed(c, st), has_keys(st.group),
         NEW mint \in {0, 1}, Held(c, st, Len(minted) + mint), Confined(c, st),
         NEW k, Owned(c, k, Len(minted) + mint),
         NEW members, members \subseteq union_members(st),
         members \cap DOMAIN st.pending = {}
  PROVE  Good(c, Distribute(c, st, k, members, mint))
<1> DEFINE p == Awaiting(st.pending, st.group.current, members)
           a == [st EXCEPT !.pending = p]
           o == Distribute(c, st, k, members, mint)
<1>1. st \in ClientState /\ union_members(st) \in SUBSET Client
  BY ViewType DEF Formed
<1>2. /\ st.pending \in HashMap(Client, PendingGroupKeyAck)
      /\ st.group \in GroupState /\ st.group.current \in Epoch
  BY <1>1 DEF ClientState, GroupState
<1>3. /\ p \in HashMap(Client, PendingGroupKeyAck)
      /\ DOMAIN p = DOMAIN st.pending \cup members
  BY <1>1, <1>2, AwaitingFacts
<1> HIDE DEF p
<1>4. /\ a \in ClientState /\ a.group = st.group /\ a.pending = p
      /\ union_members(a) = union_members(st)
  BY <1>1, <1>2, <1>3 DEF ClientState, union_members
<1>5. /\ o.st = a /\ o.mint = mint
      /\ o.out = {Sealed(c, m, st.group.current, k) : m \in members}
  BY DEF Distribute, Outcome, p
<1> HIDE DEF a, o
<1>6. Formed(c, a)
  BY <1>3, <1>4 DEF Formed
<1>7. Held(c, a, Len(minted) + mint) /\ Confined(c, a)
  BY <1>4 DEF Held, Confined, Elected
<1>8. ASSUME NEW m \in o.out
      PROVE  Sends(c, m, union_members(a), Len(minted) + mint)
  <2>1. PICK x \in members : m = Sealed(c, x, st.group.current, k)
    BY <1>5
  <2>2. x \in Client \ {c} /\ x \in union_members(a)
    BY <1>1, <1>4 DEF Formed
  <2> QED
    BY <1>2, <2>1, <2>2 DEF Sealed, Sends, Owned
<1> QED
  BY <1>5, <1>6, <1>7, <1>8 DEF Good, o

\* The record of a key.
LEMMA MintedType ==
  ASSUME Minted, NEW k \in 1 .. Len(minted)
  PROVE  minted[k] \in Minting
<1>1. minted \in Seq(Minting)
  BY DEF Minted
<1> QED
  BY <1>1

\* A key minted in this step may be passed on, and confines nothing yet.
LEMMA FreshKey ==
  ASSUME Minted, NEW c \in Client
  PROVE  NextKey \in Number /\ NextKey > Len(minted) /\ Owned(c, NextKey, Len(minted) + 1)
BY DEF Minted, NextKey, Number, Owned

\* The state with group state g and acknowledgements p.
Rekeyed(st, g, p) == [st EXCEPT !.group = g, !.pending = p]

\* It keeps the view.
LEMMA RekeyedFacts ==
  ASSUME NEW st \in ClientState, NEW g \in GroupState,
         NEW p \in HashMap(Client, PendingGroupKeyAck)
  PROVE  LET a == Rekeyed(st, g, p) IN
         /\ a \in ClientState /\ a.group = g /\ a.pending = p
         /\ a.members = st.members /\ union_members(a) = union_members(st)
<1>1. /\ Rekeyed(st, g, p) \in ClientState /\ Rekeyed(st, g, p).group = g
      /\ Rekeyed(st, g, p).pending = p /\ Rekeyed(st, g, p).members = st.members
  BY DEF ClientState, Rekeyed
<1> QED
  BY <1>1 DEF union_members

\* A state with a key minted in this step and nothing pending yet.
LEMMA MintedState ==
  ASSUME Minted, NEW c \in Client, NEW st \in ClientState, c \notin union_members(st),
         Held(c, st, Len(minted)),
         NEW h, h = rotate(st.group, NextKey) \/ h = new_owner_epoch(st.group, NextKey),
         NEW p \in HashMap(Client, PendingGroupKeyAck), DOMAIN p = {}
  PROVE  LET a == Rekeyed(st, h, p) IN
         /\ Formed(c, a) /\ has_keys(a.group)
         /\ Held(c, a, Len(minted) + 1) /\ Confined(c, a)
         /\ union_members(a) = union_members(st)
         /\ DOMAIN a.pending = {}
<1> DEFINE a == Rekeyed(st, h, p)
<1>1. st.group \in GroupState
  BY DEF ClientState
<1>2. NextKey \in Number /\ NextKey > Len(minted) /\ Owned(c, NextKey, Len(minted) + 1)
  BY FreshKey
<1>3. /\ h \in GroupState
      /\ has_keys(h)
      /\ \A x \in DOMAIN h.keys :
           \/ h.keys[x] = NextKey
           \/ x \in DOMAIN st.group.keys /\ h.keys[x] = st.group.keys[x]
      /\ current_key(h) \subseteq {NextKey}
  BY <1>1, <1>2, MintFacts
<1>5. /\ a \in ClientState /\ a.group = h /\ a.pending = p
      /\ union_members(a) = union_members(st)
  BY <1>3, RekeyedFacts
<1> HIDE DEF a
<1>6. Formed(c, a) /\ has_keys(a.group) /\ DOMAIN a.pending = {}
  BY <1>3, <1>5 DEF Formed
<1>7. Held(c, a, Len(minted) + 1)
  <2> SUFFICES ASSUME NEW x \in DOMAIN h.keys
               PROVE  Owned(c, h.keys[x], Len(minted) + 1)
    BY <1>5 DEF Held
  <2>1. CASE h.keys[x] = NextKey
    BY <1>2, <2>1
  <2>2. CASE x \in DOMAIN st.group.keys /\ h.keys[x] = st.group.keys[x]
    <3>1. Owned(c, st.group.keys[x], Len(minted))
      BY <2>2 DEF Held
    <3> QED
      BY <2>2, <3>1 DEF Owned, Minted
  <2> QED
    BY <1>3, <2>1, <2>2
<1>8. Confined(c, a)
  <2>1. \A k \in current_key(a.group) : ~(k <= Len(minted))
    BY <1>2, <1>3, <1>5 DEF Minted, NextKey
  <2> QED
    BY <2>1 DEF Confined
<1> QED
  BY <1>5, <1>6, <1>7, <1>8 DEF a

\* Rotating and sealing to everyone in view.
LEMMA RekeyGood ==
  ASSUME Minted, NEW c \in Client, NEW st \in ClientState, c \notin union_members(st),
         Held(c, st, Len(minted))
  PROVE  Good(c, Rekey(c, st)) /\ Rekey(c, st).mint = 1
<1> DEFINE h == rotate(st.group, NextKey)
           a == Rekeyed(st, h, EmptyMap)
<1>0. EmptyMap \in HashMap(Client, PendingGroupKeyAck) /\ DOMAIN EmptyMap = {}
  BY EmptyMapFacts
<1>3. Rekey(c, st) = Distribute(c, a, NextKey, union_members(st), 1)
  BY DEF Rekey, Rekeyed
<1>a. h = rotate(st.group, NextKey)
  OBVIOUS
<1> HIDE DEF h
<1>1. /\ Formed(c, a) /\ has_keys(a.group)
      /\ Held(c, a, Len(minted) + 1) /\ Confined(c, a)
      /\ union_members(a) = union_members(st)
      /\ DOMAIN a.pending = {}
  BY <1>0, <1>a, MintedState
<1>2. Owned(c, NextKey, Len(minted) + 1)
  BY FreshKey
<1> HIDE DEF a
<1>4. Good(c, Distribute(c, a, NextKey, union_members(st), 1))
  BY <1>1, <1>2, DistributeGood
<1>5. Distribute(c, a, NextKey, union_members(st), 1).mint = 1
  BY DEF Distribute, Outcome
<1> QED
  BY <1>3, <1>4, <1>5

\* Doing nothing but to take a well-formed state.
LEMMA NothingGood ==
  ASSUME Minted, NEW c \in Client, NEW st, Formed(c, st), Held(c, st, Len(minted)),
         Confined(c, st)
  PROVE  Good(c, Outcome(st, {}, 0))
BY DEF Good, Outcome, Minted

-----------------------------------------------------------------------------
(* The handlers.                                                           *)

\* A client that merely owes or is owed less, or has observed an epoch.
LEMMA LessPending ==
  ASSUME Minted, NEW c \in Client, NEW st, Formed(c, st), Held(c, st, Len(minted)),
         Confined(c, st), NEW g \in GroupState, g.keys = st.group.keys,
         g.current = st.group.current,
         NEW p \in HashMap(Client, PendingGroupKeyAck), DOMAIN p \subseteq DOMAIN st.pending
  PROVE  LET a == Rekeyed(st, g, p) IN
         /\ Formed(c, a) /\ Held(c, a, Len(minted)) /\ Confined(c, a)
         /\ a.group = g /\ a.pending = p
         /\ union_members(a) = union_members(st)
<1> DEFINE a == Rekeyed(st, g, p)
<1>1. st \in ClientState
  BY DEF Formed
<1>2. /\ a \in ClientState /\ a.group = g /\ a.pending = p
      /\ union_members(a) = union_members(st)
  BY <1>1, RekeyedFacts
<1> HIDE DEF a
<1>3. Formed(c, a)
  BY <1>2 DEF Formed, has_keys
<1>4. Held(c, a, Len(minted))
  BY <1>2 DEF Held
<1>5. Confined(c, a)
  BY <1>2 DEF Confined, Elected, current_key, epoch_key
<1> QED
  BY <1>2, <1>3, <1>4, <1>5 DEF a

\* What replacing one server's roster leaves of a client's state.
RosterState(st, s, members) == [st EXCEPT !.members[s] = members]

LEMMA RosterFacts ==
  ASSUME NEW c \in Client, NEW st \in ClientState, c \notin union_members(st),
         NEW s \in Server, NEW members \in SUBSET Client
  PROVE  LET a == RosterState(st, s, members \ {c}) IN
         /\ a \in ClientState /\ a.group = st.group /\ a.pending = st.pending
         /\ c \notin union_members(a)
<1> DEFINE a == RosterState(st, s, members \ {c})
<1>1. st.members \in [Server -> SUBSET Client]
  BY DEF ClientState
<1>2. /\ a \in ClientState /\ a.group = st.group /\ a.pending = st.pending
      /\ a.members = [st.members EXCEPT ![s] = members \ {c}]
  BY <1>1 DEF ClientState, RosterState
<1>3. \A t \in Server : c \notin st.members[t]
  BY DEF union_members
<1>4. \A t \in Server : c \notin a.members[t]
  BY <1>1, <1>2, <1>3
<1> QED
  BY <1>2, <1>4 DEF union_members

\* Without keys there is no current key.
LEMMA Keyless ==
  ASSUME NEW g, ~has_keys(g)
  PROVE  current_key(g) = {}
BY DEF has_keys, current_key, epoch_key

\* A key that seals the current epoch may be passed on.
LEMMA CurrentOwned ==
  ASSUME NEW c, NEW st, NEW n, Held(c, st, n), current_key(st.group) # {}
  PROVE  Owned(c, st.group.keys[st.group.current], n) /\ has_keys(st.group)
BY DEF Held, current_key, epoch_key, has_keys

\* sync_room_membership, by its branches.
SyncOutcome(c, st, s, members) ==
  LET st1  == RosterState(st, s, members \ {c})
      old  == union_members(st)
      new  == union_members(st1)
      p    == Without(st.pending, Client \ new)
      kept == Rekeyed(st1, st.group, p)
  IN  IF ~Elected(c, st1) THEN Outcome(Rekeyed(st1, st.group, EmptyMap), {}, 0)
      ELSE IF ~has_keys(st.group) /\ new # {}
      THEN Distribute(c, Rekeyed(st1, new_owner_epoch(st.group, NextKey), p), NextKey, new, 1)
      ELSE IF has_keys(st.group) /\ old \ new # {} THEN Rekey(c, st1)
      ELSE IF has_keys(st.group) /\ new \ old # {} /\ current_key(st.group) # {}
      THEN Distribute(c, kept, st.group.keys[st.group.current], new \ old, 0)
      ELSE Outcome(kept, {}, 0)

LEMMA SyncShape ==
  ASSUME NEW c \in Client, NEW st \in ClientState, c \notin union_members(st),
         NEW s \in Server, NEW members \in SUBSET Client
  PROVE  sync_room_membership(c, st, s, members) = SyncOutcome(c, st, s, members)
<1> DEFINE st1  == RosterState(st, s, members \ {c})
           old  == union_members(st)
           new  == union_members(st1)
           p    == Without(st.pending, Client \ new)
           kept == Rekeyed(st1, st.group, p)
           h    == new_owner_epoch(st.group, NextKey)
           key  == st.group.keys[st.group.current]
           res  == sync_room_membership(c, st, s, members)
           none == [st1 EXCEPT !.pending = EmptyMap]
           some == [st1 EXCEPT !.pending = Without(@, Client \ new)]
           own  == [some EXCEPT !.group = new_owner_epoch(@, NextKey)]
<1>1. st1 \in ClientState /\ st1.group = st.group /\ st1.pending = st.pending
  BY RosterFacts
<1>2. none = Rekeyed(st1, st.group, EmptyMap) /\ some = kept /\ own = Rekeyed(st1, h, p)
  BY <1>1 DEF ClientState, Rekeyed
<1>3. res =
        IF ~Elected(c, st1) THEN Outcome(none, {}, 0)
        ELSE IF ~has_keys(st.group) /\ new # {} THEN Distribute(c, own, NextKey, new, 1)
        ELSE IF has_keys(st.group) /\ old \ new # {} THEN Rekey(c, st1)
        ELSE IF has_keys(st.group) /\ new \ old # {} /\ current_key(st.group) # {}
        THEN Distribute(c, some, key, new \ old, 0)
        ELSE Outcome(some, {}, 0)
  BY DEF sync_room_membership, RosterState
<1>4. res =
        IF ~Elected(c, st1) THEN Outcome(Rekeyed(st1, st.group, EmptyMap), {}, 0)
        ELSE IF ~has_keys(st.group) /\ new # {}
        THEN Distribute(c, Rekeyed(st1, h, p), NextKey, new, 1)
        ELSE IF has_keys(st.group) /\ old \ new # {} THEN Rekey(c, st1)
        ELSE IF has_keys(st.group) /\ new \ old # {} /\ current_key(st.group) # {}
        THEN Distribute(c, kept, key, new \ old, 0)
        ELSE Outcome(kept, {}, 0)
  <2> HIDE DEF st1, old, new, p, kept, h, key, res, none, some, own
  <2> QED
    BY <1>2, <1>3
<1> QED
  BY <1>4 DEF SyncOutcome

\* sync_room_membership: whoever stays keyer after a departure has rotated,
\* and without a departure its view has only grown.
LEMMA SyncGood ==
  ASSUME Minted, NEW c \in Client, NEW st, Formed(c, st), Held(c, st, Len(minted)),
         Confined(c, st), NEW s \in Server, NEW members \in SUBSET Client
  PROVE  Good(c, sync_room_membership(c, st, s, members))
<1> DEFINE st1  == RosterState(st, s, members \ {c})
           old  == union_members(st)
           new  == union_members(st1)
           p    == Without(st.pending, Client \ new)
           kept == Rekeyed(st1, st.group, p)
           h    == new_owner_epoch(st.group, NextKey)
           key  == st.group.keys[st.group.current]
           res  == sync_room_membership(c, st, s, members)
<1>1. st \in ClientState /\ c \notin old
  BY DEF Formed
<1>2. /\ st1 \in ClientState /\ st1.group = st.group /\ st1.pending = st.pending
      /\ c \notin new
  BY <1>1, RosterFacts
<1>3. old \in SUBSET Client /\ new \in SUBSET Client
  BY <1>1, <1>2, ViewType
<1>4. /\ st.group \in GroupState /\ st.pending \in HashMap(Client, PendingGroupKeyAck)
      /\ DOMAIN st.pending \subseteq old
      /\ DOMAIN st.pending # {} => has_keys(st.group)
  BY <1>1 DEF ClientState, Formed
<1>5. EmptyMap \in HashMap(Client, PendingGroupKeyAck) /\ DOMAIN EmptyMap = {}
  BY EmptyMapFacts
<1>6. res =
        IF ~Elected(c, st1) THEN Outcome(Rekeyed(st1, st.group, EmptyMap), {}, 0)
        ELSE IF ~has_keys(st.group) /\ new # {}
        THEN Distribute(c, Rekeyed(st1, h, p), NextKey, new, 1)
        ELSE IF has_keys(st.group) /\ old \ new # {} THEN Rekey(c, st1)
        ELSE IF has_keys(st.group) /\ new \ old # {} /\ current_key(st.group) # {}
        THEN Distribute(c, kept, key, new \ old, 0)
        ELSE Outcome(kept, {}, 0)
  <2>1. res = SyncOutcome(c, st, s, members)
    BY <1>1, SyncShape
  <2> QED
    BY <2>1 DEF SyncOutcome
<1> HIDE DEF st1, res
<1>7. /\ p \in HashMap(Client, PendingGroupKeyAck)
      /\ DOMAIN p = DOMAIN st.pending \ (Client \ new)
  <2>1. p \in HashMap(Client, PendingGroupKeyAck)
    BY <1>4, WithoutFacts
  <2> QED
    BY <2>1 DEF Without
<1>8. DOMAIN p \subseteq new /\ DOMAIN p \subseteq old
  BY <1>3, <1>4, <1>7
<1> HIDE DEF p, h
<1>9. Held(c, st1, Len(minted))
  BY <1>2 DEF Held
<1>10. /\ kept \in ClientState /\ kept.group = st.group /\ kept.pending = p
       /\ union_members(kept) = new
  BY <1>2, <1>4, <1>7, RekeyedFacts
<1>11. CASE ~Elected(c, st1)
  <2> DEFINE a == Rekeyed(st1, st.group, EmptyMap)
  <2>1. /\ a \in ClientState /\ a.group = st.group /\ a.pending = EmptyMap
        /\ union_members(a) = new
    BY <1>2, <1>4, <1>5, RekeyedFacts
  <2> HIDE DEF a
  <2>2. Formed(c, a)
    BY <1>2, <1>5, <2>1 DEF Formed
  <2>3. Held(c, a, Len(minted))
    BY <2>1 DEF Held
  <2>4. Confined(c, a)
    BY <1>11, <2>1 DEF Confined, Elected
  <2>5. res = Outcome(a, {}, 0)
    BY <1>6, <1>11 DEF a
  <2>6. Good(c, Outcome(a, {}, 0))
    BY <2>2, <2>3, <2>4, NothingGood
  <2> QED
    BY <2>5, <2>6 DEF res
<1>12. CASE Elected(c, st1) /\ ~has_keys(st.group) /\ new # {}
  <2> DEFINE a == Rekeyed(st1, h, p)
  <2>1. DOMAIN p = {} /\ h = new_owner_epoch(st1.group, NextKey)
    BY <1>2, <1>4, <1>7, <1>12 DEF h
  <2>2. /\ Formed(c, a) /\ has_keys(a.group)
        /\ Held(c, a, Len(minted) + 1) /\ Confined(c, a)
        /\ union_members(a) = new
        /\ DOMAIN a.pending = {}
    BY <1>2, <1>7, <1>9, <2>1, MintedState
  <2>3. Owned(c, NextKey, Len(minted) + 1)
    BY FreshKey
  <2>4. res = Distribute(c, a, NextKey, new, 1)
    BY <1>6, <1>12
  <2> HIDE DEF a
  <2>5. Good(c, Distribute(c, a, NextKey, new, 1))
    BY <2>2, <2>3, DistributeGood
  <2> QED
    BY <2>4, <2>5 DEF res
<1>13. CASE Elected(c, st1) /\ has_keys(st.group) /\ old \ new # {}
  <2>1. res = Rekey(c, st1)
    BY <1>6, <1>13
  <2>2. Good(c, Rekey(c, st1))
    BY <1>2, <1>9, RekeyGood
  <2> QED
    BY <2>1, <2>2 DEF res
<1>14. CASE /\ Elected(c, st1)
            /\ \/ ~has_keys(st.group) /\ new = {}
               \/ has_keys(st.group) /\ old \ new = {}
  <2> HIDE DEF kept
  <2>1. Formed(c, kept)
    BY <1>2, <1>4, <1>7, <1>8, <1>10 DEF Formed
  <2>2. Held(c, kept, Len(minted))
    BY <1>10 DEF Held
  <2>3. Confined(c, kept)
    <3>1. CASE ~has_keys(st.group)
      BY <1>10, <3>1, Keyless DEF Confined
    <3>2. CASE old \subseteq new
      <4>1. Elected(c, kept) => Elected(c, st)
        BY <1>10, <3>2 DEF Elected, is_elected_keyer
      <4> QED
        BY <1>10, <3>2, <4>1 DEF Confined
    <3> QED
      BY <1>14, <3>1, <3>2
  <2>4. CASE has_keys(st.group) /\ new \ old # {} /\ current_key(st.group) # {}
    <3>1. res = Distribute(c, kept, key, new \ old, 0)
      BY <1>6, <1>14, <2>4
    <3>2. Owned(c, key, Len(minted) + 0) /\ Held(c, kept, Len(minted) + 0)
      <4>1. Owned(c, key, Len(minted))
        BY <2>4, CurrentOwned
      <4> QED
        BY <2>2, <4>1 DEF Minted
    <3>3. (new \ old) \cap DOMAIN kept.pending = {} /\ new \ old \subseteq union_members(kept)
      BY <1>8, <1>10
    <3>4. has_keys(kept.group)
      BY <1>10, <2>4
    <3> HIDE DEF key, old, new
    <3>5. Good(c, Distribute(c, kept, key, new \ old, 0))
      BY <2>1, <2>3, <3>2, <3>3, <3>4, DistributeGood
    <3> QED
      BY <3>1, <3>5 DEF res
  <2>5. CASE ~(has_keys(st.group) /\ new \ old # {} /\ current_key(st.group) # {})
    <3>1. res = Outcome(kept, {}, 0)
      BY <1>6, <1>14, <2>5
    <3>2. Good(c, Outcome(kept, {}, 0))
      BY <2>1, <2>2, <2>3, NothingGood
    <3> QED
      BY <3>1, <3>2 DEF res
  <2> QED
    BY <2>4, <2>5
<1> QED
  BY <1>11, <1>12, <1>13, <1>14

\* rekey_room_if_behind.
LEMMA RekeyIfBehindGood ==
  ASSUME Minted, NEW c \in Client, NEW st, Formed(c, st), Held(c, st, Len(minted)),
         Confined(c, st)
  PROVE  LET o == rekey_room_if_behind(c, st) IN
         Good(c, o) /\ (o.mint = 0 => o.out = {})
<1>1. Good(c, Outcome(st, {}, 0)) /\ Outcome(st, {}, 0).out = {}
  <2>1. Good(c, Outcome(st, {}, 0))
    BY NothingGood
  <2> QED
    BY <2>1 DEF Outcome
<1>2. Good(c, Rekey(c, st)) /\ Rekey(c, st).mint = 1
  BY RekeyGood DEF Formed
<1> QED
  BY <1>1, <1>2 DEF rekey_room_if_behind

\* reseal_to_lagging_member, which does nothing right after a rotation.
LEMMA ResealGood ==
  ASSUME Minted, NEW c \in Client, NEW st, Formed(c, st), Held(c, st, Len(minted)),
         Confined(c, st), NEW sender, NEW e, NEW aged \in BOOLEAN
  PROVE  LET o == reseal_to_lagging_member(c, st, sender, e, aged) IN
         Good(c, o) /\ o.mint = 0 /\ (~aged => o = Outcome(st, {}, 0))
<1> DEFINE o   == reseal_to_lagging_member(c, st, sender, e, aged)
           p   == Without(st.pending, {sender})
           a   == Rekeyed(st, st.group, p)
           key == st.group.keys[st.group.current]
<1>1. /\ st \in ClientState /\ st.group \in GroupState
      /\ st.pending \in HashMap(Client, PendingGroupKeyAck)
  BY DEF Formed, ClientState
<1>2. /\ p \in HashMap(Client, PendingGroupKeyAck)
      /\ DOMAIN p = DOMAIN st.pending \ {sender}
  <2>1. p \in HashMap(Client, PendingGroupKeyAck)
    BY <1>1, WithoutFacts
  <2> QED
    BY <2>1 DEF Without
<1>3. a = [st EXCEPT !.pending = Without(@, {sender})]
  BY <1>1 DEF Rekeyed, ClientState
<1> HIDE DEF p
<1>4. /\ Formed(c, a) /\ Held(c, a, Len(minted)) /\ Confined(c, a)
      /\ a.group = st.group /\ a.pending = p
      /\ union_members(a) = union_members(st)
  BY <1>1, <1>2, LessPending
<1> HIDE DEF a
<1>5. CASE o = Distribute(c, a, key, {sender}, 0) /\ aged
           /\ sender \in union_members(st) /\ current_key(st.group) # {}
  <2>1. Owned(c, key, Len(minted)) /\ has_keys(st.group)
    BY <1>5, CurrentOwned
  <2>2. Owned(c, key, Len(minted) + 0) /\ Held(c, a, Len(minted) + 0)
    BY <1>4, <2>1 DEF Minted
  <2>3. {sender} \cap DOMAIN a.pending = {} /\ {sender} \subseteq union_members(a)
    BY <1>2, <1>4, <1>5
  <2>4. has_keys(a.group)
    BY <1>4, <2>1
  <2> HIDE DEF key, o
  <2>5. Good(c, Distribute(c, a, key, {sender}, 0))
    BY <1>4, <2>2, <2>3, <2>4, DistributeGood
  <2>6. Distribute(c, a, key, {sender}, 0).mint = 0
    BY DEF Distribute, Outcome
  <2> QED
    BY <1>5, <2>5, <2>6 DEF o
<1>6. CASE o = Outcome(st, {}, 0)
  <2>1. Good(c, Outcome(st, {}, 0))
    BY NothingGood
  <2>2. Outcome(st, {}, 0).mint = 0
    BY DEF Outcome
  <2> HIDE DEF o
  <2> QED
    BY <1>6, <2>1, <2>2 DEF o
<1>7. \/ /\ o = Distribute(c, a, key, {sender}, 0) /\ aged
         /\ sender \in union_members(st) /\ current_key(st.group) # {}
      \/ o = Outcome(st, {}, 0)
  BY <1>3 DEF reseal_to_lagging_member, should_reseal_to_lagging_member
<1> QED
  BY <1>5, <1>6, <1>7

\* A frame of some member.
LEMMA FrameGood ==
  ASSUME Minted, NEW c \in Client, NEW st, Formed(c, st), Held(c, st, Len(minted)),
         Confined(c, st), NEW m, m.epoch \in Epoch, NEW aged \in BOOLEAN
  PROVE  Good(c, OnFrame(c, st, m, aged))
<1> DEFINE g       == note_seen(st.group, m.epoch)
           a       == Rekeyed(st, g, st.pending)
           rekeyed == rekey_room_if_behind(c, a)
           opened  == epoch_key(st.group, m.epoch) = {m.key}
           after   == IF opened THEN Outcome(st, {}, 0) ELSE rekeyed
           reseal  == reseal_to_lagging_member(c, after.st, m.from, m.epoch,
                                               aged /\ after.mint = 0)
           o       == OnFrame(c, st, m, aged)
<1>1. /\ st \in ClientState /\ st.group \in GroupState
      /\ st.pending \in HashMap(Client, PendingGroupKeyAck)
  BY DEF Formed, ClientState
<1>2. g \in GroupState /\ g.keys = st.group.keys /\ g.current = st.group.current
  BY <1>1, NoteSeenFacts
<1>3. o = Outcome(reseal.st, after.out \cup reseal.out, after.mint)
  <2>1. a = [st EXCEPT !.group = note_seen(@, m.epoch)]
    BY <1>1 DEF Rekeyed, ClientState
  <2> QED
    BY <2>1 DEF OnFrame
<1> HIDE DEF g
<1>4. Formed(c, a) /\ Held(c, a, Len(minted)) /\ Confined(c, a)
  BY <1>1, <1>2, LessPending
<1> HIDE DEF a
<1>5. Good(c, rekeyed) /\ (rekeyed.mint = 0 => rekeyed.out = {})
  BY <1>4, RekeyIfBehindGood
<1> HIDE DEF rekeyed
<1>6. Good(c, after) /\ (after.mint = 0 => after.out = {})
  <2>1. Good(c, Outcome(st, {}, 0)) /\ Outcome(st, {}, 0).out = {}
    <3>1. Good(c, Outcome(st, {}, 0))
      BY NothingGood
    <3> QED
      BY <3>1 DEF Outcome
  <2> QED
    BY <1>5, <2>1
<1> HIDE DEF after
<1>7. CASE after.mint = 0
  <2>1. Formed(c, after.st) /\ Held(c, after.st, Len(minted)) /\ Confined(c, after.st)
    BY <1>6, <1>7 DEF Good, Minted
  <2>2. Good(c, reseal) /\ reseal.mint = 0
    BY <2>1, ResealGood
  <2> HIDE DEF reseal, o
  <2>3. o.st = reseal.st /\ o.out = reseal.out /\ o.mint = reseal.mint
    BY <1>3, <1>6, <1>7, <2>2 DEF Outcome
  <2> QED
    BY <2>2, <2>3 DEF Good, o
<1>8. CASE after.mint # 0
  <2>1. reseal = Outcome(after.st, {}, 0)
    BY <1>8 DEF reseal_to_lagging_member, should_reseal_to_lagging_member
  <2> HIDE DEF reseal, o
  <2>2. o.st = after.st /\ o.out = after.out /\ o.mint = after.mint
    BY <1>3, <2>1 DEF Outcome
  <2> QED
    BY <1>6, <2>2 DEF Good, o
<1> QED
  BY <1>7, <1>8

\* A key is taken from the elected keyer only, who is below the receiver and
\* hands on keys of clients not above itself.
LEMMA GroupKeyGood ==
  ASSUME Minted, NEW c \in Client, NEW st, Formed(c, st), Held(c, st, Len(minted)),
         Confined(c, st), NEW m, m.from \in Client, m.to = c, m.type = "SfuGroupKey",
         Sends(m.from, m, Client, Len(minted))
  PROVE  Good(c, OnGroupKey(c, st, m))
<1>1. CASE accept_group_key_from(c, st, m.from, m.epoch)
  <2> DEFINE h   == install(st.group, m.epoch, m.key)
             a   == Rekeyed(st, h, st.pending)
             ack == [type |-> "SfuGroupKeyAck", from |-> c, to |-> m.from,
                     epoch |-> m.epoch, key |-> m.key]
  <2>1. /\ st \in ClientState /\ st.group \in GroupState
        /\ st.pending \in HashMap(Client, PendingGroupKeyAck)
    BY DEF Formed, ClientState
  <2>2. /\ m.from < c
        /\ m.from \in Client \ {c} /\ m.epoch \in Epoch /\ m.key \in Number
        /\ m.key \in 1 .. Len(minted) /\ minted[m.key].by <= m.from
    <3>1. m.from <= c /\ m.from # c
      BY <1>1 DEF accept_group_key_from, is_elected_keyer, Sends
    <3>2. m.from \in Int /\ c \in Int
      BY RankType, Zenon
    <3>3. m.key \in 1 .. Len(minted) /\ minted[m.key].by <= m.from
      <4>1. Owned(m.from, m.key, Len(minted)) /\ Len(minted) \in Nat
        BY DEF Sends, Minted
      <4> QED
        BY <4>1 DEF Owned
    <3> QED
      BY <3>1, <3>2, <3>3 DEF Sends, Number, Minted
  <2>3. minted[m.key].by \in Int /\ minted[m.key].by < c
    <3>1. minted[m.key] \in Minting
      BY <2>2, MintedType
    <3>2. minted[m.key].by \in Client
      BY <3>1 DEF Minting
    <3>3. minted[m.key].by \in Int /\ m.from \in Int /\ c \in Int
      BY <3>2, RankType, Zenon
    <3> QED
      BY <2>2, <3>3
  <2>4. Owned(c, m.key, Len(minted))
    BY <2>2, <2>3, RoomAssumption DEF Owned
  <2>5. /\ h \in GroupState
        /\ has_keys(h)
        /\ \A x \in DOMAIN h.keys :
             h.keys[x] = m.key \/ (x \in DOMAIN st.group.keys /\ h.keys[x] = st.group.keys[x])
        /\ current_key(h) \subseteq {m.key}
    BY <2>1, <2>2, InstallFacts
  <2>6. OnGroupKey(c, st, m) = Outcome(a, {ack}, 0)
    <3>1. a = [st EXCEPT !.group = install(@, m.epoch, m.key)]
      BY <2>1 DEF Rekeyed, ClientState
    <3> QED
      BY <1>1, <3>1 DEF OnGroupKey
  <2> HIDE DEF h
  <2>7. /\ a \in ClientState /\ a.group = h /\ a.pending = st.pending
        /\ union_members(a) = union_members(st)
    BY <2>1, <2>5, RekeyedFacts
  <2> HIDE DEF a
  <2>8. Formed(c, a)
    BY <2>5, <2>7 DEF Formed
  <2>9. Held(c, a, Len(minted))
    BY <2>4, <2>5, <2>7 DEF Held
  <2>10. Confined(c, a)
    <3>1. minted[m.key].by # c
      BY <2>3
    <3> QED
      BY <2>5, <2>7, <3>1 DEF Confined
  <2>11. Sends(c, ack, union_members(a), Len(minted))
    BY <2>2 DEF Sends
  <2> HIDE DEF ack
  <2>12. Good(c, Outcome(a, {ack}, 0))
    BY <2>8, <2>9, <2>10, <2>11 DEF Good, Outcome, Minted
  <2> QED
    BY <2>6, <2>12
<1>2. CASE ~accept_group_key_from(c, st, m.from, m.epoch)
  <2>1. Good(c, Outcome(st, {}, 0))
    BY NothingGood
  <2> QED
    BY <1>2, <2>1 DEF OnGroupKey
<1> QED
  BY <1>1, <1>2

\* An acknowledgement.
LEMMA AckGood ==
  ASSUME Minted, NEW c \in Client, NEW st, Formed(c, st), Held(c, st, Len(minted)),
         Confined(c, st), NEW m
  PROVE  Good(c, OnGroupKeyAck(c, st, m))
<1> DEFINE p == Without(st.pending, {m.from})
           a == Rekeyed(st, st.group, p)
<1>1. /\ st \in ClientState /\ st.group \in GroupState
      /\ st.pending \in HashMap(Client, PendingGroupKeyAck)
  BY DEF Formed, ClientState
<1>2. p \in HashMap(Client, PendingGroupKeyAck) /\ DOMAIN p \subseteq DOMAIN st.pending
  <2>1. p \in HashMap(Client, PendingGroupKeyAck)
    BY <1>1, WithoutFacts
  <2> QED
    BY <2>1 DEF Without
<1>3. a = [st EXCEPT !.pending = Without(@, {m.from})]
  BY <1>1 DEF Rekeyed, ClientState
<1> HIDE DEF p
<1>4. Formed(c, a) /\ Held(c, a, Len(minted)) /\ Confined(c, a)
  BY <1>1, <1>2, LessPending
<1> HIDE DEF a
<1>5. Good(c, Outcome(a, {}, 0)) /\ Good(c, Outcome(st, {}, 0))
  BY <1>4, NothingGood
<1> QED
  BY <1>3, <1>5 DEF OnGroupKeyAck

\* retry_pending_group_keys: only to members in view, with attempts left.
LEMMA RetryGood ==
  ASSUME Minted, NEW c \in Client, NEW st, Formed(c, st), Held(c, st, Len(minted)),
         Confined(c, st), NEW due
  PROVE  Good(c, retry_pending_group_keys(c, st, due))
<1> DEFINE live    == DOMAIN st.pending \ Hopeless(c, st)
           keyless == {m \in due \cap live : epoch_key(st.group, st.pending[m].epoch) = {}}
           resend  == (due \cap live) \ keyless
           p       == [m \in live \ keyless |->
                         [st.pending[m] EXCEPT !.attempts = IF m \in resend THEN @ + 1 ELSE @]]
           a       == Rekeyed(st, st.group, p)
           out     == {Sealed(c, m, st.pending[m].epoch,
                              st.group.keys[st.pending[m].epoch]) : m \in resend}
<1>1. /\ st \in ClientState /\ st.group \in GroupState
      /\ st.pending \in HashMap(Client, PendingGroupKeyAck)
  BY DEF Formed, ClientState
<1>2. /\ DOMAIN st.pending \subseteq Client
      /\ \A m \in DOMAIN st.pending : st.pending[m] \in PendingGroupKeyAck
  BY <1>1, MapFacts
<1>3. retry_pending_group_keys(c, st, due) = Outcome(a, out, 0)
  <2>1. a = [st EXCEPT !.pending = p]
    BY <1>1 DEF Rekeyed, ClientState
  <2> QED
    BY <2>1 DEF retry_pending_group_keys
<1>4. \A m \in live :
        /\ m \in union_members(st)
        /\ ~(st.pending[m].attempts >= GROUP_KEY_MAX_ATTEMPTS)
  BY DEF Hopeless
<1>5. \A m \in resend : st.pending[m].epoch \in DOMAIN st.group.keys
  BY DEF epoch_key
<1>6. live \subseteq DOMAIN st.pending /\ resend \subseteq live
  OBVIOUS
<1>7. p \in HashMap(Client, PendingGroupKeyAck) /\ DOMAIN p \subseteq DOMAIN st.pending
  <2>1. ASSUME NEW m \in live
        PROVE  /\ st.pending[m] \in PendingGroupKeyAck
               /\ [st.pending[m] EXCEPT !.attempts = @ + 1] \in PendingGroupKeyAck
               /\ [st.pending[m] EXCEPT !.attempts = @] \in PendingGroupKeyAck
    <3>1. st.pending[m] \in PendingGroupKeyAck
      BY <1>2, <1>6
    <3>2. ~(st.pending[m].attempts >= GROUP_KEY_MAX_ATTEMPTS)
      BY <1>4
    <3> HIDE DEF live
    <3> QED
      BY <3>1, <3>2, EpochAssumption DEF PendingGroupKeyAck
  <2>2. p \in [live \ keyless -> PendingGroupKeyAck]
    <3> HIDE DEF live, keyless, resend
    <3> QED
      BY <2>1
  <2>3. live \ keyless \in SUBSET Client
    BY <1>2, <1>6
  <2> HIDE DEF live, keyless, resend, p
  <2>4. p \in HashMap(Client, PendingGroupKeyAck)
    BY <2>2, <2>3, MapIntro
  <2> QED
    BY <1>6, <2>2, <2>4
<1> HIDE DEF p
<1>8. /\ Formed(c, a) /\ Held(c, a, Len(minted)) /\ Confined(c, a)
      /\ union_members(a) = union_members(st)
  BY <1>1, <1>7, LessPending
<1> HIDE DEF a
<1>9. ASSUME NEW x \in out
      PROVE  Sends(c, x, union_members(a), Len(minted))
  <2>1. PICK m \in resend : x = Sealed(c, m, st.pending[m].epoch,
                                       st.group.keys[st.pending[m].epoch])
    OBVIOUS
  <2>2. m \in union_members(st) /\ m \in DOMAIN st.pending /\ m \in Client \ {c}
    <3>1. m \in union_members(st) /\ m \in DOMAIN st.pending
      BY <1>4, <1>6
    <3> QED
      BY <1>2, <3>1 DEF Formed
  <2>3. st.pending[m].epoch \in Epoch
    BY <1>2, <2>2 DEF PendingGroupKeyAck
  <2>4. Owned(c, st.group.keys[st.pending[m].epoch], Len(minted))
    BY <1>5 DEF Held
  <2> HIDE DEF live, keyless, resend, out
  <2> QED
    BY <1>8, <2>1, <2>2, <2>3, <2>4 DEF Sealed, Sends, Owned
<1> HIDE DEF out
<1>10. Good(c, Outcome(a, out, 0))
  BY <1>8, <1>9 DEF Good, Outcome, Minted
<1> QED
  BY <1>3, <1>10

-----------------------------------------------------------------------------
(* Taking an outcome.                                                      *)

\* To whom the outcome o of client c seals key k, if it is c's own.
SealedTo(c, o, k, by) ==
  {m.to : m \in {x \in o.out : x.type = "SfuGroupKey" /\ x.key = k /\ by = c}}

\* The records of the keys afterwards.
LEMMA TakeMinted ==
  ASSUME Minted, NEW c \in Client, NEW o, Good(c, o), NEW consumed, Take(c, o, consumed)
  PROVE  /\ minted' \in Seq(Minting)
         /\ Len(minted') = Len(minted) + o.mint /\ Len(minted') <= MaxMinted
         /\ \A k \in 1 .. Len(minted) :
              /\ minted'[k].by = minted[k].by
              /\ minted'[k].to = minted[k].to \cup SealedTo(c, o, k, minted[k].by)
         /\ o.mint # 0 =>
              /\ minted'[Len(minted) + 1].by = c
              /\ minted'[Len(minted) + 1].to = SealedTo(c, o, Len(minted) + 1, c)
<1> DEFINE all == IF o.mint = 0 THEN minted ELSE Append(minted, [by |-> c, to |-> {}])
           n   == Len(minted) + o.mint
<1>1. minted \in Seq(Minting) /\ Len(minted) \in Nat /\ o.mint \in {0, 1}
  BY DEF Minted, Good
<1>2. [by |-> c, to |-> {}] \in Minting
  BY DEF Minting
<1>3. /\ all \in Seq(Minting) /\ DOMAIN all = 1 .. n /\ Len(all) = n
      /\ \A k \in 1 .. Len(minted) : all[k] = minted[k]
      /\ o.mint # 0 => all[Len(minted) + 1] = [by |-> c, to |-> {}]
  BY <1>1, <1>2
<1>4. minted' = [k \in DOMAIN all |->
                   [all[k] EXCEPT !.to = @ \cup SealedTo(c, o, k, all[k].by)]]
  BY DEF Take, SealedTo
<1>5. \A k, by : SealedTo(c, o, k, by) \in SUBSET Client
  BY DEF SealedTo, Good, Sends
<1> HIDE DEF all
<1>6. \A k \in 1 .. n : all[k] \in Minting
  BY <1>1, <1>3
<1>7. ASSUME NEW k \in 1 .. n
      PROVE  /\ minted'[k] \in Minting
             /\ minted'[k].by = all[k].by
             /\ minted'[k].to = all[k].to \cup SealedTo(c, o, k, all[k].by)
  <2>1. minted'[k] = [all[k] EXCEPT !.to = @ \cup SealedTo(c, o, k, all[k].by)]
    BY <1>3, <1>4
  <2>2. all[k] \in Minting /\ SealedTo(c, o, k, all[k].by) \in SUBSET Client
    BY <1>5, <1>6
  <2> QED
    BY <2>1, <2>2 DEF Minting
<1>8. minted' \in [1 .. n -> Minting] /\ n \in Nat
  <2>1. DOMAIN minted' = 1 .. n /\ minted' = [k \in 1 .. n |-> minted'[k]]
    BY <1>3, <1>4
  <2> QED
    BY <1>1, <1>7, <2>1
<1>9. minted' \in Seq(Minting) /\ Len(minted') = n
  BY <1>8
<1>10. n <= MaxMinted
  BY DEF Take
<1>11. \A k \in 1 .. Len(minted) : k \in 1 .. n
  BY <1>1
<1>12. o.mint # 0 => Len(minted) + 1 \in 1 .. n
  BY <1>1
<1>13. ASSUME NEW k \in 1 .. Len(minted)
       PROVE  /\ minted'[k].by = minted[k].by
              /\ minted'[k].to = minted[k].to \cup SealedTo(c, o, k, minted[k].by)
  BY <1>3, <1>7, <1>11
<1>14. ASSUME o.mint # 0
       PROVE  /\ minted'[Len(minted) + 1].by = c
              /\ minted'[Len(minted) + 1].to = SealedTo(c, o, Len(minted) + 1, c)
  <2> DEFINE l == Len(minted) + 1
  <2>1. l \in 1 .. n /\ all[l].by = c /\ all[l].to = {}
    BY <1>3, <1>12, <1>14
  <2> HIDE DEF l, n
  <2>2. minted'[l].by = all[l].by /\ minted'[l].to = all[l].to \cup SealedTo(c, o, l, all[l].by)
    BY <1>7, <2>1
  <2>3. minted'[l].by = c /\ minted'[l].to = SealedTo(c, o, l, c)
    BY <2>1, <2>2
  <2> QED
    BY <2>3 DEF l
<1> QED
  BY <1>9, <1>10, <1>13, <1>14

\* Whoever handles a message well leaves the invariant's keys, clients and
\* messages as they must be.
LEMMA TakeGood ==
  ASSUME KeysInv, NEW c \in Client, NEW o, Good(c, o), NEW consumed, Take(c, o, consumed)
  PROVE  Minted' /\ Clients' /\ InFlight'
<1> DEFINE n == Len(minted) + o.mint
<1>1. Minted /\ Clients /\ InFlight
  BY DEF KeysInv
<1>2. /\ minted' \in Seq(Minting) /\ Len(minted') = n /\ n <= MaxMinted
      /\ \A k \in 1 .. Len(minted) :
           /\ minted'[k].by = minted[k].by
           /\ minted'[k].to = minted[k].to \cup SealedTo(c, o, k, minted[k].by)
      /\ o.mint # 0 =>
           /\ minted'[Len(minted) + 1].by = c
           /\ minted'[Len(minted) + 1].to = SealedTo(c, o, Len(minted) + 1, c)
  BY <1>1, TakeMinted
<1>3. /\ Len(minted) \in Nat /\ n \in Nat /\ Len(minted) <= n
      /\ n = Len(minted) \/ (o.mint # 0 /\ n = Len(minted) + 1)
  BY <1>1 DEF Minted, Good
<1>4. \A k, by : SealedTo(c, o, k, by) \subseteq union_members(o.st)
  BY DEF SealedTo, Good, Sends
<1>5. \A k, by : by # c => SealedTo(c, o, k, by) = {}
  BY DEF SealedTo
<1>6. ASSUME NEW d \in Client, NEW k, Owned(d, k, Len(minted))
      PROVE  k \in 1 .. Len(minted') /\ minted'[k].by <= d
  BY <1>2, <1>3, <1>6 DEF Owned
<1>7. ASSUME NEW k, Owned(c, k, n)
      PROVE  k \in 1 .. Len(minted') /\ minted'[k].by <= c
  <2>1. CASE k \in 1 .. Len(minted)
    BY <1>2, <1>3, <1>7, <2>1 DEF Owned
  <2>2. CASE ~(k \in 1 .. Len(minted))
    <3>1. k = Len(minted) + 1 /\ o.mint # 0
      BY <1>3, <1>7, <2>2 DEF Owned
    <3>2. k \in 1 .. Len(minted')
      BY <1>2, <1>7 DEF Owned
    <3>3. minted'[k].by = c
      BY <1>2, <3>1
    <3>4. c <= c
      <4>1. c \in Int
        BY RankType
      <4> QED
        BY <4>1
    <3> QED
      BY <3>2, <3>3, <3>4
  <2> QED
    BY <2>1, <2>2
<1>8. Minted'
  BY <1>2 DEF Minted
<1>9. client' = [client EXCEPT ![c] = o.st] /\ net' \subseteq net \cup o.out
  BY DEF Take
<1>10. client' \in [Client -> ClientState]
  BY <1>1, <1>9 DEF Clients, Good, Formed
<1>11. ASSUME NEW d \in Client
       PROVE  (/\ Formed(d, client[d]) /\ Held(d, client[d], Len(minted))
               /\ Confined(d, client[d]))'
  <2>1. CASE d = c
    <3>1. client'[d] = o.st
      BY <1>1, <1>9, <2>1 DEF Clients
    <3>2. Formed(c, o.st) /\ Held(c, o.st, n) /\ Confined(c, o.st)
      BY DEF Good
    <3>3. ASSUME NEW e \in DOMAIN o.st.group.keys
          PROVE  LET k == o.st.group.keys[e] IN
                 k \in 1 .. Len(minted') /\ minted'[k].by <= c
      BY <1>7, <3>2 DEF Held
    <3>4. ASSUME NEW k \in current_key(o.st.group), k <= Len(minted'),
                 minted'[k].by = c, Elected(c, o.st)
          PROVE  minted'[k].to \subseteq union_members(o.st)
      <4>1. k \in 1 .. n
        BY <3>2, <3>4 DEF Held, Owned, current_key, epoch_key
      <4>2. CASE k \in 1 .. Len(minted)
        <5>1. minted[k].by = c /\ k <= Len(minted)
          BY <1>2, <1>3, <3>4, <4>2
        <5>2. minted[k].to \subseteq union_members(o.st)
          BY <3>2, <3>4, <5>1 DEF Confined
        <5> QED
          BY <1>2, <1>4, <4>2, <5>2
      <4>3. CASE ~(k \in 1 .. Len(minted))
        <5>1. k = Len(minted) + 1 /\ o.mint # 0
          BY <1>3, <4>1, <4>3
        <5> QED
          BY <1>2, <1>4, <5>1
      <4> QED
        BY <4>2, <4>3
    <3> QED
      BY <2>1, <3>1, <3>2, <3>3, <3>4 DEF Held, Owned, Confined
  <2>2. CASE d # c
    <3>1. client'[d] = client[d]
      BY <1>1, <1>9, <2>2 DEF Clients
    <3>2. /\ Formed(d, client[d]) /\ Held(d, client[d], Len(minted))
          /\ Confined(d, client[d])
      BY <1>1 DEF Clients
    <3>3. ASSUME NEW e \in DOMAIN client[d].group.keys
          PROVE  LET k == client[d].group.keys[e] IN
                 k \in 1 .. Len(minted') /\ minted'[k].by <= d
      BY <1>6, <3>2 DEF Held
    <3>4. ASSUME NEW k \in current_key(client[d].group), k <= Len(minted'),
                 minted'[k].by = d, Elected(d, client[d])
          PROVE  minted'[k].to \subseteq union_members(client[d])
      <4>1. k \in 1 .. Len(minted)
        BY <3>2, <3>4 DEF Held, Owned, current_key, epoch_key
      <4>2. minted[k].by = d /\ k <= Len(minted)
        BY <1>2, <1>3, <3>4, <4>1
      <4>3. minted[k].to \subseteq union_members(client[d])
        BY <3>2, <3>4, <4>2 DEF Confined
      <4>4. minted'[k].to = minted[k].to
        BY <1>2, <1>5, <2>2, <4>1, <4>2
      <4> QED
        BY <4>3, <4>4
    <3> QED
      BY <3>1, <3>2, <3>3, <3>4 DEF Held, Owned, Confined
  <2> QED
    BY <2>1, <2>2
<1>12. Clients'
  BY <1>10, <1>11 DEF Clients
<1>13. ASSUME NEW m \in net'
       PROVE  m.from \in Client /\ Sends(m.from, m, Client, Len(minted))'
  <2>1. CASE m \in net
    <3>1. m.from \in Client /\ Sends(m.from, m, Client, Len(minted))
      BY <1>1, <2>1 DEF InFlight
    <3>2. m.key \in 1 .. Len(minted')
      BY <1>2, <1>3, <3>1 DEF Sends
    <3>3. m.type = "SfuGroupKey" => minted'[m.key].by <= m.from
      BY <1>6, <3>1 DEF Sends
    <3> QED
      BY <3>1, <3>2, <3>3 DEF Sends, Owned
  <2>2. CASE m \in o.out
    <3>1. Sends(c, m, union_members(o.st), n)
      BY <2>2 DEF Good
    <3>2. m.key \in 1 .. Len(minted') /\ m.from = c
      BY <1>2, <3>1 DEF Sends
    <3>3. m.type = "SfuGroupKey" => minted'[m.key].by <= c
      BY <1>7, <3>1 DEF Sends
    <3> QED
      BY <3>1, <3>2, <3>3 DEF Sends, Owned
  <2> QED
    BY <1>9, <2>1, <2>2
<1> QED
  BY <1>8, <1>12, <1>13 DEF InFlight

-----------------------------------------------------------------------------
(* The invariant.                                                          *)

\* A client with nothing of the room is in order.
LEMMA IdleFormed ==
  ASSUME NEW c \in Client
  PROVE  Formed(c, Idle) /\ DOMAIN Idle.group.keys = {} /\ current_key(Idle.group) = {}
<1>1. /\ EmptyMap \in HashMap(Client, PendingGroupKeyAck)
      /\ EmptyMap \in HashMap(Epoch, Number)
      /\ DOMAIN EmptyMap = {}
  BY EmptyMapFacts
<1>2. NoGroup \in GroupState /\ NoGroup.keys = EmptyMap
  BY <1>1, EpochAssumption DEF NoGroup, GroupState, Epoch
<1>3. /\ Idle \in ClientState /\ Idle.group = NoGroup /\ Idle.pending = EmptyMap
      /\ union_members(Idle) = {}
  BY <1>1, <1>2 DEF Idle, ClientState, union_members
<1>4. current_key(NoGroup) = {}
  BY <1>1, <1>2 DEF current_key, epoch_key
<1> QED
  BY <1>1, <1>2, <1>3, <1>4 DEF Formed

\* The least of some clients.
LEMMA LeastFacts ==
  ASSUME NEW S \in SUBSET Client, S # {}
  PROVE  Least(S) \in S /\ \A d \in S : Least(S) <= d
<1>1. S \in SUBSET Nat
  BY RoomAssumption
<1>2. \E x \in S : \A y \in S : x <= y
  BY <1>1, LeastNat
<1> QED
  BY <1>2 DEF Least

\* A room whose first keyer has left satisfies the invariant, an empty one too.
LEMMA InitKeysInv == Init => KeysInv
<1> SUFFICES ASSUME Init
             PROVE  KeysInv
  OBVIOUS
<1>1. Environment
  BY RoomAssumption, BoundAssumption DEF Init, Environment, Free, Handler
<1>2. InFlight
  BY DEF Init, InFlight
<1>3. Minted
  <2>1. CASE Founders = {}
    BY <2>1, BoundAssumption DEF Init, Minted
  <2>2. CASE Founders # {}
    <3>1. Founders \in SUBSET Client /\ Client \in SUBSET Client /\ Client # {}
      BY <2>2, RoomAssumption
    <3>2. Least(Client) \in Client /\ Least(Founders) \in Client
      BY <2>2, <3>1, LeastFacts
    <3>3. /\ [by |-> Least(Client), to |-> Client \ {Least(Client)}] \in Minting
          /\ [by |-> Least(Founders), to |-> Founders \ {Least(Founders)}] \in Minting
      BY <3>1, <3>2 DEF Minting
    <3>4. minted \in Seq(Minting) /\ Len(minted) = 2
      BY <2>2, <3>3 DEF Init
    <3> QED
      BY <3>4, BoundAssumption DEF Minted
  <2> QED
    BY <2>1, <2>2
<1>4. ASSUME NEW c \in Client
      PROVE  Formed(c, client[c]) /\ Held(c, client[c], Len(minted)) /\ Confined(c, client[c])
  <2>1. CASE c \notin Founders
    <3>1. client[c] = Idle
      BY <2>1 DEF Init
    <3> QED
      BY <3>1, IdleFormed DEF Held, Confined
  <2>2. CASE c \in Founders
    <3> DEFINE g1 == install(NoGroup, 0, 1)
               g2 == install(g1, 1, 2)
               st == client[c]
    <3>1. Founders \in SUBSET Client /\ Client \in SUBSET Client /\ Client # {}
      BY <2>2, RoomAssumption
    <3>2. /\ Least(Client) <= c /\ Least(Founders) <= c
      BY <2>2, <3>1, LeastFacts
    <3>3. /\ EmptyMap \in HashMap(Client, PendingGroupKeyAck)
          /\ EmptyMap \in HashMap(Epoch, Number)
          /\ DOMAIN EmptyMap = {}
      BY EmptyMapFacts
    <3>4. /\ NoGroup \in GroupState /\ NoGroup.keys = EmptyMap
          /\ 0 \in Epoch /\ 1 \in Epoch /\ 1 \in Number /\ 2 \in Number
      BY <3>3, EpochAssumption DEF NoGroup, GroupState, Epoch, Number
    <3>5. /\ g1 \in GroupState
          /\ \A x \in DOMAIN g1.keys :
               g1.keys[x] = 1 \/ (x \in DOMAIN NoGroup.keys /\ g1.keys[x] = NoGroup.keys[x])
      BY <3>4, InstallFacts
    <3>6. \A x \in DOMAIN g1.keys : g1.keys[x] = 1
      BY <3>3, <3>4, <3>5
    <3> HIDE DEF g1
    <3>7. /\ g2 \in GroupState
          /\ \A x \in DOMAIN g2.keys :
               g2.keys[x] = 2 \/ (x \in DOMAIN g1.keys /\ g2.keys[x] = g1.keys[x])
          /\ current_key(g2) \subseteq {2}
      BY <3>4, <3>5, InstallFacts
    <3>8. st = [members |-> [s \in Server |-> Founders \ {c}], group |-> g2,
                pending |-> EmptyMap]
      BY <2>2 DEF Init, g1
    <3> HIDE DEF g2
    <3>9. /\ st \in ClientState /\ st.group = g2 /\ st.pending = EmptyMap
          /\ st.members = [s \in Server |-> Founders \ {c}]
      BY <3>1, <3>3, <3>7, <3>8 DEF ClientState
    <3>10. union_members(st) = Founders \ {c}
      BY <3>9, RoomAssumption DEF union_members
    <3>11. Formed(c, st)
      BY <3>3, <3>9, <3>10 DEF Formed
    <3>12. /\ Len(minted) = 2 /\ minted[1].by = Least(Client)
           /\ minted[2].by = Least(Founders) /\ minted[2].to = Founders \ {Least(Founders)}
      BY <2>2 DEF Init
    <3> HIDE DEF st
    <3>13. Held(c, st, Len(minted))
      <4>1. \A x \in DOMAIN st.group.keys : st.group.keys[x] \in {1, 2}
        BY <3>6, <3>7, <3>9
      <4>2. Owned(c, 1, Len(minted)) /\ Owned(c, 2, Len(minted))
        BY <3>2, <3>12 DEF Owned
      <4> QED
        BY <4>1, <4>2 DEF Held
    <3>14. Confined(c, st)
      BY <3>7, <3>9, <3>10, <3>12 DEF Confined
    <3> QED
      BY <3>11, <3>13, <3>14 DEF st
  <2> QED
    BY <2>1, <2>2
<1>5. client \in [Client -> ClientState]
  <2>1. client = [c \in Client |-> client[c]]
    BY DEF Init
  <2> QED
    BY <1>4, <2>1 DEF Formed
<1> QED
  BY <1>1, <1>2, <1>3, <1>4, <1>5 DEF KeysInv, Clients

\* Notices on their way.
LEMMA PostType ==
  ASSUME Environment, NEW s, NEW mail, \A d \in DOMAIN mail : mail[d] \in Notice
  PROVE  Post(s, mail) \in [Client -> [Server -> Seq(Notice)]]
<1>1. ASSUME NEW d \in Client, NEW t \in Server
      PROVE  (IF t = s /\ d \in DOMAIN mail THEN Append(inbox[d][t], mail[d])
              ELSE inbox[d][t]) \in Seq(Notice)
  <2>1. inbox[d][t] \in Seq(Notice)
    BY DEF Environment
  <2> QED
    BY <2>1
<1> QED
  BY <1>1 DEF Post

\* A task that has something to announce, and one that has nothing to do.
LEMMA HandlerType ==
  /\ Free \in Handler
  /\ \A b \in BOOLEAN : [Free EXCEPT !.due = TRUE, !.subscribe = b] \in Handler
  /\ [Free EXCEPT !.due = TRUE] \in Handler
  /\ \A of, late \in SUBSET Client, b \in BOOLEAN : Owing(of, late, b) \in Handler
BY DEF Free, Handler, Owing

\* One task of one server changes.
LEMMA TaskType ==
  ASSUME Environment, NEW c \in Client, NEW s \in Server, NEW h \in Handler,
         handler' = [handler EXCEPT ![s][c] = h]
  PROVE  handler' \in [Server -> [Client -> Handler]]
BY DEF Environment

LEMMA DepartType ==
  ASSUME Environment, NEW c \in Client, NEW s \in Server, NEW b \in BOOLEAN, Depart(c, s, b)
  PROVE  /\ present' \in [Server -> SUBSET Client] /\ voice' \in [Server -> SUBSET Client]
         /\ \A t \in Server : voice'[t] \subseteq present'[t]
         /\ handler' \in [Server -> [Client -> Handler]]
<1>1. [Free EXCEPT !.due = TRUE, !.subscribe = b] \in Handler
  BY HandlerType
<1>2. /\ present' \in [Server -> SUBSET Client] /\ voice' \in [Server -> SUBSET Client]
      /\ \A t \in Server : voice'[t] \subseteq present'[t]
  BY DEF Depart, Environment
<1>3. handler' = [handler EXCEPT ![s][c] = [Free EXCEPT !.due = TRUE, !.subscribe = b]]
  BY DEF Depart
<1> QED
  BY <1>1, <1>2, <1>3, TaskType

LEMMA LeftType ==
  ASSUME Environment, NEW c \in Client, NEW s \in Server
  PROVE  Post(s, [d \in voice[s] \ {c} |-> Left(c)]) \in [Client -> [Server -> Seq(Notice)]]
<1>1. Left(c) \in Notice
  BY DEF Left, Notice
<1> QED
  BY <1>1, PostType

\* The supernodes' steps and the losses of links leave the environment typed.
LEMMA JoinType ==
  ASSUME Environment, NEW c \in Client, NEW s \in Server, Join(c, s)
  PROVE  Environment'
<1> DEFINE mail == [d \in voice[s] \cup {c} |->
                      IF d = c THEN Roster(s)' ELSE [type |-> "SfuPeerJoined", of |-> {c}]]
<1>1. /\ present' \in [Server -> SUBSET Client] /\ voice' \in [Server -> SUBSET Client]
      /\ linked' \in [Server -> SUBSET Client]
      /\ \A t \in Server : voice'[t] \subseteq present'[t]
  BY DEF Environment, Join
<1>2. handler' \in [Server -> [Client -> Handler]]
  BY HandlerType, TaskType DEF Join, Announcing
<1>3. \A d \in DOMAIN mail : mail[d] \in Notice
  BY <1>1 DEF Roster, Notice
<1>4. inbox' = Post(s, mail)
  BY DEF Join
<1> HIDE DEF mail
<1>5. inbox' \in [Client -> [Server -> Seq(Notice)]]
  BY <1>3, <1>4, PostType
<1>6. churn' \in 0 .. MaxChurn /\ lost' \in 0 .. MaxLost
  BY BoundAssumption DEF Environment, Join
<1> QED
  BY <1>1, <1>2, <1>5, <1>6 DEF Environment

LEMMA SubscribeType ==
  ASSUME Environment, NEW c \in Client, NEW s \in Server, Subscribe(c, s) \/ Resubscribe(c, s)
  PROVE  Environment'
<1>1. /\ present' \in [Server -> SUBSET Client] /\ voice' \in [Server -> SUBSET Client]
      /\ linked' \in [Server -> SUBSET Client]
      /\ \A t \in Server : voice'[t] \subseteq present'[t]
  <2>1. CASE Subscribe(c, s)
    BY <2>1 DEF Environment, Subscribe
  <2>2. CASE Resubscribe(c, s)
    BY <2>2 DEF Environment, Resubscribe
  <2> QED
    BY <2>1, <2>2
<1>2. handler' \in [Server -> [Client -> Handler]]
  <2>1. handler' = Announcing(s, c)
    BY DEF Subscribe, Resubscribe
  <2> QED
    BY <2>1, HandlerType, TaskType DEF Announcing
<1>3. /\ inbox' \in [Client -> [Server -> Seq(Notice)]]
      /\ churn' \in 0 .. MaxChurn /\ lost' \in 0 .. MaxLost
  BY BoundAssumption DEF Environment, Subscribe, Resubscribe
<1> QED
  BY <1>1, <1>2, <1>3 DEF Environment

LEMMA LeaveType ==
  ASSUME Environment, NEW c \in Client, NEW s \in Server,
         \/ \E keep_chat \in BOOLEAN : LeaveRoom(c, s, keep_chat)
         \/ UnsubscribeRoomChat(c, s)
         \/ LoseLink(c, s)
  PROVE  Environment'
<1>1. PICK b \in BOOLEAN : Depart(c, s, b)
  BY DEF LeaveRoom, UnsubscribeRoomChat, LoseLink
<1>2. /\ present' \in [Server -> SUBSET Client] /\ voice' \in [Server -> SUBSET Client]
      /\ \A t \in Server : voice'[t] \subseteq present'[t]
      /\ handler' \in [Server -> [Client -> Handler]]
  BY <1>1, DepartType
<1>3. /\ linked' \in [Server -> SUBSET Client]
      /\ churn' \in 0 .. MaxChurn /\ lost' \in 0 .. MaxLost
  <2>1. churn < MaxChurn /\ churn' = churn + 1 /\ lost' = lost
    BY DEF LeaveRoom, UnsubscribeRoomChat, LoseLink
  <2>2. linked' = linked \/ linked' = [linked EXCEPT ![s] = @ \ {c}]
    BY DEF LeaveRoom, UnsubscribeRoomChat, LoseLink
  <2>3. linked' \in [Server -> SUBSET Client]
    BY <2>2 DEF Environment
  <2> QED
    BY <2>1, <2>3, BoundAssumption DEF Environment
<1>4. inbox' \in [Client -> [Server -> Seq(Notice)]]
  <2> DEFINE post == Post(s, [d \in voice[s] \ {c} |-> Left(c)])
  <2>1. post \in [Client -> [Server -> Seq(Notice)]]
    BY LeftType
  <2>2. inbox \in [Client -> [Server -> Seq(Notice)]]
    BY DEF Environment
  <2>3. inbox' = post \/ inbox' = inbox \/ inbox' = [post EXCEPT ![c][s] = <<>>]
    BY DEF LeaveRoom, UnsubscribeRoomChat, LoseLink
  <2> HIDE DEF post
  <2>4. <<>> \in Seq(Notice)
    OBVIOUS
  <2>5. [post EXCEPT ![c][s] = <<>>] \in [Client -> [Server -> Seq(Notice)]]
    BY <2>1, <2>4
  <2> QED
    BY <2>1, <2>2, <2>3, <2>5
<1> QED
  BY <1>2, <1>3, <1>4 DEF Environment

LEMMA BroadcastType ==
  ASSUME Environment, NEW c \in Client, NEW s \in Server,
         \/ \E late \in SUBSET Client : Broadcast(c, s, late)
         \/ \E d \in Client : SendLate(c, s, d)
  PROVE  Environment'
<1>1. CASE \E late \in SUBSET Client : Broadcast(c, s, late)
  <2>1. PICK late \in SUBSET Client : Broadcast(c, s, late)
    BY <1>1
  <2> DEFINE mail == [d \in present[s] \ late |-> Roster(s)]
  <2>2. \A d \in DOMAIN mail : mail[d] \in Notice
    BY DEF Environment, Roster, Notice
  <2>3. inbox' = Post(s, mail)
    BY <2>1 DEF Broadcast
  <2> HIDE DEF mail
  <2>4. inbox' \in [Client -> [Server -> Seq(Notice)]]
    BY <2>2, <2>3, PostType
  <2>5. handler' \in [Server -> [Client -> Handler]]
    <3>1. present[s] \in SUBSET Client /\ handler[s][c].subscribe \in BOOLEAN
      BY DEF Environment, Handler
    <3> QED
      BY <2>1, <3>1, HandlerType, TaskType DEF Broadcast
  <2> QED
    BY <2>1, <2>4, <2>5 DEF Environment, Broadcast
<1>2. CASE \E d \in Client : SendLate(c, s, d)
  <2>1. PICK d \in Client : SendLate(c, s, d)
    BY <1>2
  <2> DEFINE mail == [x \in {d} \cap linked[s] |->
                        [type |-> "SfuMembers", of |-> handler[s][c].of]]
  <2>2. \A x \in DOMAIN mail : mail[x] \in Notice
    BY DEF Environment, Handler, Notice
  <2>3. inbox' = Post(s, mail)
    BY <2>1 DEF SendLate
  <2> HIDE DEF mail
  <2>4. inbox' \in [Client -> [Server -> Seq(Notice)]]
    BY <2>2, <2>3, PostType
  <2>5. handler' \in [Server -> [Client -> Handler]]
    <3>1. /\ handler[s][c].of \in SUBSET Client /\ handler[s][c].subscribe \in BOOLEAN
          /\ handler[s][c].late \ {d} \in SUBSET Client
      BY DEF Environment, Handler
    <3> QED
      BY <2>1, <3>1, HandlerType, TaskType DEF SendLate
  <2> QED
    BY <2>1, <2>4, <2>5 DEF Environment, SendLate
<1> QED
  BY <1>1, <1>2

\* What one client's forgetting leaves of it is in order.
LEMMA ForgettingFormed ==
  ASSUME NEW c \in Client, NEW s \in Server, NEW st \in ClientState, c \notin union_members(st),
         NEW x, x = Forgetting(st, s)
  PROVE  /\ Formed(c, x) /\ x.group = NoGroup /\ DOMAIN x.pending = {}
         /\ DOMAIN x.group.keys = {} /\ current_key(x.group) = {}
<1>1. /\ EmptyMap \in HashMap(Client, PendingGroupKeyAck)
      /\ EmptyMap \in HashMap(Epoch, Number)
      /\ DOMAIN EmptyMap = {}
  BY EmptyMapFacts
<1>2. NoGroup \in GroupState /\ NoGroup.keys = EmptyMap
  BY <1>1, EpochAssumption DEF NoGroup, GroupState, Epoch
<1>3. /\ x \in ClientState /\ x.group = NoGroup /\ x.pending = EmptyMap
      /\ x.members = [st.members EXCEPT ![s] = {}]
  BY <1>1, <1>2 DEF Forgetting, ClientState
<1>4. c \notin union_members(x)
  BY <1>3 DEF union_members, ClientState
<1>5. current_key(NoGroup) = {}
  BY <1>1, <1>2 DEF current_key, epoch_key
<1> QED
  BY <1>1, <1>2, <1>3, <1>4, <1>5 DEF Formed

\* A client that has lost its keys is as good as one that has them.
LEMMA KeylessInv ==
  ASSUME KeysInv, NEW c \in Client, NEW x, Formed(c, x), DOMAIN x.group.keys = {},
         current_key(x.group) = {},
         client' = [client EXCEPT ![c] = x], net' = net, minted' = minted, Environment'
  PROVE  KeysInv'
<1>1. Minted /\ Clients /\ InFlight
  BY DEF KeysInv
<1>2. client' \in [Client -> ClientState]
  BY <1>1 DEF Clients, Formed
<1>3. ASSUME NEW d \in Client
      PROVE  (/\ Formed(d, client[d]) /\ Held(d, client[d], Len(minted))
              /\ Confined(d, client[d]))'
  <2>1. CASE d = c
    <3>1. client'[d] = x
      BY <1>1, <2>1 DEF Clients
    <3> QED
      BY <2>1, <3>1 DEF Held, Confined
  <2>2. CASE d # c
    <3>1. client'[d] = client[d]
      BY <1>1, <2>2 DEF Clients
    <3> QED
      BY <1>1, <3>1 DEF Clients, Held, Owned, Confined
  <2> QED
    BY <2>1, <2>2
<1>4. Clients'
  BY <1>2, <1>3 DEF Clients
<1> QED
  BY <1>1, <1>4 DEF KeysInv, Minted, InFlight, Owned, Sends

\* A roster or a notice is read.
LEMMA SyncInv ==
  ASSUME KeysInv, NEW c \in Client, NEW s \in Server, NEW members \in SUBSET Client,
         inbox[c][s] # <<>>, Sync(c, s, members)
  PROVE  KeysInv'
<1>1. Environment /\ Minted /\ Clients /\ InFlight
  BY DEF KeysInv
<1>2. /\ Formed(c, client[c]) /\ Held(c, client[c], Len(minted)) /\ Confined(c, client[c])
  BY <1>1 DEF Clients
<1>3. Good(c, sync_room_membership(c, client[c], s, members))
  BY <1>1, <1>2, SyncGood
<1>4. Minted' /\ Clients' /\ InFlight'
  BY <1>1, <1>3, TakeGood DEF Sync
<1>5. Tail(inbox[c][s]) \in Seq(Notice)
  BY <1>1 DEF Environment
<1>6. Environment'
  BY <1>1, <1>5 DEF Environment, Sync, room
<1> QED
  BY <1>4, <1>6 DEF KeysInv

\* SfuMembers, SfuPeerJoined and SfuPeerLeft each tell a client of some members.
LEMMA ToldSync ==
  ASSUME KeysInv, NEW c \in Client, NEW s \in Server,
         SfuMembers(c, s) \/ SfuPeerJoined(c, s) \/ SfuPeerLeft(c, s)
  PROVE  \E members \in SUBSET Client : Sync(c, s, members) /\ inbox[c][s] # <<>>
<1>1. inbox[c][s] # <<>>
  BY DEF SfuMembers, SfuPeerJoined, SfuPeerLeft, Reads
<1>2. inbox[c][s] \in Seq(Notice) /\ client[c].members[s] \in SUBSET Client
  BY DEF KeysInv, Environment, Clients, ClientState
<1>3. Head(inbox[c][s]) \in Notice
  BY <1>1, <1>2
<1>4. Head(inbox[c][s]).of \in SUBSET Client
  BY <1>3 DEF Notice
<1> QED
  BY <1>1, <1>2, <1>4 DEF SfuMembers, SfuPeerJoined, SfuPeerLeft

\* Every step preserves the invariant.
LEMMA NextKeysInv == KeysInv /\ [Next]_vars => KeysInv'
<1> SUFFICES ASSUME KeysInv, [Next]_vars
             PROVE  KeysInv'
  OBVIOUS
<1>1. Environment /\ Minted /\ Clients /\ InFlight
  BY DEF KeysInv
<1>2. \A c \in Client : /\ Formed(c, client[c]) /\ Held(c, client[c], Len(minted))
                        /\ Confined(c, client[c])
  BY <1>1 DEF Clients
<1>3. ASSUME Environment', client' = client, net' = net, minted' = minted
      PROVE  KeysInv'
  BY <1>1, <1>3 DEF KeysInv, Minted, Clients, InFlight, Held, Owned, Confined, Sends
<1>4. ASSUME NEW c \in Client, NEW s \in Server,
             \/ Join(c, s) \/ Subscribe(c, s) \/ Resubscribe(c, s)
             \/ \E keep_chat \in BOOLEAN : LeaveRoom(c, s, keep_chat)
             \/ UnsubscribeRoomChat(c, s) \/ LoseLink(c, s)
             \/ \E late \in SUBSET Client : Broadcast(c, s, late)
             \/ \E d \in Client : SendLate(c, s, d)
      PROVE  KeysInv'
  <2>1. Environment'
    BY <1>1, <1>4, JoinType, SubscribeType, LeaveType, BroadcastType
  <2>2. /\ net' = net /\ minted' = minted
        /\ \/ client' = client
           \/ client' = [client EXCEPT ![c] = Forgetting(@, s)]
    BY <1>4 DEF Join, Subscribe, Resubscribe, LeaveRoom, UnsubscribeRoomChat, LoseLink,
       Broadcast, SendLate
  <2>3. CASE client' = client
    BY <1>3, <2>1, <2>2, <2>3
  <2>4. CASE client' = [client EXCEPT ![c] = Forgetting(@, s)]
    <3> DEFINE x == Forgetting(client[c], s)
    <3>1. client[c] \in ClientState /\ c \notin union_members(client[c])
      BY <1>1 DEF Clients, Formed
    <3>2. Formed(c, x) /\ DOMAIN x.group.keys = {} /\ current_key(x.group) = {}
      BY <3>1, ForgettingFormed
    <3>3. client' = [client EXCEPT ![c] = x]
      BY <2>4
    <3> HIDE DEF x
    <3> QED
      BY <2>1, <2>2, <3>2, <3>3, KeylessInv
  <2> QED
    BY <2>2, <2>3, <2>4
<1>5. ASSUME NEW c \in Client, NEW s \in Server,
             SfuMembers(c, s) \/ SfuPeerJoined(c, s) \/ SfuPeerLeft(c, s)
      PROVE  KeysInv'
  BY <1>5, ToldSync, SyncInv
<1>13. ASSUME NEW c \in Client, Exit(c)
       PROVE  KeysInv'
  <2>1. Environment'
    BY <1>1, <1>13 DEF Environment, Exit
  <2>2. client' = [client EXCEPT ![c] = Idle] /\ net' = net /\ minted' = minted
    BY <1>13 DEF Exit
  <2> QED
    BY <2>1, <2>2, IdleFormed, KeylessInv
<1>6. ASSUME NEW c \in Client, NEW d \in Client, NEW aged \in BOOLEAN, SfuContent(c, d, aged)
      PROVE  KeysInv'
  <2>1. Frame(c).epoch \in Epoch
    <3>1. client[c] \in ClientState
      BY <1>1 DEF Clients
    <3> QED
      BY <3>1 DEF Frame, ClientState, GroupState
  <2>2. Good(d, OnFrame(d, client[d], Frame(c), aged))
    BY <1>1, <1>2, <2>1, FrameGood
  <2>3. Minted' /\ Clients' /\ InFlight'
    BY <1>6, <2>2, TakeGood DEF SfuContent
  <2>4. Environment'
    BY <1>1, <1>6 DEF Environment, SfuContent, room
  <2> QED
    BY <2>3, <2>4 DEF KeysInv
<1>7. ASSUME NEW c \in Client, NEW due, RetryTick(c, due)
      PROVE  KeysInv'
  <2>1. Good(c, retry_pending_group_keys(c, client[c], due))
    BY <1>1, <1>2, RetryGood
  <2>2. Minted' /\ Clients' /\ InFlight'
    BY <1>7, <2>1, TakeGood DEF RetryTick
  <2>3. Environment'
    BY <1>1, <1>7 DEF Environment, RetryTick, room
  <2> QED
    BY <2>2, <2>3 DEF KeysInv
<1>8. ASSUME NEW m \in net
      PROVE  /\ m.to \in Client /\ m.from \in Client
             /\ Sends(m.from, m, Client, Len(minted))
  BY <1>1 DEF InFlight, Sends
<1>9. ASSUME NEW m \in net, SfuGroupKey(m.to, m)
      PROVE  KeysInv'
  <2>1. Good(m.to, OnGroupKey(m.to, client[m.to], m))
    BY <1>1, <1>2, <1>8, <1>9, GroupKeyGood DEF SfuGroupKey
  <2>2. Minted' /\ Clients' /\ InFlight'
    BY <1>8, <1>9, <2>1, TakeGood DEF SfuGroupKey
  <2>3. Environment'
    BY <1>1, <1>9 DEF Environment, SfuGroupKey, room
  <2> QED
    BY <2>2, <2>3 DEF KeysInv
<1>10. ASSUME NEW m \in net, SfuGroupKeyAck(m.to, m)
       PROVE  KeysInv'
  <2>1. Good(m.to, OnGroupKeyAck(m.to, client[m.to], m))
    BY <1>1, <1>2, <1>8, AckGood
  <2>2. Minted' /\ Clients' /\ InFlight'
    BY <1>8, <1>10, <2>1, TakeGood DEF SfuGroupKeyAck
  <2>3. Environment'
    BY <1>1, <1>10 DEF Environment, SfuGroupKeyAck, room
  <2> QED
    BY <2>2, <2>3 DEF KeysInv
<1>11. ASSUME NEW m \in net, Lose(m)
       PROVE  KeysInv'
  <2>1. /\ net' \subseteq net /\ lost' \in 0 .. MaxLost
        /\ UNCHANGED <<present, voice, linked, handler, client, inbox, minted, churn>>
    BY <1>1, <1>11, BoundAssumption DEF Environment, Lose, room
  <2> QED
    BY <1>1, <2>1 DEF KeysInv, Environment, Minted, Clients, InFlight, Held, Owned,
       Confined, Sends
<1>12. CASE UNCHANGED vars
  BY <1>1, <1>12 DEF KeysInv, Environment, Minted, Clients, InFlight, Held, Owned,
     Confined, Sends, vars
<1> QED
  BY <1>4, <1>5, <1>6, <1>7, <1>9, <1>10, <1>11, <1>12, <1>13 DEF Next

\* Every reachable state satisfies the invariant.
THEOREM GroupKeysInvariant == Spec => []KeysInv
BY InitKeysInv, NextKeysInv, PTL DEF Spec

\* The model's variables keep their types, whatever the order and loss of
\* rosters, keys and acknowledgements.
THEOREM GroupTypeCorrect == Spec => []TypeOK
<1>1. KeysInv => TypeOK
  <2> SUFFICES ASSUME KeysInv
               PROVE  TypeOK
    OBVIOUS
  <2>1. Environment /\ Minted /\ Clients /\ InFlight
    BY DEF KeysInv
  <2>2. /\ Len(minted) \in Nat /\ Len(minted) <= MaxMinted
        /\ minted \in Seq([by : Client, to : SUBSET Client])
    BY <2>1 DEF Minted, Minting
  <2>3. ASSUME NEW c \in Client
        PROVE  /\ client[c].members \in [Server -> SUBSET Client]
               /\ IsGroupState(client[c].group)
               /\ IsMap(client[c].pending, Client, PendingGroupKeyAck)
    <3>1. /\ client[c].members \in [Server -> SUBSET Client]
          /\ client[c].group \in GroupState
          /\ client[c].pending \in HashMap(Client, PendingGroupKeyAck)
      BY <2>1 DEF Clients, ClientState
    <3>2. client[c].group.keys \in HashMap(Epoch, Number)
      BY <3>1 DEF GroupState
    <3>3. DOMAIN client[c].group.keys \subseteq Epoch
      BY <3>2, MapFacts
    <3>4. \A e \in DOMAIN client[c].group.keys : client[c].group.keys[e] \in Key
      <4>1. \A e \in DOMAIN client[c].group.keys :
              client[c].group.keys[e] \in 1 .. Len(minted)
        BY <2>1 DEF Clients, Held, Owned
      <4> QED
        BY <2>2, <4>1, BoundAssumption DEF Key
    <3>5. IsGroupState(client[c].group)
      BY <3>1, <3>3, <3>4 DEF GroupState, IsGroupState, IsMap
    <3>6. IsMap(client[c].pending, Client, PendingGroupKeyAck)
      <4>1. /\ DOMAIN client[c].pending \subseteq Client
            /\ \A d \in DOMAIN client[c].pending : client[c].pending[d] \in PendingGroupKeyAck
        BY <3>1, MapFacts
      <4> QED
        BY <4>1 DEF IsMap
    <3> QED
      BY <3>1, <3>5, <3>6
  <2>4. ASSUME NEW m \in net
        PROVE  m \in Message
    <3>1. /\ m.from \in Client /\ m.to \in Client /\ m.epoch \in Epoch
          /\ m.type \in {"SfuGroupKey", "SfuGroupKeyAck"}
          /\ m.key \in 1 .. Len(minted)
          /\ m = [type |-> m.type, from |-> m.from, to |-> m.to, epoch |-> m.epoch,
                  key |-> m.key]
      BY <2>1 DEF InFlight, Sends
    <3>2. m.key \in Key
      BY <2>2, <3>1, BoundAssumption DEF Key
    <3> QED
      BY <3>1, <3>2 DEF Message
  <2> QED
    BY <2>1, <2>2, <2>3, <2>4 DEF TypeOK, Environment
<1> QED
  BY <1>1, GroupKeysInvariant, PTL

\* While a client is the elected keyer, the key it minted and seals with has
\* gone to nobody but those it still counts as members: the rotation in
\* sync_room_membership, the reseals and the retries of room_session.rs leave
\* no departed member a key, for any number of clients, servers and epochs.
THEOREM GroupEpochConfined == Spec => []EpochConfined
<1>1. KeysInv => EpochConfined
  <2> SUFFICES ASSUME KeysInv, NEW c \in Client, NEW k \in CurrentKey(c),
                      minted[k].by = c, Elected(c, client[c])
               PROVE  minted[k].to \subseteq union_members(client[c])
    BY DEF EpochConfined
  <2>1. Held(c, client[c], Len(minted)) /\ Confined(c, client[c])
    BY DEF KeysInv, Clients
  <2>2. k \in 1 .. Len(minted) /\ k \in current_key(client[c].group)
    BY <2>1 DEF CurrentKey, current_key, epoch_key, Held, Owned
  <2>3. k <= Len(minted)
    BY <2>2 DEF KeysInv, Minted
  <2> QED
    BY <2>1, <2>2, <2>3 DEF Confined
<1> QED
  BY <1>1, GroupKeysInvariant, PTL

-----------------------------------------------------------------------------
(* Keyers and epochs.  An epoch number says more than a key only as *)
(* long as the ring has not been used up: u8 epochs wrap, and the window   *)
(* of accept_group_key_epoch then reaches back to the first ones.          *)

\* A group state when n keys exist: the current epoch is the highest of those
\* held, and its key is held.
Ascending(g, n) ==
  /\ g.seen_high < n
  /\ g.known => g.seen_high # NoEpoch
  /\ \A e \in DOMAIN g.keys : e <= g.current
  /\ has_keys(g) => g.known /\ g.current \in DOMAIN g.keys /\ g.current <= g.seen_high
  /\ ~has_keys(g) => g.current = 0

\* Only a keyer waits for acknowledgements, so a client that loses the election
\* retries nothing.
KeyerWaits(c, st) == DOMAIN st.pending # {} => Elected(c, st)

EpochInv ==
  /\ \A c \in Client : KeyerWaits(c, client[c])
  /\ Unwrapped(Len(minted)) =>
       /\ \A c \in Client : Ascending(client[c].group, Len(minted))
       /\ \A m \in net : m.epoch < Len(minted)

\* Group state g when n keys exist, in the course of a handler of a client whose
\* group state was g0.
Above(g0, g, n) == Unwrapped(n) => Ascending(g, n) /\ g0.current <= g.current

\* Messages of epochs in use.
InUse(out, n) == Unwrapped(n) => \A m \in out : m.epoch < n

\* What the outcome o of a handler of client c does to its state st.
Lifts(c, st, o) ==
  /\ KeyerWaits(c, o.st)
  /\ Above(st.group, o.st.group, Len(minted) + o.mint)
  /\ InUse(o.out, Len(minted) + o.mint)

\* A state st of client c, in the course of a handler that started in `old'.
Lifted(c, old, st) ==
  /\ old \in ClientState /\ st \in ClientState
  /\ KeyerWaits(c, st)
  /\ Above(old.group, st.group, Len(minted))

\* Retention keeps the highest epoch.
LEMMA TopRetained ==
  ASSUME NEW E \in SUBSET Epoch, NEW e \in E, \A f \in E : f <= e
  PROVE  e \in Retained(E)
<1>1. \A f \in E : ~(f > e)
  BY DEF Epoch
<1>2. {f \in E : f > e} = {}
  BY <1>1
<1>3. Cardinality({f \in E : f > e}) = 0
  BY <1>2, FS_EmptySet
<1> QED
  BY <1>3, EpochAssumption DEF Retained

\* What install does to the epochs.
LEMMA InstallEpochs ==
  ASSUME NEW g \in GroupState, NEW e \in Epoch, NEW k \in Number
  PROVE  LET h == install(g, e, k) IN
         /\ h.current = e /\ h.known /\ h.seen_high = Higher(g.seen_high, e)
         /\ DOMAIN h.keys = Retained(DOMAIN g.keys \cup {e})
<1> DEFINE keys == Put(g.keys, e, k)
           kept == Without(keys, DOMAIN keys \ Retained(DOMAIN keys))
           h    == install(g, e, k)
<1>1. DOMAIN keys = DOMAIN g.keys \cup {e}
  BY DEF Put
<1>2. DOMAIN kept = DOMAIN keys \ (DOMAIN keys \ Retained(DOMAIN keys))
  BY DEF Without
<1>3. Retained(DOMAIN keys) \subseteq DOMAIN keys
  BY DEF Retained
<1> HIDE DEF keys, kept
<1>4. DOMAIN kept = Retained(DOMAIN g.keys \cup {e})
  BY <1>1, <1>2, <1>3
<1>5. h = [g EXCEPT !.current = e, !.keys = kept, !.known = TRUE,
                    !.seen_high = Higher(g.seen_high, e)]
  BY DEF install, note_seen, keys, kept, GroupState
<1> HIDE DEF h
<1> QED
  BY <1>4, <1>5 DEF GroupState, h

\* A key of an epoch that is not below the current one keeps the order.
LEMMA InstallAscends ==
  ASSUME NEW g \in GroupState, NEW n \in Nat, Ascending(g, n), NEW e \in Epoch,
         NEW k \in Number, NEW p \in Nat, n <= p, e < p, has_keys(g) => g.current <= e
  PROVE  Ascending(install(g, e, k), p) /\ g.current <= install(g, e, k).current
<1> DEFINE E == DOMAIN g.keys \cup {e}
           h == install(g, e, k)
<1>1. /\ h.current = e /\ h.known /\ h.seen_high = Higher(g.seen_high, e)
      /\ DOMAIN h.keys = Retained(E)
  BY InstallEpochs
<1>2. DOMAIN g.keys \in SUBSET Epoch
  <2>1. g.keys \in HashMap(Epoch, Number)
    BY DEF GroupState
  <2> QED
    BY <2>1, MapFacts
<1>3. \A f \in E : f <= e
  <2>1. CASE has_keys(g)
    BY <1>2, <2>1 DEF Ascending, GroupState, Epoch
  <2>2. CASE ~has_keys(g)
    BY <2>2 DEF has_keys, Epoch
  <2> QED
    BY <2>1, <2>2
<1>4. E \in SUBSET Epoch /\ e \in E
  BY <1>2
<1> HIDE DEF E, h
<1>5. e \in Retained(E) /\ Retained(E) \subseteq E
  <2>1. e \in Retained(E)
    BY <1>3, <1>4, TopRetained
  <2> QED
    BY <2>1 DEF Retained
<1>6. /\ h.seen_high < p /\ h.seen_high # NoEpoch /\ e <= h.seen_high
  BY <1>1 DEF Higher, GroupState, Epoch, NoEpoch, Ascending
<1>7. g.current <= e
  BY DEF Ascending, Epoch
<1> QED
  BY <1>1, <1>3, <1>5, <1>6, <1>7 DEF Ascending, has_keys, h

\* Noting an epoch in use keeps it too.
LEMMA NoteSeenAscends ==
  ASSUME NEW g \in GroupState, NEW n \in Nat, Ascending(g, n), NEW e \in Epoch, e < n
  PROVE  Ascending(note_seen(g, e), n) /\ note_seen(g, e).seen_high >= e
<1> DEFINE h == note_seen(g, e)
<1>1. /\ h.keys = g.keys /\ h.current = g.current /\ h.known
      /\ h.seen_high = Higher(g.seen_high, e)
  BY DEF note_seen, GroupState
<1>2. /\ h.seen_high < n /\ h.seen_high # NoEpoch /\ h.seen_high >= e
      /\ h.seen_high >= g.seen_high
  BY <1>1 DEF Higher, GroupState, Epoch, NoEpoch, Ascending
<1> HIDE DEF h
<1>3. g.current <= g.seen_high => g.current <= h.seen_high
  BY <1>1, <1>2 DEF GroupState, Epoch, NoEpoch, Higher
<1> QED
  BY <1>1, <1>2, <1>3 DEF Ascending, has_keys, h

\* A minted key's epoch is above all that its keyer has heard of.
LEMMA MintAscends ==
  ASSUME NEW g \in GroupState, NEW n \in Nat, Unwrapped(n + 1), Ascending(g, n),
         NEW k \in Number,
         NEW h, h = rotate(g, k) \/ (h = new_owner_epoch(g, k) /\ ~has_keys(g))
  PROVE  Ascending(h, n + 1) /\ g.current <= h.current
<1>1. n < RING /\ n + 1 \in Nat
  BY EpochAssumption DEF Unwrapped
<1>2. /\ g.current \in Epoch /\ g.seen_high \in Epoch \cup {NoEpoch}
  BY DEF GroupState
<1>3. ASSUME g.known
      PROVE  /\ next_epoch(g) = g.seen_high + 1 /\ next_epoch(g) \in Epoch
             /\ next_epoch(g) < n + 1 /\ g.current <= next_epoch(g)
  <2>1. g.seen_high \in Epoch /\ g.seen_high < n /\ g.current <= g.seen_high
    BY <1>2, <1>3 DEF Ascending, Epoch, NoEpoch
  <2>2. Higher(g.seen_high, g.current) = g.seen_high
    BY <2>1 DEF Higher, Epoch
  <2>3. (g.seen_high + 1) % RING = g.seen_high + 1
    BY <1>1, <2>1, EpochAssumption DEF Epoch
  <2>4. next_epoch(g) = g.seen_high + 1
    BY <2>2, <2>3 DEF next_epoch, Wrap
  <2> QED
    BY <1>1, <1>2, <2>1, <2>4, EpochAssumption DEF Epoch
<1>4. CASE g.known /\ h = install(g, next_epoch(g), k)
  BY <1>1, <1>3, <1>4, InstallAscends
<1>5. CASE h = new_owner_epoch(g, k) /\ ~has_keys(g)
  <2> DEFINE b == [NoGroup EXCEPT !.seen_high = g.seen_high]
             e == IF g.known THEN next_epoch(g) ELSE 0
  <2>1. e \in Epoch /\ e < n + 1
    BY <1>1, <1>3, EpochAssumption DEF Epoch
  <2>2. EmptyMap \in HashMap(Epoch, Number) /\ DOMAIN EmptyMap = {}
    BY EmptyMapFacts
  <2>3. /\ b \in GroupState /\ b.keys = EmptyMap /\ b.current = 0 /\ b.known = FALSE
        /\ b.seen_high = g.seen_high
    <3>1. /\ NoGroup \in GroupState /\ NoGroup.keys = EmptyMap /\ NoGroup.current = 0
          /\ NoGroup.known = FALSE
      BY <2>2, EpochAssumption DEF GroupState, NoGroup, Epoch
    <3> QED
      BY <1>2, <3>1 DEF GroupState
  <2>4. h = install(b, e, k)
    BY <1>5 DEF new_owner_epoch
  <2> HIDE DEF b, e
  <2>5. Ascending(b, n) /\ ~has_keys(b)
    BY <2>2, <2>3 DEF Ascending, has_keys
  <2>6. Ascending(h, n + 1) /\ b.current <= h.current
    BY <1>1, <2>1, <2>3, <2>4, <2>5, InstallAscends
  <2>7. g.current = 0
    BY <1>5 DEF Ascending
  <2> QED
    BY <2>3, <2>6, <2>7
<1>6. g.known \/ ~has_keys(g)
  BY DEF Ascending
<1> QED
  BY <1>4, <1>5, <1>6 DEF rotate

\* Fewer keys have not wrapped either.
LEMMA UnwrappedEarlier ==
  ASSUME NEW n \in Nat, NEW i \in {0, 1}, Unwrapped(n + i)
  PROVE  Unwrapped(n)
BY EpochAssumption DEF Unwrapped

\* The current epoch has a key of its own.
LEMMA CurrentBelow ==
  ASSUME NEW g \in GroupState, NEW n \in Nat, Ascending(g, n), has_keys(g)
  PROVE  g.current < n /\ current_key(g) = {g.keys[g.current]}
BY DEF Ascending, GroupState, Epoch, NoEpoch, current_key, epoch_key

\* Election and view go by the rosters.
LEMMA SameView ==
  ASSUME NEW c, NEW a, NEW b, a.members = b.members
  PROVE  union_members(a) = union_members(b) /\ (Elected(c, a) <=> Elected(c, b))
BY DEF union_members, Elected

\* A keyer's distribution.
LEMMA DistributeLifts ==
  ASSUME Minted, NEW c \in Client, NEW old, NEW st \in ClientState, has_keys(st.group),
         Elected(c, st), NEW mint \in {0, 1},
         Above(old.group, st.group, Len(minted) + mint),
         NEW k, NEW members, NEW o, o = Distribute(c, st, k, members, mint)
  PROVE  Lifts(c, old, o) /\ o.st.members = st.members
<1> DEFINE n == Len(minted) + mint
<1>1. /\ o.st.group = st.group /\ o.st.members = st.members /\ o.mint = mint
      /\ o.out = {Sealed(c, m, st.group.current, k) : m \in members}
  BY DEF Distribute, Outcome, ClientState
<1>2. KeyerWaits(c, o.st)
  BY <1>1, SameView DEF KeyerWaits
<1>3. n \in Nat /\ st.group \in GroupState
  BY DEF Minted, ClientState
<1>4. ASSUME Unwrapped(n), NEW m \in o.out
      PROVE  m.epoch < n
  <2>1. m.epoch = st.group.current
    BY <1>1 DEF Sealed
  <2>2. Ascending(st.group, n)
    BY <1>4 DEF Above
  <2>3. st.group.current < n
    BY <1>3, <2>2, CurrentBelow
  <2> QED
    BY <2>1, <2>3
<1>5. InUse(o.out, Len(minted) + o.mint) /\ Above(old.group, o.st.group, Len(minted) + o.mint)
  BY <1>1, <1>4 DEF InUse
<1> QED
  BY <1>1, <1>2, <1>5 DEF Lifts

\* Sending nothing.
LEMMA NothingLifts ==
  ASSUME Minted, NEW c \in Client, NEW old, NEW st, Lifted(c, old, st),
         NEW o, o = Outcome(st, {}, 0)
  PROVE  Lifts(c, old, o) /\ o.st.members = st.members
<1>1. Len(minted) + 0 = Len(minted)
  BY DEF Minted
<1>2. o.st = st /\ o.out = {} /\ o.mint = 0
  BY DEF Outcome
<1> QED
  BY <1>1, <1>2 DEF Lifts, Lifted, InUse

\* A minted key.
LEMMA MintAbove ==
  ASSUME Minted, NEW c \in Client, NEW old, NEW st, Lifted(c, old, st),
         NEW h, \/ h = rotate(st.group, NextKey)
                \/ h = new_owner_epoch(st.group, NextKey) /\ ~has_keys(st.group)
  PROVE  h \in GroupState /\ has_keys(h) /\ Above(old.group, h, Len(minted) + 1)
<1>1. st.group \in GroupState /\ old.group \in GroupState
  BY DEF Lifted, ClientState
<1>2. NextKey \in Number /\ Len(minted) \in Nat
  BY DEF NextKey, Number, Minted
<1>3. h \in GroupState /\ has_keys(h)
  BY <1>1, <1>2, MintFacts
<1>4. ASSUME Unwrapped(Len(minted) + 1)
      PROVE  Ascending(h, Len(minted) + 1) /\ old.group.current <= h.current
  <2>1. Unwrapped(Len(minted))
    BY <1>2, <1>4, UnwrappedEarlier
  <2>2. Ascending(st.group, Len(minted)) /\ old.group.current <= st.group.current
    BY <2>1 DEF Lifted, Above
  <2>3. Ascending(h, Len(minted) + 1) /\ st.group.current <= h.current
    BY <1>1, <1>2, <1>4, <2>2, MintAscends
  <2>4. old.group.current \in Int /\ st.group.current \in Int /\ h.current \in Int
    BY <1>1, <1>3 DEF GroupState, Epoch
  <2> QED
    BY <2>2, <2>3, <2>4
<1> QED
  BY <1>3, <1>4 DEF Above

\* A keyer's rotation.
LEMMA RekeyLifts ==
  ASSUME Minted, NEW c \in Client, NEW old, NEW st, Lifted(c, old, st), Elected(c, st),
         NEW o, o = Rekey(c, st)
  PROVE  Lifts(c, old, o) /\ o.st.members = st.members
<1> DEFINE h == rotate(st.group, NextKey)
           a == Rekeyed(st, h, EmptyMap)
<1>1. st \in ClientState /\ EmptyMap \in HashMap(Client, PendingGroupKeyAck)
  BY EmptyMapFacts DEF Lifted
<1>2. h \in GroupState /\ has_keys(h) /\ Above(old.group, h, Len(minted) + 1)
  BY MintAbove
<1>3. o = Distribute(c, a, NextKey, union_members(st), 1)
  BY DEF Rekey, Rekeyed
<1> HIDE DEF h
<1>4. a \in ClientState /\ a.group = h /\ a.members = st.members
  BY <1>1, <1>2, RekeyedFacts
<1>5. Elected(c, a)
  BY <1>4, SameView
<1> HIDE DEF a
<1>6. has_keys(a.group) /\ Above(old.group, a.group, Len(minted) + 1)
  BY <1>2, <1>4
<1>7. Lifts(c, old, o) /\ o.st.members = a.members
  BY <1>3, <1>4, <1>5, <1>6, DistributeLifts
<1> QED
  BY <1>4, <1>7

\* Less to wait for, or an epoch observed.
LEMMA LessPendingLifted ==
  ASSUME Minted, NEW c \in Client, NEW old, NEW st, Lifted(c, old, st),
         NEW g \in GroupState, g.keys = st.group.keys,
         Above(old.group, g, Len(minted)),
         NEW p \in HashMap(Client, PendingGroupKeyAck), DOMAIN p \subseteq DOMAIN st.pending,
         NEW a, a = Rekeyed(st, g, p)
  PROVE  Lifted(c, old, a) /\ a.group = g /\ a.pending = p /\ a.members = st.members
<1>1. st \in ClientState
  BY DEF Lifted
<1>2. a \in ClientState /\ a.group = g /\ a.pending = p /\ a.members = st.members
  BY <1>1, RekeyedFacts
<1>3. KeyerWaits(c, a)
  BY <1>2, SameView DEF KeyerWaits, has_keys, Lifted
<1> QED
  BY <1>2, <1>3 DEF Lifted

\* sync_room_membership: whoever is the keyer of somebody afterwards has a key.
LEMMA SyncLifts ==
  ASSUME Minted, NEW c \in Client, NEW st, Lifted(c, st, st), c \notin union_members(st),
         NEW s \in Server, NEW members \in SUBSET Client,
         NEW res, res = sync_room_membership(c, st, s, members)
  PROVE  /\ Lifts(c, st, res)
         /\ res.st.members = [st.members EXCEPT ![s] = members \ {c}]
<1> DEFINE st1  == RosterState(st, s, members \ {c})
           old  == union_members(st)
           new  == union_members(st1)
           p    == Without(st.pending, Client \ new)
           kept == Rekeyed(st1, st.group, p)
           h    == new_owner_epoch(st.group, NextKey)
           key  == st.group.keys[st.group.current]
<1>1. /\ st \in ClientState /\ st.group \in GroupState
      /\ st.pending \in HashMap(Client, PendingGroupKeyAck)
  BY DEF Lifted, ClientState
<1>2. /\ st1 \in ClientState /\ st1.group = st.group
      /\ st1.members = [st.members EXCEPT ![s] = members \ {c}]
  <2>1. st1 \in ClientState /\ st1.group = st.group
    BY <1>1, RosterFacts
  <2>2. st1.members = [st.members EXCEPT ![s] = members \ {c}]
    BY <1>1 DEF RosterState, ClientState
  <2> QED
    BY <2>1, <2>2
<1>3. res =
        IF ~Elected(c, st1) THEN Outcome(Rekeyed(st1, st.group, EmptyMap), {}, 0)
        ELSE IF ~has_keys(st.group) /\ new # {}
        THEN Distribute(c, Rekeyed(st1, h, p), NextKey, new, 1)
        ELSE IF has_keys(st.group) /\ old \ new # {} THEN Rekey(c, st1)
        ELSE IF has_keys(st.group) /\ new \ old # {} /\ current_key(st.group) # {}
        THEN Distribute(c, kept, key, new \ old, 0)
        ELSE Outcome(kept, {}, 0)
  <2>1. res = SyncOutcome(c, st, s, members)
    BY <1>1, SyncShape
  <2> QED
    BY <2>1 DEF SyncOutcome
<1>4. EmptyMap \in HashMap(Client, PendingGroupKeyAck) /\ DOMAIN EmptyMap = {}
  BY EmptyMapFacts
<1>5. p \in HashMap(Client, PendingGroupKeyAck)
  BY <1>1, WithoutFacts
<1>6. Above(st.group, st.group, Len(minted)) /\ Len(minted) + 0 = Len(minted)
  BY DEF Lifted, Minted
<1> HIDE DEF st1, old, new, p, key
<1>7. /\ kept \in ClientState /\ kept.group = st.group
      /\ kept.members = st1.members /\ union_members(kept) = new
  BY <1>1, <1>2, <1>5, RekeyedFacts DEF new
<1>8. CASE ~Elected(c, st1)
  <2> DEFINE a == Rekeyed(st1, st.group, EmptyMap)
  <2>1. /\ a \in ClientState /\ a.group = st.group /\ a.pending = EmptyMap
        /\ a.members = st1.members
    BY <1>1, <1>2, <1>4, RekeyedFacts
  <2> HIDE DEF a
  <2>2. KeyerWaits(c, a)
    BY <1>4, <1>8, <2>1, SameView DEF KeyerWaits
  <2>3. Lifted(c, st, a)
    BY <1>1, <1>6, <2>1, <2>2 DEF Lifted
  <2>4. res = Outcome(a, {}, 0)
    BY <1>3, <1>8 DEF a
  <2>5. Lifts(c, st, res) /\ res.st.members = a.members
    BY <2>3, <2>4, NothingLifts
  <2> QED
    BY <1>2, <2>1, <2>5
<1>9. CASE Elected(c, st1) /\ ~has_keys(st.group) /\ new # {}
  <2> DEFINE a == Rekeyed(st1, h, p)
  <2>1. h \in GroupState /\ has_keys(h) /\ Above(st.group, h, Len(minted) + 1)
    BY <1>9, MintAbove
  <2> HIDE DEF h
  <2>2. a \in ClientState /\ a.group = h /\ a.members = st1.members
    BY <1>2, <1>5, <2>1, RekeyedFacts
  <2>3. res = Distribute(c, a, NextKey, new, 1)
    BY <1>3, <1>9
  <2> HIDE DEF a
  <2>4. Elected(c, a)
    BY <1>9, <2>2, SameView
  <2>5. has_keys(a.group) /\ Above(st.group, a.group, Len(minted) + 1)
    BY <2>1, <2>2
  <2>6. Lifts(c, st, res) /\ res.st.members = a.members
    BY <2>2, <2>3, <2>4, <2>5, DistributeLifts
  <2> QED
    BY <1>2, <2>2, <2>6
<1>10. CASE Elected(c, st1) /\ has_keys(st.group) /\ old \ new # {}
  <2>1. res = Rekey(c, st1)
    BY <1>3, <1>10
  <2>2. KeyerWaits(c, st1)
    BY <1>2, <1>10 DEF KeyerWaits
  <2>3. Lifted(c, st, st1)
    BY <1>1, <1>2, <1>6, <2>2 DEF Lifted
  <2>4. Lifts(c, st, res) /\ res.st.members = st1.members
    BY <1>10, <2>1, <2>3, RekeyLifts
  <2> QED
    BY <1>2, <2>4
<1>11. CASE /\ Elected(c, st1)
            /\ \/ ~has_keys(st.group) /\ new = {}
               \/ has_keys(st.group) /\ old \ new = {}
  <2> HIDE DEF kept
  <2>1. Elected(c, kept)
    BY <1>7, <1>11, SameView
  <2>2. KeyerWaits(c, kept)
    BY <1>7, <1>11, <2>1 DEF KeyerWaits
  <2>3. CASE has_keys(st.group) /\ new \ old # {} /\ current_key(st.group) # {}
    <3>1. res = Distribute(c, kept, key, new \ old, 0)
      BY <1>3, <1>11, <2>3
    <3>2. has_keys(kept.group) /\ Above(st.group, kept.group, Len(minted) + 0)
      BY <1>6, <1>7, <2>3
    <3>3. Lifts(c, st, res) /\ res.st.members = kept.members
      BY <1>7, <2>1, <3>1, <3>2, DistributeLifts
    <3> QED
      BY <1>2, <1>7, <3>3
  <2>4. CASE ~(has_keys(st.group) /\ new \ old # {} /\ current_key(st.group) # {})
    <3>1. res = Outcome(kept, {}, 0)
      BY <1>3, <1>11, <2>4
    <3>2. Lifted(c, st, kept)
      BY <1>1, <1>6, <1>7, <2>2 DEF Lifted
    <3>3. Lifts(c, st, res) /\ res.st.members = kept.members
      BY <3>1, <3>2, NothingLifts
    <3> QED
      BY <1>2, <1>7, <3>3
  <2> QED
    BY <2>3, <2>4
<1> QED
  BY <1>8, <1>9, <1>10, <1>11

\* reseal_to_lagging_member.
LEMMA ResealLifts ==
  ASSUME Minted, NEW c \in Client, NEW old, NEW st, Lifted(c, old, st), NEW sender, NEW e,
         NEW aged \in BOOLEAN, NEW o, o = reseal_to_lagging_member(c, st, sender, e, aged)
  PROVE  Lifts(c, old, o) /\ o.st.members = st.members /\ o.mint = 0
<1> DEFINE p   == Without(st.pending, {sender})
           a   == Rekeyed(st, st.group, p)
           key == st.group.keys[st.group.current]
<1>1. /\ st \in ClientState /\ st.group \in GroupState
      /\ st.pending \in HashMap(Client, PendingGroupKeyAck)
      /\ Above(old.group, st.group, Len(minted)) /\ Len(minted) + 0 = Len(minted)
  BY DEF Lifted, ClientState, Minted
<1>2. p \in HashMap(Client, PendingGroupKeyAck)
  BY <1>1, WithoutFacts
<1>3. a = [st EXCEPT !.pending = Without(@, {sender})]
  BY <1>1 DEF Rekeyed, ClientState
<1> HIDE DEF p
<1>4. a \in ClientState /\ a.group = st.group /\ a.members = st.members
  BY <1>1, <1>2, RekeyedFacts
<1> HIDE DEF a
<1>5. CASE /\ o = Distribute(c, a, key, {sender}, 0)
           /\ Elected(c, st) /\ has_keys(st.group)
  <2>1. Elected(c, a)
    BY <1>4, <1>5, SameView
  <2>2. has_keys(a.group) /\ Above(old.group, a.group, Len(minted) + 0)
    BY <1>1, <1>4, <1>5
  <2> HIDE DEF key
  <2>3. Lifts(c, old, o) /\ o.st.members = a.members
    BY <1>4, <1>5, <2>1, <2>2, DistributeLifts
  <2>4. o.mint = 0
    BY <1>5 DEF Distribute, Outcome
  <2> QED
    BY <1>4, <2>3, <2>4
<1>6. CASE o = Outcome(st, {}, 0)
  <2>1. Lifts(c, old, o) /\ o.st.members = st.members
    BY <1>6, NothingLifts
  <2> QED
    BY <1>6, <2>1 DEF Outcome
<1>7. \/ /\ o = Distribute(c, a, key, {sender}, 0)
         /\ Elected(c, st) /\ has_keys(st.group)
      \/ o = Outcome(st, {}, 0)
  BY <1>3 DEF reseal_to_lagging_member
<1> QED
  BY <1>5, <1>6, <1>7

\* A frame of some member, under an epoch in use.
LEMMA FrameLifts ==
  ASSUME Minted, NEW c \in Client, NEW st, Lifted(c, st, st), NEW m, m.epoch \in Epoch,
         Unwrapped(Len(minted)) => m.epoch < Len(minted), NEW aged \in BOOLEAN,
         NEW o, o = OnFrame(c, st, m, aged)
  PROVE  Lifts(c, st, o) /\ o.st.members = st.members
<1> DEFINE g       == note_seen(st.group, m.epoch)
           a       == Rekeyed(st, g, st.pending)
           rekeyed == rekey_room_if_behind(c, a)
           opened  == epoch_key(st.group, m.epoch) = {m.key}
           after   == IF opened THEN Outcome(st, {}, 0) ELSE rekeyed
           reseal  == reseal_to_lagging_member(c, after.st, m.from, m.epoch,
                                               aged /\ after.mint = 0)
<1>1. /\ st \in ClientState /\ st.group \in GroupState
      /\ st.pending \in HashMap(Client, PendingGroupKeyAck)
      /\ Len(minted) \in Nat
  BY DEF Lifted, ClientState, Minted
<1>2. /\ g \in GroupState /\ g.keys = st.group.keys /\ g.current = st.group.current
      /\ Above(st.group, g, Len(minted))
  <2>1. g \in GroupState /\ g.keys = st.group.keys /\ g.current = st.group.current
    BY <1>1, NoteSeenFacts
  <2>2. ASSUME Unwrapped(Len(minted))
        PROVE  Ascending(g, Len(minted)) /\ st.group.current <= g.current
    <3>1. Ascending(st.group, Len(minted)) /\ st.group.current <= st.group.current
      BY <2>2 DEF Lifted, Above
    <3>2. Ascending(g, Len(minted))
      BY <1>1, <2>2, <3>1, NoteSeenAscends
    <3> QED
      BY <2>1, <3>1, <3>2
  <2> QED
    BY <2>1, <2>2 DEF Above
<1>3. o = Outcome(reseal.st, after.out \cup reseal.out, after.mint)
  <2>1. a = [st EXCEPT !.group = note_seen(@, m.epoch)]
    BY <1>1 DEF Rekeyed, ClientState
  <2> QED
    BY <2>1 DEF OnFrame
<1> HIDE DEF g
<1>4. Lifted(c, st, a) /\ a.members = st.members
  BY <1>1, <1>2, LessPendingLifted
<1> HIDE DEF a
<1>5. \/ rekeyed = Outcome(a, {}, 0)
      \/ rekeyed = Rekey(c, a) /\ Elected(c, a)
  BY DEF rekey_room_if_behind
<1>6. Outcome(st, {}, 0).st = st /\ Outcome(st, {}, 0).out = {} /\ Outcome(st, {}, 0).mint = 0
  BY DEF Outcome
<1>7. Outcome(a, {}, 0).st = a /\ Outcome(a, {}, 0).out = {} /\ Outcome(a, {}, 0).mint = 0
  BY DEF Outcome
<1> HIDE DEF rekeyed
<1>8. CASE after.mint = 0 /\ after.out = {} /\ Lifted(c, st, after.st)
           /\ after.st.members = st.members
  <2> HIDE DEF after
  <2>1. (aged /\ after.mint = 0) \in BOOLEAN
    OBVIOUS
  <2>2. Lifts(c, st, reseal) /\ reseal.st.members = after.st.members /\ reseal.mint = 0
    BY <1>8, <2>1, ResealLifts
  <2> HIDE DEF reseal
  <2>3. o.st = reseal.st /\ o.out = reseal.out /\ o.mint = reseal.mint
    BY <1>3, <1>8, <2>2 DEF Outcome
  <2> QED
    BY <1>8, <2>2, <2>3 DEF Lifts
<1>9. CASE after = Rekey(c, a) /\ Elected(c, a)
  <2>1. Lifts(c, st, after) /\ after.st.members = a.members
    BY <1>4, <1>9, RekeyLifts
  <2>2. after.mint = 1
    BY <1>9 DEF Rekey, Distribute, Outcome
  <2>3. reseal = Outcome(after.st, {}, 0)
    BY <2>2 DEF reseal_to_lagging_member, should_reseal_to_lagging_member
  <2> HIDE DEF reseal, after
  <2>4. o.st = after.st /\ o.out = after.out /\ o.mint = after.mint
    BY <1>3, <2>3 DEF Outcome
  <2> QED
    BY <1>4, <2>1, <2>4 DEF Lifts
<1> QED
  BY <1>4, <1>5, <1>6, <1>7, <1>8, <1>9

\* accept_group_key_epoch lets no epoch below the current one in, as long as
\* its window does not reach round the ring.
LEMMA AcceptedNotBelow ==
  ASSUME NEW g \in GroupState, NEW n \in Nat, Unwrapped(n), Ascending(g, n), has_keys(g),
         NEW e \in Epoch, e < n, accept_group_key_epoch(g, e)
  PROVE  g.current <= e
<1>1. /\ g.current \in Int /\ g.current < n /\ g.current >= 0 /\ e >= 0
      /\ RING \in Int /\ RING > 0 /\ MAX_EPOCH_ADVANCE \in Nat
      /\ n + MAX_EPOCH_ADVANCE <= RING /\ e \in Int
  <2>1. g.current < n
    BY CurrentBelow
  <2> QED
    BY <2>1, EpochAssumption DEF GroupState, Epoch, Unwrapped
<1>2. ASSUME e < g.current
      PROVE  FALSE
  <2>1. (e - g.current) % RING = e - g.current + RING
    <3>1. e - g.current + RING \in 0 .. RING - 1
      BY <1>1, <1>2
    <3> QED
      BY <1>1, <1>2, <3>1
  <2>2. (e - g.current) % RING <= MAX_EPOCH_ADVANCE
    BY DEF accept_group_key_epoch, Wrap
  <2> QED
    BY <1>1, <2>1, <2>2
<1> QED
  BY <1>1, <1>2

\* A key from the elected keyer.
LEMMA GroupKeyLifts ==
  ASSUME Minted, NEW c \in Client, NEW st, Lifted(c, st, st), NEW m, m.epoch \in Epoch,
         m.key \in Number, Unwrapped(Len(minted)) => m.epoch < Len(minted),
         NEW o, o = OnGroupKey(c, st, m)
  PROVE  Lifts(c, st, o) /\ o.st.members = st.members
<1>1. /\ st \in ClientState /\ st.group \in GroupState
      /\ st.pending \in HashMap(Client, PendingGroupKeyAck)
      /\ Len(minted) \in Nat /\ Len(minted) + 0 = Len(minted)
  BY DEF Lifted, ClientState, Minted
<1>2. CASE accept_group_key_from(c, st, m.from, m.epoch)
  <2> DEFINE h   == install(st.group, m.epoch, m.key)
             a   == Rekeyed(st, h, st.pending)
             ack == [type |-> "SfuGroupKeyAck", from |-> c, to |-> m.from,
                     epoch |-> m.epoch, key |-> m.key]
  <2>1. h \in GroupState /\ has_keys(h)
    BY <1>1, InstallFacts
  <2>2. Above(st.group, h, Len(minted))
    <3> SUFFICES ASSUME Unwrapped(Len(minted))
                 PROVE  Ascending(h, Len(minted)) /\ st.group.current <= h.current
      BY DEF Above
    <3>1. Ascending(st.group, Len(minted)) /\ m.epoch < Len(minted)
      BY DEF Lifted, Above
    <3>2. has_keys(st.group) => st.group.current <= m.epoch
      BY <1>1, <1>2, <3>1, AcceptedNotBelow DEF accept_group_key_from
    <3>3. Len(minted) <= Len(minted)
      BY <1>1
    <3> QED
      BY <1>1, <3>1, <3>2, <3>3, InstallAscends
  <2>3. o = Outcome(a, {ack}, 0)
    <3>1. a = [st EXCEPT !.group = install(@, m.epoch, m.key)]
      BY <1>1 DEF Rekeyed, ClientState
    <3> QED
      BY <1>2, <3>1 DEF OnGroupKey
  <2> HIDE DEF h
  <2>4. a \in ClientState /\ a.group = h /\ a.pending = st.pending /\ a.members = st.members
    BY <1>1, <2>1, RekeyedFacts
  <2> HIDE DEF a
  <2>5. KeyerWaits(c, a)
    BY <2>1, <2>4, SameView DEF KeyerWaits, Lifted
  <2>6. ack.epoch = m.epoch
    OBVIOUS
  <2> HIDE DEF ack
  <2>7. o.st = a /\ o.out = {ack} /\ o.mint = 0
    BY <2>3 DEF Outcome
  <2>8. InUse(o.out, Len(minted))
    BY <2>6, <2>7 DEF InUse
  <2> QED
    BY <1>1, <2>2, <2>4, <2>5, <2>7, <2>8 DEF Lifts
<1>3. CASE ~accept_group_key_from(c, st, m.from, m.epoch)
  <2>1. o = Outcome(st, {}, 0)
    BY <1>3 DEF OnGroupKey
  <2> QED
    BY <2>1, NothingLifts
<1> QED
  BY <1>2, <1>3

\* An acknowledgement.
LEMMA AckLifts ==
  ASSUME Minted, NEW c \in Client, NEW st, Lifted(c, st, st), NEW m,
         NEW o, o = OnGroupKeyAck(c, st, m)
  PROVE  Lifts(c, st, o) /\ o.st.members = st.members
<1> DEFINE p == Without(st.pending, {m.from})
           a == Rekeyed(st, st.group, p)
<1>1. /\ st \in ClientState /\ st.group \in GroupState
      /\ st.pending \in HashMap(Client, PendingGroupKeyAck)
      /\ Above(st.group, st.group, Len(minted))
  BY DEF Lifted, ClientState
<1>2. p \in HashMap(Client, PendingGroupKeyAck) /\ DOMAIN p \subseteq DOMAIN st.pending
  <2>1. p \in HashMap(Client, PendingGroupKeyAck)
    BY <1>1, WithoutFacts
  <2> QED
    BY <2>1 DEF Without
<1>3. a = [st EXCEPT !.pending = Without(@, {m.from})]
  BY <1>1 DEF Rekeyed, ClientState
<1>4. o = Outcome(a, {}, 0) \/ o = Outcome(st, {}, 0)
  BY <1>3 DEF OnGroupKeyAck
<1> HIDE DEF p
<1>5. Lifted(c, st, a) /\ a.members = st.members
  BY <1>1, <1>2, LessPendingLifted
<1> HIDE DEF a
<1>6. CASE o = Outcome(a, {}, 0)
  <2>1. Lifts(c, st, o) /\ o.st.members = a.members
    BY <1>5, <1>6, NothingLifts
  <2> QED
    BY <1>5, <2>1
<1>7. CASE o = Outcome(st, {}, 0)
  BY <1>7, NothingLifts
<1> QED
  BY <1>4, <1>6, <1>7

\* retry_pending_group_keys, which seals under epochs it holds.
LEMMA RetryLifts ==
  ASSUME Minted, NEW c \in Client, NEW st, Lifted(c, st, st), NEW due,
         NEW o, o = retry_pending_group_keys(c, st, due)
  PROVE  Lifts(c, st, o) /\ o.st.members = st.members
<1> DEFINE live    == DOMAIN st.pending \ Hopeless(c, st)
           keyless == {m \in due \cap live : epoch_key(st.group, st.pending[m].epoch) = {}}
           resend  == (due \cap live) \ keyless
           p       == [m \in live \ keyless |->
                         [st.pending[m] EXCEPT !.attempts = IF m \in resend THEN @ + 1 ELSE @]]
<1>1. /\ st \in ClientState /\ st.group \in GroupState
      /\ Above(st.group, st.group, Len(minted))
      /\ Len(minted) \in Nat /\ Len(minted) + 0 = Len(minted)
  BY DEF Lifted, ClientState, Minted
<1>2. /\ o.st = [st EXCEPT !.pending = p] /\ o.mint = 0
      /\ o.out = {Sealed(c, m, st.pending[m].epoch,
                         st.group.keys[st.pending[m].epoch]) : m \in resend}
  BY DEF retry_pending_group_keys, Outcome
<1>3. DOMAIN p \subseteq DOMAIN st.pending
  OBVIOUS
<1>4. \A m \in resend : st.pending[m].epoch \in DOMAIN st.group.keys
  BY DEF epoch_key
<1> HIDE DEF p, resend, live, keyless
<1>5. o.st.group = st.group /\ o.st.members = st.members /\ o.st.pending = p
  BY <1>1, <1>2 DEF ClientState
<1>6. KeyerWaits(c, o.st)
  BY <1>3, <1>5, SameView DEF KeyerWaits, Lifted
<1>7. ASSUME Unwrapped(Len(minted)), NEW x \in o.out
      PROVE  x.epoch < Len(minted)
  <2>1. Ascending(st.group, Len(minted))
    BY <1>1, <1>7 DEF Above
  <2>2. x.epoch \in DOMAIN st.group.keys
    BY <1>2, <1>4 DEF Sealed
  <2>3. has_keys(st.group) /\ x.epoch <= st.group.current
    BY <2>1, <2>2 DEF has_keys, Ascending
  <2>4. st.group.current < Len(minted)
    BY <1>1, <2>1, <2>3, CurrentBelow
  <2>5. DOMAIN st.group.keys \subseteq Epoch
    <3>1. st.group.keys \in HashMap(Epoch, Number)
      BY <1>1 DEF GroupState
    <3> QED
      BY <3>1, MapFacts
  <2>6. x.epoch \in Int /\ st.group.current \in Int
    BY <1>1, <2>2, <2>5 DEF GroupState, Epoch
  <2> QED
    BY <1>1, <2>3, <2>4, <2>6
<1> QED
  BY <1>1, <1>2, <1>5, <1>6, <1>7 DEF Lifts, InUse

\* More keys make room for more epochs.
LEMMA AscendingLater ==
  ASSUME NEW g \in GroupState, NEW n \in Nat, NEW i \in {0, 1}, Ascending(g, n)
  PROVE  Ascending(g, n + i)
<1>1. g.seen_high < n + i
  BY DEF Ascending, GroupState, Epoch, NoEpoch
<1> QED
  BY <1>1 DEF Ascending

\* No client that stays goes back to an earlier epoch.
Onward == Unwrapped(Len(minted')) =>
            \A d \in Client : client[d].group.current <= client'[d].group.current

\* A client's state is a state in the course of its own handler.
LEMMA StartLifted ==
  ASSUME KeysInv, EpochInv, NEW c \in Client
  PROVE  /\ Minted /\ Lifted(c, client[c], client[c])
         /\ c \notin union_members(client[c])
<1>1. /\ Minted /\ client[c] \in ClientState /\ c \notin union_members(client[c])
  BY DEF KeysInv, Clients, Formed
<1>2. client[c].group.current \in Int
  BY <1>1 DEF ClientState, GroupState, Epoch
<1> QED
  BY <1>1, <1>2 DEF EpochInv, Lifted, Above

\* A handler's outcome keeps keyers keyed and epochs in order.
LEMMA TakeLifts ==
  ASSUME KeysInv, EpochInv, NEW c \in Client, NEW o, Good(c, o), Lifts(c, client[c], o),
         NEW consumed, Take(c, o, consumed)
  PROVE  EpochInv' /\ Onward
<1> DEFINE n == Len(minted)
<1>1. /\ Minted /\ client \in [Client -> ClientState] /\ n \in Nat /\ o.mint \in {0, 1}
  BY DEF KeysInv, Clients, Minted, Good
<1>2. Len(minted') = n + o.mint
  BY <1>1, TakeMinted
<1>3. /\ client' = [client EXCEPT ![c] = o.st]
      /\ \A m \in net' : m \in net \/ m \in o.out
  BY DEF Take
<1>4. client'[c] = o.st /\ \A d \in Client \ {c} : client'[d] = client[d]
  BY <1>1, <1>3
<1>5. \A d \in Client : KeyerWaits(d, client'[d])
  BY <1>4 DEF EpochInv, Lifts
<1>6. ASSUME Unwrapped(Len(minted')), NEW d \in Client
      PROVE  /\ Ascending(client'[d].group, Len(minted'))
             /\ client[d].group.current <= client'[d].group.current
  <2>1. CASE d = c
    BY <1>2, <1>4, <1>6, <2>1 DEF Lifts, Above
  <2>2. CASE d # c
    <3>1. client[d].group \in GroupState /\ client[d].group.current \in Int
      BY <1>1 DEF ClientState, GroupState, Epoch
    <3>2. Unwrapped(n)
      BY <1>1, <1>2, <1>6, UnwrappedEarlier
    <3>3. Ascending(client[d].group, n)
      BY <3>2 DEF EpochInv
    <3>4. Ascending(client[d].group, n + o.mint)
      BY <1>1, <3>1, <3>3, AscendingLater
    <3> QED
      BY <1>2, <1>4, <2>2, <3>1, <3>4
  <2> QED
    BY <2>1, <2>2
<1>7. ASSUME Unwrapped(Len(minted')), NEW m \in net'
      PROVE  m.epoch < Len(minted')
  <2>1. CASE m \in o.out
    BY <1>2, <1>7, <2>1 DEF Lifts, InUse
  <2>2. CASE m \in net
    <3>1. Unwrapped(n)
      BY <1>1, <1>2, <1>7, UnwrappedEarlier
    <3>2. m.epoch < n
      BY <2>2, <3>1 DEF EpochInv
    <3>3. m.epoch \in Int
      BY <2>2 DEF KeysInv, InFlight, Sends, Epoch
    <3> QED
      BY <1>1, <1>2, <3>2, <3>3
  <2> QED
    BY <1>3, <2>1, <2>2
<1>8. EpochInv'
  BY <1>5, <1>6, <1>7 DEF EpochInv, KeyerWaits, Elected, union_members, Unwrapped, Ascending
<1> QED
  BY <1>6, <1>8 DEF Onward

\* The initial room: nobody waits for anything, and its founders are level.
LEMMA InitEpochInv == Init => EpochInv
<1> SUFFICES ASSUME Init
             PROVE  EpochInv
  OBVIOUS
<1>1. ASSUME NEW c \in Client, c \notin Founders
      PROVE  /\ client[c] = Idle /\ Idle.group = NoGroup /\ DOMAIN Idle.pending = {}
             /\ union_members(Idle) = {} /\ \A s \in Server : Idle.members[s] = {}
  BY <1>1, EmptyMapFacts DEF Init, Idle, union_members
<1>2. ASSUME NEW c \in Client, c \in Founders
      PROVE  /\ client[c].group = install(install(NoGroup, 0, 1), 1, 2)
             /\ DOMAIN client[c].pending = {}
             /\ \A s \in Server : client[c].members[s] = Founders \ {c}
  BY <1>2, EmptyMapFacts DEF Init
<1>4. /\ NoGroup \in GroupState /\ 0 \in Epoch /\ 1 \in Epoch /\ 1 \in Number /\ 2 \in Number
      /\ DOMAIN NoGroup.keys = {} /\ NoGroup.current = 0 /\ NoGroup.known = FALSE
      /\ NoGroup.seen_high = NoEpoch
  <2>1. EmptyMap \in HashMap(Epoch, Number) /\ DOMAIN EmptyMap = {}
    BY EmptyMapFacts
  <2> QED
    BY <2>1, EpochAssumption DEF NoGroup, GroupState, Epoch, Number
<1>5. /\ Ascending(NoGroup, 0) /\ Ascending(NoGroup, Len(minted))
      /\ Len(minted) = (IF Founders = {} THEN 0 ELSE 2)
  <2>1. Len(minted) = (IF Founders = {} THEN 0 ELSE 2)
    BY DEF Init
  <2> QED
    BY <1>4, <2>1 DEF Ascending, has_keys, NoEpoch
<1>6. /\ Ascending(install(install(NoGroup, 0, 1), 1, 2), 2)
      /\ has_keys(install(install(NoGroup, 0, 1), 1, 2))
  <2> DEFINE g1 == install(NoGroup, 0, 1)
             g2 == install(g1, 1, 2)
  <2>1. g1 \in GroupState /\ g1.current = 0
    BY <1>4, InstallFacts, InstallEpochs
  <2>2. Ascending(g1, 1)
    BY <1>4, <1>5, InstallAscends DEF has_keys
  <2> HIDE DEF g1
  <2>3. Ascending(g2, 2)
    BY <1>4, <2>1, <2>2, InstallAscends
  <2>4. g2.current = 1 /\ DOMAIN g2.keys = Retained(DOMAIN g1.keys \cup {1})
    BY <1>4, <2>1, InstallEpochs
  <2>5. has_keys(g2)
    BY <2>3, <2>4 DEF Ascending
  <2> QED
    BY <2>3, <2>5 DEF g1
<1>7. ASSUME NEW c \in Client
      PROVE  KeyerWaits(c, client[c]) /\ Ascending(client[c].group, Len(minted))
  <2>1. CASE c \in Founders
    <3>1. Len(minted) = 2
      BY <1>5, <2>1
    <3> QED
      BY <1>2, <1>6, <2>1, <3>1 DEF KeyerWaits
  <2>2. CASE c \notin Founders
    BY <1>1, <1>5, <2>2 DEF KeyerWaits
  <2> QED
    BY <2>1, <2>2
<1>8. net = {}
  BY DEF Init
<1> QED
  BY <1>7, <1>8 DEF EpochInv

\* A client forgets the room's keys.
LEMMA ForgetsEpochs ==
  ASSUME KeysInv, EpochInv, NEW c \in Client, NEW x, x.group = NoGroup, DOMAIN x.pending = {},
         client' = [client EXCEPT ![c] = x], net' = net, minted' = minted,
         \/ \E s \in Server : c \in present[s] /\ c \notin present'[s]
         \/ \A s \in Server : c \notin linked[s]
  PROVE  EpochInv' /\ Ascends
<1>1. client \in [Client -> ClientState] /\ Len(minted) \in Nat
  BY DEF KeysInv, Clients, Minted
<1>2. client'[c] = x /\ \A d \in Client \ {c} : client'[d] = client[d]
  BY <1>1
<1>3. KeyerWaits(c, x) /\ (\A n \in Nat : Ascending(x.group, n))
  <2>1. DOMAIN NoGroup.keys = {}
    BY EmptyMapFacts DEF NoGroup
  <2> QED
    BY <2>1 DEF KeyerWaits, Ascending, has_keys, NoGroup, NoEpoch
<1>4. \A d \in Client : KeyerWaits(d, client'[d])
  BY <1>2, <1>3 DEF EpochInv
<1>5. ASSUME Unwrapped(Len(minted)), NEW d \in Client
      PROVE  Ascending(client'[d].group, Len(minted))
  BY <1>1, <1>2, <1>3, <1>5 DEF EpochInv
<1>6. EpochInv'
  BY <1>4, <1>5 DEF EpochInv, KeyerWaits, Elected, union_members, Unwrapped, Ascending
<1>7. \A d \in Client \ {c} : client[d].group.current \in Int
  BY <1>1 DEF ClientState, GroupState, Epoch
<1>8. Ascends
  BY <1>2, <1>7 DEF Ascends
<1> QED
  BY <1>6, <1>8

\* Every step keeps epochs in order and takes nobody back.
LEMMA NextEpochInv == KeysInv /\ EpochInv /\ [Next]_vars => EpochInv' /\ Ascends
<1> SUFFICES ASSUME KeysInv, EpochInv, [Next]_vars
             PROVE  EpochInv' /\ Ascends
  OBVIOUS
<1>1. /\ Environment /\ Minted /\ Clients /\ InFlight
      /\ client \in [Client -> ClientState]
  BY DEF KeysInv, Clients
<1>2. \A c \in Client : /\ Formed(c, client[c]) /\ Held(c, client[c], Len(minted))
                        /\ Confined(c, client[c])
  BY <1>1 DEF Clients
<1>3. \A c \in Client : /\ Lifted(c, client[c], client[c])
                        /\ c \notin union_members(client[c])
                        /\ client[c].group.current \in Int
  <2>1. \A c \in Client : client[c].group.current \in Int
    BY <1>1 DEF ClientState, GroupState, Epoch
  <2> QED
    BY <2>1, StartLifted
<1>4. Onward => Ascends
  BY DEF Onward, Ascends
<1>5. ASSUME UNCHANGED <<client, minted>>, net' \subseteq net
      PROVE  EpochInv' /\ Ascends
  <2>1. EpochInv'
    BY <1>5 DEF EpochInv, KeyerWaits, Elected, union_members, Unwrapped, Ascending
  <2>2. Onward
    BY <1>3, <1>5 DEF Onward
  <2> QED
    BY <1>4, <2>1, <2>2
<1>6. ASSUME NEW c \in Client, NEW s \in Server,
             \/ Join(c, s) \/ Subscribe(c, s) \/ Resubscribe(c, s) \/ LoseLink(c, s)
             \/ LeaveRoom(c, s, TRUE)
             \/ \E late \in SUBSET Client : Broadcast(c, s, late)
             \/ \E d \in Client : SendLate(c, s, d)
      PROVE  EpochInv' /\ Ascends
  <2>1. UNCHANGED <<client, minted>> /\ net' \subseteq net
    BY <1>6 DEF Join, Subscribe, Resubscribe, LoseLink, LeaveRoom, Broadcast, SendLate
  <2> QED
    BY <1>5, <2>1
<1>7. ASSUME NEW c \in Client, NEW s \in Server,
             LeaveRoom(c, s, FALSE) \/ UnsubscribeRoomChat(c, s)
      PROVE  EpochInv' /\ Ascends
  <2> DEFINE x == Forgetting(client[c], s)
  <2>1. x.group = NoGroup /\ DOMAIN x.pending = {}
    BY <1>1, <1>3, ForgettingFormed
  <2>2. client' = [client EXCEPT ![c] = x] /\ net' = net /\ minted' = minted
    BY <1>7 DEF LeaveRoom, UnsubscribeRoomChat
  <2>3. present \in [Server -> SUBSET Client] /\ present' = [present EXCEPT ![s] = @ \ {c}]
    BY <1>1, <1>7 DEF Environment, LeaveRoom, UnsubscribeRoomChat, Depart
  <2> HIDE DEF x
  <2>4. CASE c \in present[s]
    BY <2>1, <2>2, <2>3, <2>4, ForgetsEpochs
  <2>5. c \in present[s]
    BY <1>1, <1>7 DEF Environment, LeaveRoom, UnsubscribeRoomChat
  <2> QED
    BY <2>4, <2>5
<1>17. ASSUME NEW c \in Client, Exit(c)
       PROVE  EpochInv' /\ Ascends
  <2>1. /\ client' = [client EXCEPT ![c] = Idle] /\ net' = net /\ minted' = minted
        /\ \A s \in Server : c \notin linked[s]
    BY <1>17 DEF Exit
  <2>2. Idle.group = NoGroup /\ DOMAIN Idle.pending = {}
    BY EmptyMapFacts DEF Idle
  <2> QED
    BY <2>1, <2>2, ForgetsEpochs
<1>8. ASSUME NEW c \in Client, NEW s \in Server,
             SfuMembers(c, s) \/ SfuPeerJoined(c, s) \/ SfuPeerLeft(c, s)
      PROVE  EpochInv' /\ Ascends
  <2>1. PICK members \in SUBSET Client : Sync(c, s, members)
    BY <1>8, ToldSync
  <2> DEFINE o == sync_room_membership(c, client[c], s, members)
  <2>2. Good(c, o)
    BY <1>1, <1>2, SyncGood
  <2>3. Lifts(c, client[c], o)
    BY <1>1, <1>3, SyncLifts
  <2>4. Take(c, o, {})
    BY <2>1 DEF Sync
  <2> HIDE DEF o
  <2>5. EpochInv' /\ Onward
    BY <2>2, <2>3, <2>4, TakeLifts
  <2> QED
    BY <1>4, <2>5
<1>9. ASSUME NEW c \in Client, NEW o, Good(c, o), Lifts(c, client[c], o), NEW consumed,
             Take(c, o, consumed)
      PROVE  EpochInv' /\ Ascends
  BY <1>4, <1>9, TakeLifts
<1>10. ASSUME NEW c \in Client, NEW d \in Client, NEW aged \in BOOLEAN,
              SfuContent(c, d, aged)
       PROVE  EpochInv' /\ Ascends
  <2> DEFINE m == Frame(c)
             o == OnFrame(d, client[d], m, aged)
  <2>1. m.epoch \in Epoch /\ m.epoch = client[c].group.current
    BY <1>1 DEF Frame, ClientState, GroupState
  <2>2. has_keys(client[c].group)
    BY <1>10 DEF SfuContent, current_key, epoch_key, has_keys
  <2>3. Unwrapped(Len(minted)) => m.epoch < Len(minted)
    <3>1. client[c].group \in GroupState /\ Len(minted) \in Nat
      BY <1>1 DEF ClientState, Minted
    <3> QED
      BY <1>1, <2>1, <2>2, <3>1, CurrentBelow DEF EpochInv
  <2>4. Good(d, o)
    BY <1>1, <1>2, <2>1, FrameGood
  <2> HIDE DEF m
  <2>5. Lifts(d, client[d], o) /\ o.st.members = client[d].members
    BY <1>1, <1>3, <2>1, <2>3, FrameLifts
  <2>6. Take(d, o, {})
    BY <1>10 DEF SfuContent, m
  <2> HIDE DEF o
  <2> QED
    BY <1>9, <2>4, <2>5, <2>6
<1>11. ASSUME NEW c \in Client, NEW due, RetryTick(c, due)
       PROVE  EpochInv' /\ Ascends
  <2> DEFINE o == retry_pending_group_keys(c, client[c], due)
  <2>1. Good(c, o)
    BY <1>1, <1>2, RetryGood
  <2>2. Lifts(c, client[c], o) /\ o.st.members = client[c].members
    BY <1>1, <1>3, RetryLifts
  <2>3. Take(c, o, {})
    BY <1>11 DEF RetryTick
  <2> HIDE DEF o
  <2> QED
    BY <1>9, <2>1, <2>2, <2>3
<1>12. ASSUME NEW m \in net
       PROVE  /\ m.to \in Client /\ m.from \in Client /\ m.epoch \in Epoch
              /\ m.key \in Number /\ Sends(m.from, m, Client, Len(minted))
              /\ Unwrapped(Len(minted)) => m.epoch < Len(minted)
  <2>1. m.from \in Client /\ Sends(m.from, m, Client, Len(minted))
    BY <1>1 DEF InFlight
  <2>2. m.key \in 1 .. Len(minted) /\ Len(minted) \in Nat
    BY <1>1, <2>1 DEF Sends, Minted
  <2> QED
    BY <1>1, <2>1, <2>2 DEF Sends, EpochInv, Number
<1>13. ASSUME NEW m \in net, SfuGroupKey(m.to, m)
       PROVE  EpochInv' /\ Ascends
  <2> DEFINE o == OnGroupKey(m.to, client[m.to], m)
  <2>1. Good(m.to, o)
    BY <1>1, <1>2, <1>12, <1>13, GroupKeyGood DEF SfuGroupKey
  <2>2. Lifts(m.to, client[m.to], o) /\ o.st.members = client[m.to].members
    BY <1>1, <1>3, <1>12, GroupKeyLifts
  <2>3. Take(m.to, o, {m})
    BY <1>13 DEF SfuGroupKey
  <2> HIDE DEF o
  <2> QED
    BY <1>9, <1>12, <2>1, <2>2, <2>3
<1>14. ASSUME NEW m \in net, SfuGroupKeyAck(m.to, m)
       PROVE  EpochInv' /\ Ascends
  <2> DEFINE o == OnGroupKeyAck(m.to, client[m.to], m)
  <2>1. Good(m.to, o)
    BY <1>1, <1>2, <1>12, AckGood
  <2>2. Lifts(m.to, client[m.to], o) /\ o.st.members = client[m.to].members
    BY <1>1, <1>3, <1>12, AckLifts
  <2>3. Take(m.to, o, {m})
    BY <1>14 DEF SfuGroupKeyAck
  <2> HIDE DEF o
  <2> QED
    BY <1>9, <1>12, <2>1, <2>2, <2>3
<1>15. ASSUME NEW m \in net, Lose(m)
       PROVE  EpochInv' /\ Ascends
  <2>1. UNCHANGED <<client, minted>> /\ net' \subseteq net
    BY <1>15 DEF Lose
  <2> QED
    BY <1>5, <2>1
<1>16. CASE UNCHANGED vars
  <2>1. UNCHANGED <<client, minted>> /\ net' \subseteq net
    BY <1>16 DEF vars
  <2> QED
    BY <1>5, <2>1
<1>18. ASSUME NEW c \in Client, NEW s \in Server,
              \E keep_chat \in BOOLEAN : LeaveRoom(c, s, keep_chat)
       PROVE  EpochInv' /\ Ascends
  BY <1>6, <1>7, <1>18
<1> QED
  BY <1>6, <1>7, <1>8, <1>10, <1>11, <1>13, <1>14, <1>15, <1>16, <1>17, <1>18 DEF Next

\* In every reachable state only keyers wait for acknowledgements, and until the
\* u8 epochs wrap every client seals under the highest epoch it holds a key of.
THEOREM EpochInvariant == Spec => []EpochInv
<1>1. KeysInv /\ EpochInv /\ [Next]_vars => EpochInv'
  BY NextEpochInv
<1> QED
  BY <1>1, InitEpochInv, GroupKeysInvariant, PTL DEF Spec

\* A late or duplicate key never takes a client back to an epoch it has left
\* (accept_group_key_epoch's window, and minting above the highest epoch heard of).
THEOREM NoEpochRollback == Spec => EpochAscends
<1>1. KeysInv /\ EpochInv /\ [Next]_vars => Ascends
  BY NextEpochInv
<1> QED
  BY <1>1, GroupKeysInvariant, EpochInvariant, PTL DEF Spec, EpochAscends

-----------------------------------------------------------------------------
(* Where the recovery comes to rest.                                       *)

LEMMA QuietOutcome ==
  ASSUME NEW x, NEW y, NEW o, o = Outcome(x.st, y.out \cup x.out, y.mint), o.out = {}
  PROVE  y.out = {} /\ x.out = {}
BY DEF Outcome

\* A frame that makes its receiver send nothing: either it was opened or the
\* receiver is not a keyer that is behind, and there is no lagging member to
\* reseal to.
LEMMA QuietFrame ==
  ASSUME NEW c, NEW st \in ClientState, NEW m,
         NEW o, o = OnFrame(c, st, m, TRUE), o.out = {},
         Elected(c, st), m.from \in union_members(st), DOMAIN st.pending = {}
  PROVE  /\ \/ epoch_key(st.group, m.epoch) = {m.key}
            \/ ~is_behind(note_seen(st.group, m.epoch))
         /\ \/ ~has_keys(st.group) \/ current_key(st.group) = {}
            \/ ~should_reseal_to_lagging_member(st.group, m.epoch, TRUE)
<1> DEFINE g       == note_seen(st.group, m.epoch)
           a       == Rekeyed(st, g, st.pending)
           rekeyed == rekey_room_if_behind(c, a)
           opened  == epoch_key(st.group, m.epoch) = {m.key}
           after   == IF opened THEN Outcome(st, {}, 0) ELSE rekeyed
           reseal  == reseal_to_lagging_member(c, after.st, m.from, m.epoch,
                                               TRUE /\ after.mint = 0)
<1>0. o = Outcome(reseal.st, after.out \cup reseal.out, after.mint)
  <2>1. a = [st EXCEPT !.group = note_seen(@, m.epoch)]
    BY DEF Rekeyed, ClientState
  <2> QED
    BY <2>1 DEF OnFrame
<1>1. after.out = {} /\ reseal.out = {}
  <2> HIDE DEF reseal, after
  <2> QED
    BY <1>0, QuietOutcome
<1>2. /\ g.keys = st.group.keys /\ g.current = st.group.current
  BY DEF note_seen, ClientState, GroupState
<1> HIDE DEF g
<1>3. a.group = g /\ a.members = st.members /\ a.pending = st.pending
  BY DEF Rekeyed, ClientState
<1>4. Elected(c, a) /\ union_members(a) = union_members(st)
  BY <1>3, SameView
<1> HIDE DEF a
<1>5. Rekey(c, a).out # {}
  BY <1>4 DEF Rekey, Distribute, Outcome
<1>6. ASSUME ~opened
      PROVE  ~is_behind(g) /\ rekeyed = Outcome(a, {}, 0)
  <2>1. rekeyed.out = {}
    BY <1>1, <1>6
  <2> QED
    BY <1>3, <1>4, <1>5, <2>1 DEF rekey_room_if_behind
<1>7. /\ after.mint = 0 /\ after.st.members = st.members /\ after.st.pending = st.pending
      /\ after.st.group.keys = st.group.keys /\ after.st.group.current = st.group.current
  <2>1. CASE opened
    BY <2>1 DEF Outcome
  <2>2. CASE ~opened
    BY <1>2, <1>3, <1>6, <2>2 DEF Outcome
  <2> QED
    BY <2>1, <2>2
<1> HIDE DEF after
<1>8. Elected(c, after.st) /\ union_members(after.st) = union_members(st)
  BY <1>7, SameView
<1>9. ASSUME has_keys(st.group), current_key(st.group) # {},
             should_reseal_to_lagging_member(st.group, m.epoch, TRUE)
      PROVE  FALSE
  <2>1. /\ has_keys(after.st.group) /\ current_key(after.st.group) # {}
        /\ should_reseal_to_lagging_member(after.st.group, m.epoch, TRUE /\ after.mint = 0)
        /\ m.from \notin DOMAIN after.st.pending
    BY <1>7, <1>9 DEF has_keys, current_key, epoch_key, should_reseal_to_lagging_member
  <2>2. reseal.out # {}
    BY <1>8, <2>1 DEF reseal_to_lagging_member, Distribute, Outcome
  <2> QED
    BY <1>1, <2>2
<1> QED
  BY <1>6, <1>9 DEF g

\* A keyer with a key finds every frame of another epoch worth an answer.
LEMMA QuietEpochs ==
  ASSUME NEW n \in Nat, NEW l \in GroupState, NEW e \in Epoch, NEW k,
         Ascending(l, n), Ascending(note_seen(l, e), n), has_keys(l),
         epoch_key(l, e) = {k} \/ ~is_behind(note_seen(l, e)),
         current_key(l) = {} \/ ~should_reseal_to_lagging_member(l, e, TRUE)
  PROVE  e = l.current \/ e + MAX_EPOCH_ADVANCE < l.current
<1>1. l.current \in DOMAIN l.keys /\ \A f \in DOMAIN l.keys : f <= l.current
  BY DEF Ascending
<1>2. /\ l.current \in Int /\ e \in Int /\ MAX_EPOCH_ADVANCE \in Nat
      /\ l.current < RING /\ e < RING /\ l.current >= 0 /\ e >= 0 /\ RING \in Nat
      /\ l.seen_high \in Int
  BY EpochAssumption DEF GroupState, Epoch, NoEpoch
<1>3. CASE e > l.current
  <2>1. e \notin DOMAIN l.keys
    BY <1>1, <1>2, <1>3
  <2>2. epoch_key(l, e) # {k}
    BY <2>1 DEF epoch_key
  <2> DEFINE h == note_seen(l, e)
  <2>3. h.keys = l.keys /\ h.seen_high = Higher(l.seen_high, e)
    BY DEF note_seen, GroupState
  <2>4. h.seen_high \in Int /\ h.seen_high > l.current /\ h.seen_high # NoEpoch
    BY <1>2, <1>3, <2>3 DEF Higher, NoEpoch
  <2>5. h.seen_high \notin DOMAIN h.keys
    BY <1>1, <1>2, <2>3, <2>4
  <2>6. is_behind(h)
    BY <2>4, <2>5 DEF is_behind
  <2> QED
    BY <2>2, <2>6
<1>4. CASE e < l.current
  <2>1. current_key(l) # {}
    BY <1>1 DEF current_key, epoch_key
  <2>2. (l.current - e) % RING = l.current - e
    BY <1>2, <1>4
  <2>3. l.current - e \notin 1 .. MAX_EPOCH_ADVANCE
    BY <2>1, <2>2 DEF should_reseal_to_lagging_member, Wrap
  <2> QED
    BY <1>2, <1>4, <2>3
<1> QED
  BY <1>2, <1>3, <1>4

\* A keyer without a key finds every frame worth an answer.
LEMMA QuietKeyless ==
  ASSUME NEW l \in GroupState, NEW e \in Epoch, NEW k, ~has_keys(l)
  PROVE  epoch_key(l, e) # {k} /\ is_behind(note_seen(l, e))
<1>1. DOMAIN l.keys = {}
  BY DEF has_keys
<1> DEFINE h == note_seen(l, e)
<1>2. h.keys = l.keys /\ h.seen_high = Higher(l.seen_high, e)
  BY DEF note_seen, GroupState
<1>3. h.seen_high \in Int /\ h.seen_high >= 0
  BY <1>2, EpochAssumption DEF Higher, GroupState, Epoch, NoEpoch
<1> QED
  BY <1>1, <1>2, <1>3 DEF epoch_key, is_behind, NoEpoch

\* Once nothing is under way and the members know of each other, the room's epoch
\* is that of its lowest member, the keyer: if anybody has a key the keyer has
\* one, nobody is above it, and a keyed member below it has fallen out of the
\* window of should_reseal_to_lagging_member.
EpochsSettled ==
  Quiescent /\ Informed /\ Unwrapped(Len(minted)) =>
    \A c \in InRoom : CurrentKey(c) # {} =>
      LET keyer == Least(InRoom) IN
      /\ CurrentKey(keyer) # {}
      /\ \/ client[c].group.current = client[keyer].group.current
         \/ client[c].group.current + MAX_EPOCH_ADVANCE < client[keyer].group.current

LEMMA SettledAtKeyer == KeysInv /\ EpochInv => EpochsSettled
<1> SUFFICES ASSUME KeysInv, EpochInv, Quiescent, Informed, Unwrapped(Len(minted)),
                    NEW c \in InRoom, CurrentKey(c) # {},
                    NEW l, l = Least(InRoom)
             PROVE  /\ CurrentKey(l) # {}
                    /\ \/ client[c].group.current = client[l].group.current
                       \/ client[c].group.current + MAX_EPOCH_ADVANCE < client[l].group.current
  BY DEF EpochsSettled
<1>1. /\ client \in [Client -> ClientState] /\ Len(minted) \in Nat
      /\ InRoom \in SUBSET Client
  BY DEF KeysInv, Clients, Minted, Environment, InRoom
<1>2. l \in InRoom /\ \A d \in InRoom : l <= d
  BY <1>1, LeastFacts
<1>3. \A d \in InRoom : d \in Client /\ DOMAIN client[d].pending = {}
  BY <1>1, EmptyMapFacts DEF Quiescent
<1>4. union_members(client[l]) = InRoom \ {l}
  BY <1>2, RoomAssumption DEF Informed, union_members
<1>5. CASE c = l
  BY <1>5
<1>6. CASE c # l
  <2> DEFINE g == client[l].group
             e == client[c].group.current
             m == Frame(c)
             o == OnFrame(l, client[l], m, TRUE)
  <2>1. /\ l \in Client /\ c \in Client /\ client[l] \in ClientState
        /\ client[c].group \in GroupState /\ g \in GroupState /\ e \in Epoch
    BY <1>1, <1>2 DEF ClientState, GroupState
  <2>2. Elected(l, client[l])
    <3>1. l <= l
      BY <1>2
    <3> QED
      BY <1>2, <1>4, <3>1 DEF Elected, is_elected_keyer
  <2>3. c \in union_members(client[l])
    BY <1>4, <1>6
  <2>4. Ascending(g, Len(minted)) /\ Ascending(client[c].group, Len(minted))
    BY <2>1 DEF EpochInv
  <2>5. e < Len(minted)
    <3>1. has_keys(client[c].group)
      BY DEF CurrentKey, current_key, epoch_key, has_keys
    <3> QED
      BY <1>1, <2>1, <2>4, <3>1, CurrentBelow
  <2>6. Ascending(note_seen(g, e), Len(minted))
    BY <1>1, <2>1, <2>4, <2>5, NoteSeenAscends
  <2>7. o.out = {}
    <3>1. \E s \in Server : {c, l} \subseteq present[s]
      BY <1>2, RoomAssumption DEF Informed
    <3> QED
      BY <1>2, <1>6, <3>1 DEF Quiescent
  <2>8. m.from = c /\ m.epoch = e
    BY DEF Frame
  <2> HIDE DEF m
  <2>9. /\ epoch_key(g, m.epoch) = {m.key} \/ ~is_behind(note_seen(g, m.epoch))
        /\ \/ ~has_keys(g) \/ current_key(g) = {}
           \/ ~should_reseal_to_lagging_member(g, m.epoch, TRUE)
    <3>1. DOMAIN client[l].pending = {}
      BY <1>2, <1>3
    <3> QED
      BY <2>1, <2>2, <2>3, <2>7, <2>8, <3>1, QuietFrame
  <2> HIDE DEF g, e, o
  <2>10. has_keys(g)
    BY <2>1, <2>8, <2>9, QuietKeyless
  <2>11. e = g.current \/ e + MAX_EPOCH_ADVANCE < g.current
    BY <1>1, <2>1, <2>4, <2>6, <2>8, <2>9, <2>10, QuietEpochs
  <2>12. CurrentKey(l) # {}
    BY <2>4, <2>10 DEF Ascending, CurrentKey, current_key, epoch_key, g
  <2> QED
    BY <2>11, <2>12 DEF g, e
<1> QED
  BY <1>5, <1>6

\* Where the recovery of rekey_room_if_behind and reseal_to_lagging_member stops
\* and the members know of each other, those with keys are on the keyer's epoch,
\* or too far below it for the keyer's window, whatever mix of handovers, losses,
\* stale rosters and restarts led there.
THEOREM EpochsComeToRest == Spec => []EpochsSettled
BY SettledAtKeyer, GroupKeysInvariant, EpochInvariant, PTL

\* The epochs so far fit into one window of accept_group_key_epoch.
WithinWindow == Unwrapped(Len(minted)) /\ Len(minted) <= MAX_EPOCH_ADVANCE + 1

\* NoEpochWedge for a room of any size: members that know of each other are never
\* left on different epochs, nor their keyer without a key, while the recovery of
\* inbound.rs and room_session.rs has no move.  It says nothing of a member
\* without a key, nor of two keys under one epoch number.
THEOREM NoWedgeOfEpochs == Spec => [](WithinWindow => NoEpochWedge)
<1>1. KeysInv /\ EpochInv => (WithinWindow => NoEpochWedge)
  <2> SUFFICES ASSUME KeysInv, EpochInv, Unwrapped(Len(minted)),
                      Len(minted) <= MAX_EPOCH_ADVANCE + 1, Quiescent, Informed,
                      NEW c \in InRoom, CurrentKey(c) # {},
                      NEW l, l = Least(InRoom)
               PROVE  /\ CurrentKey(l) # {}
                      /\ client[c].group.current = client[l].group.current
    BY DEF WithinWindow, NoEpochWedge
  <2>1. /\ client \in [Client -> ClientState]
        /\ Len(minted) \in Nat /\ InRoom \in SUBSET Client
    BY DEF KeysInv, Clients, Minted, Environment, InRoom
  <2>2. /\ CurrentKey(l) # {}
        /\ \/ client[c].group.current = client[l].group.current
           \/ client[c].group.current + MAX_EPOCH_ADVANCE < client[l].group.current
    BY SettledAtKeyer DEF EpochsSettled
  <2>3. l \in InRoom
    BY <2>1, LeastFacts
  <2>4. ASSUME NEW x \in InRoom, CurrentKey(x) # {}
        PROVE  /\ client[x].group.current \in Int /\ client[x].group.current >= 0
               /\ client[x].group.current < Len(minted)
    <3>1. client[x].group \in GroupState /\ Ascending(client[x].group, Len(minted))
      BY <2>1 DEF EpochInv, ClientState
    <3>2. has_keys(client[x].group)
      BY <2>4 DEF CurrentKey, current_key, epoch_key, has_keys
    <3> QED
      BY <2>1, <3>1, <3>2, CurrentBelow DEF GroupState, Epoch
  <2> QED
    BY <2>1, <2>2, <2>3, <2>4, EpochAssumption
<1> QED
  BY <1>1, GroupKeysInvariant, EpochInvariant, PTL
=============================================================================
