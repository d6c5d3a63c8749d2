----------------------------- MODULE LayersProofs -----------------------------
(***************************************************************************)
(* The open order, the pages and the snapshot, for any works, artists,     *)
(* tags, depth and z.  The invariant: the order holds the key of each      *)
(* layer that is there and stays, later keys being of higher layers, and   *)
(* only the last level and the last page ever slide out; so the layer on   *)
(* top of the order is the one on top of the screen, each way to close     *)
(* names the last of its kind, and what a close takes out of the order,    *)
(* the pages and their states is the same layer.                           *)
(***************************************************************************)
EXTENDS Layers, ListsProofs, WellFoundedInduction

-----------------------------------------------------------------------------
(* Keys, and sequences of them.                                            *)

AllKeys == {StackKey(i) : i \in Nat \ {0}} \cup {SearchKey(i) : i \in Nat \ {0}} \cup {ArtistKey}

\* A later key is of a higher layer, and only the artist's is there twice: z is of
\* its last place.
IsOrdered(keys, z) ==
  \A p, q \in DOMAIN keys :
    /\ keys[p] = keys[q] => p = q \/ keys[p] = ArtistKey
    /\ p < q => \/ z[keys[p]] < z[keys[q]]
                \/ keys[p] = ArtistKey /\ \E r \in DOMAIN keys : p < r /\ keys[r] = ArtistKey

LEMMA KeysDiffer ==
  /\ \A i, j \in Nat : /\ StackKey(i) = StackKey(j) => i = j
                       /\ SearchKey(i) = SearchKey(j) => i = j
                       /\ StackKey(i) # SearchKey(j)
                       /\ StackKey(i) # ArtistKey /\ SearchKey(i) # ArtistKey
                       /\ StackKey(i)[1] = "stack" /\ SearchKey(i)[1] = "search"
                       /\ StackKey(i)[2] = i /\ SearchKey(i)[2] = i
  /\ ArtistKey[1] = "artist"
  BY DEF StackKey, SearchKey, ArtistKey

LEMMA AppendOrdered ==
  ASSUME NEW keys \in Seq(AllKeys), NEW key \in AllKeys, NEW z, NEW y, IsOrdered(keys, z),
         \A p \in DOMAIN keys : keys[p] = key => key = ArtistKey,
         \A p \in DOMAIN keys : keys[p] # key => y[keys[p]] = z[keys[p]] /\ z[keys[p]] < y[key]
  PROVE  IsOrdered(Append(keys, key), y)
<1>1. PICK n \in Nat : n = Len(keys) /\ DOMAIN keys = 1 .. n
  OBVIOUS
<1> PICK r : r = Append(keys, key)
  OBVIOUS
<1>2. DOMAIN r = 1 .. (n + 1) /\ r[n + 1] = key /\ \A i \in 1 .. n : r[i] = keys[i]
  BY <1>1, AppendProperties
<1>3. ASSUME NEW p \in DOMAIN r, NEW q \in DOMAIN r, r[p] = r[q]
      PROVE  p = q \/ r[p] = ArtistKey
  <2>1. (p \in 1 .. n \/ p = n + 1) /\ (q \in 1 .. n \/ q = n + 1)
    BY <1>2
  <2> QED
    BY <1>1, <1>2, <1>3, <2>1 DEF IsOrdered
<1>4. ASSUME NEW p \in DOMAIN r, NEW q \in DOMAIN r, p < q
      PROVE  \/ y[r[p]] < y[r[q]]
             \/ r[p] = ArtistKey /\ \E s \in DOMAIN r : p < s /\ r[s] = ArtistKey
  <2>1. p \in 1 .. n /\ (q \in 1 .. n \/ q = n + 1) /\ n + 1 \in DOMAIN r /\ p < n + 1
    BY <1>2, <1>4
  <2>2. CASE r[p] = key
    <3>1. r[p] = ArtistKey /\ r[n + 1] = ArtistKey
      BY <1>1, <1>2, <2>1, <2>2
    <3> QED
      BY <2>1, <3>1
  <2>3. CASE r[p] # key /\ q = n + 1
    BY <1>1, <1>2, <2>1, <2>3
  <2>4. CASE r[p] # key /\ q \in 1 .. n
    <3>1. \/ z[keys[p]] < z[keys[q]]
          \/ keys[p] = ArtistKey /\ \E s \in DOMAIN keys : p < s /\ keys[s] = ArtistKey
      BY <1>1, <1>4, <2>1, <2>4 DEF IsOrdered
    <3>2. CASE z[keys[p]] < z[keys[q]]
      <4>1. CASE keys[q] # key
        BY <1>1, <1>2, <2>1, <2>4, <3>2, <4>1
      <4>2. CASE keys[q] = key
        BY <1>1, <1>2, <2>1, <2>4, <4>2
      <4> QED
        BY <4>1, <4>2
    <3>3. CASE keys[p] = ArtistKey /\ \E s \in DOMAIN keys : p < s /\ keys[s] = ArtistKey
      <4>1. PICK s \in 1 .. n : p < s /\ keys[s] = ArtistKey
        BY <1>1, <3>3
      <4> QED
        BY <1>2, <2>1, <3>3, <4>1
    <3> QED
      BY <3>1, <3>2, <3>3
  <2> QED
    BY <2>1, <2>2, <2>3, <2>4
<1> QED
  BY <1>3, <1>4 DEF IsOrdered

\* The places of the keys that are of K, and what has not moved among them.
PlacesOf(keys, K) == {i \in DOMAIN keys : keys[i] \in K}
SameOn(keys, K, z, y) == \A p \in DOMAIN keys : keys[p] \in K => y[keys[p]] = z[keys[p]]

\* What is left of the keys when those of a kind go.
LEMMA FilterOrdered ==
  ASSUME NEW keys \in Seq(AllKeys), NEW K, NEW z, NEW y, IsOrdered(keys, z),
         SameOn(keys, K, z, y), NEW keep, keep = PlacesOf(keys, K), NEW r, r = Filtered(keys, keep)
  PROVE  /\ r \in Seq(AllKeys) /\ IsOrdered(r, y)
         /\ Range(r) = Range(keys) \cap K
<1>1. keep \in SUBSET DOMAIN keys /\ \A i \in DOMAIN keys : i \in keep <=> keys[i] \in K
  BY DEF PlacesOf
<1>2. r \in Seq(AllKeys) /\ \E at : Leaves(r, keys, keep, at)
  BY <1>1, FilterLeaves
<1>3. PICK at : Leaves(r, keys, keep, at)
  BY <1>2
<1>4. /\ \A k \in DOMAIN r : at[k] \in keep /\ r[k] = keys[at[k]]
      /\ \A k, l \in DOMAIN r : k < l => at[k] < at[l]
      /\ \A i \in keep : \E k \in DOMAIN r : at[k] = i
  BY <1>3 DEF Leaves
<1>5. \A k \in DOMAIN r : at[k] \in DOMAIN keys /\ r[k] \in K /\ k \in Int
  BY <1>1, <1>2, <1>4
<1>10. DOMAIN keys \subseteq Int
  OBVIOUS
<1>6. ASSUME NEW p \in DOMAIN r, NEW q \in DOMAIN r, at[p] < at[q] PROVE p < q
  <2>1. p < q \/ p = q \/ q < p
    BY <1>5
  <2>2. at[p] \in Int /\ at[q] \in Int
    BY <1>5, <1>10
  <2>3. ~(q < p) /\ p # q
    BY <1>4, <1>6, <2>2
  <2> QED
    BY <2>1, <2>3
<1>7. ASSUME NEW p \in DOMAIN r, NEW q \in DOMAIN r, r[p] = r[q] PROVE p = q \/ r[p] = ArtistKey
  <2>1. at[p] = at[q] \/ r[p] = ArtistKey
    BY <1>4, <1>5, <1>7 DEF IsOrdered
  <2>2. at[p] = at[q] => p = q
    <3>1. p < q \/ p = q \/ q < p
      BY <1>5
    <3> QED
      BY <1>4, <1>5, <1>10, <3>1
  <2> QED
    BY <2>1, <2>2
<1>8. ASSUME NEW p \in DOMAIN r, NEW q \in DOMAIN r, p < q
      PROVE  \/ y[r[p]] < y[r[q]]
             \/ r[p] = ArtistKey /\ \E s \in DOMAIN r : p < s /\ r[s] = ArtistKey
  <2>1. \/ z[keys[at[p]]] < z[keys[at[q]]]
        \/ keys[at[p]] = ArtistKey /\ \E s \in DOMAIN keys : at[p] < s /\ keys[s] = ArtistKey
    BY <1>4, <1>5, <1>8 DEF IsOrdered
  <2>2. CASE z[keys[at[p]]] < z[keys[at[q]]]
    <3>1. y[r[p]] = z[keys[at[p]]] /\ y[r[q]] = z[keys[at[q]]]
      BY <1>4, <1>5 DEF SameOn
    <3> QED
      BY <2>2, <3>1
  <2>3. CASE keys[at[p]] = ArtistKey /\ \E s \in DOMAIN keys : at[p] < s /\ keys[s] = ArtistKey
    <3>1. PICK s \in DOMAIN keys : at[p] < s /\ keys[s] = ArtistKey
      BY <2>3
    <3>2. s \in keep /\ r[p] = ArtistKey
      BY <1>1, <1>4, <1>5, <2>3, <3>1
    <3>3. PICK t \in DOMAIN r : at[t] = s
      BY <1>4, <3>2
    <3>4. p < t /\ r[t] = ArtistKey
      BY <1>4, <1>6, <3>1, <3>3
    <3> QED
      BY <3>2, <3>4
  <2> QED
    BY <2>1, <2>2, <2>3
<1>9. Range(r) = Range(keys) \cap K
  <2>1. ASSUME NEW k \in DOMAIN r PROVE r[k] \in Range(keys) \cap K
    BY <1>4, <1>5 DEF Range
  <2>2. ASSUME NEW i \in DOMAIN keys, keys[i] \in K PROVE \E k \in DOMAIN r : r[k] = keys[i]
    <3>1. PICK k \in DOMAIN r : at[k] = i
      BY <1>1, <1>4, <2>2
    <3> QED
      BY <1>4, <3>1
  <2>3. Range(r) \subseteq Range(keys) \cap K
    BY <2>1 DEF Range
  <2>4. Range(keys) \cap K \subseteq Range(r)
    <3>1. SUFFICES ASSUME NEW i \in DOMAIN keys, keys[i] \in K PROVE keys[i] \in Range(r)
      BY DEF Range
    <3>2. PICK k \in DOMAIN r : r[k] = keys[i]
      BY <2>2, <3>1
    <3> QED
      BY <3>2 DEF Range
  <2> QED
    BY <2>3, <2>4
<1> QED
  BY <1>2, <1>7, <1>8, <1>9 DEF IsOrdered

\* The last of some positions, and the greatest of some numbers.
LEMMA LastOf ==
  ASSUME NEW n \in Nat, NEW S \in SUBSET (1 .. n), S # {}
  PROVE  \E m \in S : \A i \in S : i <= m
<1> DEFINE T == {n - i : i \in S}
<1>1. T \subseteq Nat /\ T # {}
  <2>1. \A i \in S : n - i \in Nat
    OBVIOUS
  <2> QED
    BY <2>1
<1>2. PICK t \in T : \A u \in T : ~(<<u, t>> \in OpToRel(<, Nat))
  <2> HIDE DEF T
  <2> QED
    BY <1>1, NatLessThanWellFounded, WFMin, Zenon
<1>3. \A u \in T : ~(u < t)
  <2> HIDE DEF T
  <2> QED
    BY <1>1, <1>2, Zenon DEF OpToRel
<1>4. PICK m \in S : t = n - m
  OBVIOUS
<1>5. ASSUME NEW i \in S PROVE i <= m
  <2>1. ~(n - i < n - m)
    BY <1>3, <1>4
  <2> QED
    BY <2>1
<1> QED
  BY <1>5

LEMMA MaxIs ==
  ASSUME NEW S \in SUBSET Nat, NEW m \in S, \A i \in S : i <= m
  PROVE  Max(S) = m
<1>1. \E x \in S : \A i \in S : x >= i
  OBVIOUS
<1>2. PICK x : x = Max(S)
  OBVIOUS
<1>3. x \in S /\ \A i \in S : x >= i
  BY <1>1, <1>2 DEF Max
<1> QED
  BY <1>2, <1>3

\* A filter that keeps the first m entries cuts the list there.
LEMMA KeepFirst ==
  ASSUME NEW S, NEW seq \in Seq(S), NEW m \in 0 .. Len(seq), NEW keep, keep = 1 .. m
  PROVE  Filtered(seq, keep) = SubSeq(seq, 1, m)
<1>1. m \in Nat
  OBVIOUS
<1>2. Cardinality(keep) = m /\ \A k \in 1 .. m : At(keep, k) = k
  BY <1>1, PlacesCount
<1>3. Filtered(seq, keep) = [k \in 1 .. m |-> seq[At(keep, k)]]
  BY <1>2 DEF Filtered
<1>4. Filtered(seq, keep) = [k \in 1 .. m |-> seq[k]]
  BY <1>2, <1>3
<1> QED
  BY <1>4

LEMMA FrontOf ==
  ASSUME NEW S, NEW seq \in Seq(S), seq # <<>>
  PROVE  /\ Front(seq) \in Seq(S) /\ RemoveAt(seq, Len(seq)) = Front(seq)
         /\ Len(seq) \in Nat \ {0} /\ DOMAIN Front(seq) = 1 .. Len(seq) - 1
         /\ \A i \in 1 .. Len(seq) - 1 : Front(seq)[i] = seq[i]
<1>1. PICK n \in Nat \ {0} : n = Len(seq) /\ DOMAIN seq = 1 .. n
  OBVIOUS
<1>2. n - 1 \in Nat /\ n - 1 <= n
  OBVIOUS
<1>3. Front(seq) = SubSeq(seq, 1, n - 1)
  BY <1>1 DEF Front
<1>4. Front(seq) \in Seq(S) /\ Len(Front(seq)) = n - 1 /\ \A i \in 1 .. n - 1 : Front(seq)[i] = seq[i]
  BY <1>1, <1>2, <1>3
<1>5. SubSeq(seq, n + 1, n) = <<>>
  BY <1>1
<1>6. RemoveAt(seq, n) = Front(seq)
  BY <1>1, <1>3, <1>4, <1>5, ConcatEmptySeq DEF RemoveAt
<1> QED
  BY <1>1, <1>4, <1>6

LEMMA Entry ==
  ASSUME NEW S, NEW seq \in Seq(S)
  PROVE  /\ Len(seq) \in Nat /\ DOMAIN seq = 1 .. Len(seq) /\ DOMAIN seq \subseteq Nat \ {0}
         /\ \A i \in DOMAIN seq : seq[i] \in S
         /\ seq = <<>> <=> DOMAIN seq = {}
<1>1. Len(seq) \in Nat /\ DOMAIN seq = 1 .. Len(seq) /\ \A i \in DOMAIN seq : seq[i] \in S
  OBVIOUS
<1>2. seq = <<>> <=> Len(seq) = 0
  BY EmptySeq
<1> PICK n \in Nat : n = Len(seq)
  BY <1>1
<1>3. (n # 0 => 1 \in DOMAIN seq) /\ \A i \in DOMAIN seq : i \in Nat \ {0} /\ n # 0
  BY <1>1
<1>4. DOMAIN seq = {} <=> n = 0
  BY <1>3, Zenon
<1> QED
  BY <1>1, <1>2, <1>3, <1>4

LEMMA NonEmptyAppend ==
  ASSUME NEW S, NEW seq \in Seq(S), NEW e \in S
  PROVE  /\ Append(seq, e) \in Seq(S) /\ Len(Append(seq, e)) = Len(seq) + 1
         /\ Len(seq) \in Nat /\ DOMAIN seq = 1 .. Len(seq)
         /\ DOMAIN Append(seq, e) = 1 .. Len(seq) + 1
         /\ Append(seq, e)[Len(seq) + 1] = e
         /\ \A i \in 1 .. Len(seq) : Append(seq, e)[i] = seq[i]
  BY AppendProperties

-----------------------------------------------------------------------------
(* What is true between the handlers.                                      *)

Level == [work : Works, z : Nat \ {0}]
Page == [tag : Tags \cup {None}, z : Nat \ {0}]
LayersTypes ==
  /\ stack \in Seq(Level)
  /\ searches \in Seq(Page)
  /\ artist = None \/ artist \in [id : Artists, z : Nat \ {0}]
  /\ {closingDepth, artistClosing, closingSearchZ, layerZ} \subseteq Nat
  /\ layerSeq \in Seq(AllKeys)
  /\ searchTimers = <<>> \/ \E t \in [z : Nat \ {0}, idx : Nat] : searchTimers = <<t>>

\* The z of the layer of a key.
KeyZ == [key \in AllKeys |-> IF key = ArtistKey THEN artist.z
                             ELSE IF key[1] = "search" THEN searches[key[2]].z
                             ELSE stack[key[2]].z]

\* A key is in the order as long as its layer is there and stays.
ArtistStays == artist # None /\ (Replaced \/ artistClosing = 0)
PagesStay == {i \in DOMAIN searches : searches[i].z # closingSearchZ}
KeysAgree ==
  /\ \A i \in Nat \ {0} : StackKey(i) \in Range(layerSeq) <=> i \in DOMAIN stack /\ i # closingDepth
  /\ \A i \in Nat \ {0} : SearchKey(i) \in Range(layerSeq) <=> i \in PagesStay
  /\ ArtistKey \in Range(layerSeq) <=> ArtistStays

\* No z is above the counter, and a later page or level is above an earlier one.
Climbing ==
  /\ \A i, j \in DOMAIN searches : i < j => searches[i].z < searches[j].z
  /\ \A i, j \in DOMAIN stack : i < j => stack[i].z < stack[j].z
  /\ \A i \in DOMAIN searches : searches[i].z <= layerZ
  /\ \A i \in DOMAIN stack : stack[i].z <= layerZ
  /\ artist # None => artist.z <= layerZ
  /\ artistClosing <= layerZ

\* Only the last level and the last page slide out, and a page with its timer.
SlidesOut ==
  /\ closingDepth # 0 => stack = <<>> \/ closingDepth = Len(stack)
  /\ artistClosing # 0 => artist # None /\ artistClosing <= artist.z
  /\ closingSearchZ # 0 =>
       /\ searches # <<>> /\ closingSearchZ = searches[Len(searches)].z
       /\ searchTimers = <<[z |-> closingSearchZ, idx |-> Len(searches)]>>

LayersInv ==
  /\ LayersTypes /\ KeysAgree /\ IsOrdered(layerSeq, KeyZ) /\ Climbing /\ SlidesOut
  /\ searchStates = TagsOf(searches)

\* The snapshot a reload may find names its layers, pages and levels once and in order.
SnapOK(s) ==
  /\ s.order \in Seq(AllKeys)
  /\ \A i \in Nat \ {0} : StackKey(i) \in Range(s.order) <=> i \in DOMAIN s.stack
  /\ \A i \in Nat \ {0} : SearchKey(i) \in Range(s.order) <=> i \in DOMAIN s.states
  /\ ArtistKey \in Range(s.order) <=> s.artist # None
  /\ s.stack \in Seq(Works) /\ s.states \in Seq(Tags \cup {None})
  /\ s.states = s.tags /\ s.artist \in Artists \cup {None}
  /\ \A p, q \in DOMAIN s.order :
       /\ s.order[p] = s.order[q] => p = q \/ s.order[p] = ArtistKey
       /\ \A i, j \in Nat \ {0} :
            /\ p < q /\ s.order[p] = SearchKey(i) /\ s.order[q] = SearchKey(j) => i < j
            /\ p < q /\ s.order[p] = StackKey(i) /\ s.order[q] = StackKey(j) => i < j
\* It holds no layer the user has asked to close.
Behind(s) ==
  /\ \A i \in DOMAIN s.stack : /\ i \in DOMAIN stack /\ i # closingDepth
                              /\ s.stack[i] = stack[i].work
  /\ \A i \in DOMAIN s.tags : i \in PagesStay /\ s.tags[i] = searches[i].tag
  /\ s.artist # None => ArtistStays
SnapInv == user \in Reloads => SnapOK(snap) /\ Behind(snap)

KeyZsOK ==
  /\ \A i \in Nat \ {0} : /\ StackKey(i) \in AllKeys /\ SearchKey(i) \in AllKeys
                          /\ KeyZ[StackKey(i)] = stack[i].z /\ KeyZ[SearchKey(i)] = searches[i].z
  /\ ArtistKey \in AllKeys /\ KeyZ[ArtistKey] = artist.z

LEMMA KeyZs == KeyZsOK
<1>1. ArtistKey \in AllKeys
  BY DEF AllKeys
<1>2. ASSUME NEW i \in Nat \ {0} PROVE StackKey(i) \in AllKeys /\ SearchKey(i) \in AllKeys
  BY DEF AllKeys
<1>3. ASSUME NEW i \in Nat \ {0} PROVE KeyZ[StackKey(i)] = stack[i].z
  BY <1>2, KeysDiffer DEF KeyZ
<1>4. ASSUME NEW i \in Nat \ {0} PROVE KeyZ[SearchKey(i)] = searches[i].z
  BY <1>2, KeysDiffer DEF KeyZ
<1>5. KeyZ[ArtistKey] = artist.z
  BY <1>1 DEF KeyZ
<1> QED
  BY <1>1, <1>2, <1>3, <1>4, <1>5 DEF KeyZsOK

LEMMA KeyZsNext == KeyZsOK'
  BY KeyZs, PTL

\* Every z is a number between 1 and the counter.
ZsOK ==
  /\ \A i \in DOMAIN stack : stack[i] \in Level /\ stack[i].z \in Nat \ {0} /\ stack[i].z <= layerZ
  /\ \A i \in DOMAIN searches : /\ searches[i] \in Page
                                /\ searches[i].z \in Nat \ {0} /\ searches[i].z <= layerZ
  /\ artist # None => artist.z \in Nat \ {0} /\ artist.z <= layerZ
  /\ layerZ \in Nat /\ artistClosing \in Nat /\ artistClosing <= layerZ

LEMMA Zs == ASSUME LayersInv PROVE ZsOK
<1>1. stack \in Seq(Level) /\ searches \in Seq(Page)
  BY DEF LayersInv, LayersTypes
<1>2. \A i \in DOMAIN stack : stack[i] \in Level
  BY <1>1, Entry, Zenon
<1>3. \A i \in DOMAIN searches : searches[i] \in Page
  BY <1>1, Entry, Zenon
<1>4. artist # None => artist.z \in Nat \ {0} /\ artist.z <= layerZ
  BY DEF LayersInv, LayersTypes, Climbing
<1>5. layerZ \in Nat /\ artistClosing \in Nat /\ artistClosing <= layerZ
  BY DEF LayersInv, LayersTypes, Climbing
<1>6. \A i \in DOMAIN stack : stack[i].z \in Nat \ {0} /\ stack[i].z <= layerZ
  BY <1>2 DEF LayersInv, Climbing, Level
<1>7. \A i \in DOMAIN searches : searches[i].z \in Nat \ {0} /\ searches[i].z <= layerZ
  BY <1>3 DEF LayersInv, Climbing, Page
<1> QED
  BY <1>2, <1>3, <1>4, <1>5, <1>6, <1>7 DEF ZsOK

\* Nothing in the order is above the counter.
LEMMA KeysBelow ==
  ASSUME LayersInv, NEW key \in Range(layerSeq)
  PROVE  /\ key \in AllKeys /\ KeyZ[key] \in Nat \ {0} /\ KeyZ[key] <= layerZ
         /\ \/ \E i \in DOMAIN stack : i \in Nat \ {0} /\ key = StackKey(i) /\ i # closingDepth
            \/ \E i \in DOMAIN searches : i \in Nat \ {0} /\ key = SearchKey(i) /\ i \in PagesStay
            \/ key = ArtistKey /\ ArtistStays
<1>1. key \in AllKeys
  BY DEF LayersInv, LayersTypes, Range
<1>2. DOMAIN stack \subseteq Nat \ {0} /\ DOMAIN searches \subseteq Nat \ {0}
  BY DEF LayersInv, LayersTypes
<1>3. CASE \E i \in Nat \ {0} : key = StackKey(i)
  <2>1. PICK i \in Nat \ {0} : key = StackKey(i)
    BY <1>3
  <2>2. i \in DOMAIN stack /\ i # closingDepth
    BY <2>1 DEF LayersInv, KeysAgree
  <2>3. stack[i].z \in Nat \ {0} /\ stack[i].z <= layerZ
    BY <2>2, Zs DEF ZsOK
  <2> QED
    BY <1>1, <2>1, <2>2, <2>3, KeyZs DEF KeyZsOK
<1>4. CASE \E i \in Nat \ {0} : key = SearchKey(i)
  <2>1. PICK i \in Nat \ {0} : key = SearchKey(i)
    BY <1>4
  <2>2. i \in DOMAIN searches /\ i \in PagesStay
    BY <2>1 DEF LayersInv, KeysAgree, PagesStay
  <2>3. searches[i].z \in Nat \ {0} /\ searches[i].z <= layerZ
    BY <2>2, Zs DEF ZsOK
  <2> QED
    BY <1>1, <2>1, <2>2, <2>3, KeyZs DEF KeyZsOK
<1>5. CASE key = ArtistKey
  <2>1. ArtistStays
    BY <1>5 DEF LayersInv, KeysAgree
  <2>2. artist.z \in Nat \ {0} /\ artist.z <= layerZ
    BY <2>1, Zs DEF ZsOK, ArtistStays
  <2> QED
    BY <1>1, <1>5, <2>1, <2>2, KeyZs DEF KeyZsOK
<1> QED
  BY <1>1, <1>3, <1>4, <1>5 DEF AllKeys

-----------------------------------------------------------------------------
(* What a handler does to the order.                                       *)

LEMMA SameOrder ==
  ASSUME LayersInv, layerSeq' = layerSeq, \A k \in Range(layerSeq) : KeyZ'[k] = KeyZ[k]
  PROVE  layerSeq' \in Seq(AllKeys) /\ IsOrdered(layerSeq, KeyZ)' /\ Range(layerSeq') = Range(layerSeq)
<1>1. layerSeq \in Seq(AllKeys) /\ IsOrdered(layerSeq, KeyZ)
  BY DEF LayersInv, LayersTypes
<1> PICK keys, z, y : keys = layerSeq /\ z = KeyZ /\ y = KeyZ'
  OBVIOUS
<1>2. \A p \in DOMAIN keys : y[keys[p]] = z[keys[p]]
  BY DEF Range
<1>3. IsOrdered(keys, y)
  BY <1>1, <1>2 DEF IsOrdered
<1> QED
  BY <1>1, <1>3

LEMMA OneMore ==
  ASSUME LayersInv, NEW key \in AllKeys, layerSeq' = Append(layerSeq, key),
         key \in Range(layerSeq) => key = ArtistKey,
         \A k \in Range(layerSeq) : k # key => KeyZ'[k] = KeyZ[k] /\ KeyZ[k] < KeyZ'[key]
  PROVE  /\ layerSeq' \in Seq(AllKeys) /\ IsOrdered(layerSeq, KeyZ)'
         /\ Range(layerSeq') = Range(layerSeq) \cup {key}
<1>1. layerSeq \in Seq(AllKeys) /\ IsOrdered(layerSeq, KeyZ)
  BY DEF LayersInv, LayersTypes
<1> PICK keys, z, y, r : keys = layerSeq /\ z = KeyZ /\ y = KeyZ' /\ r = Append(keys, key)
  OBVIOUS
<1>2. /\ \A p \in DOMAIN keys : keys[p] = key => key = ArtistKey
      /\ \A p \in DOMAIN keys : keys[p] # key => y[keys[p]] = z[keys[p]] /\ z[keys[p]] < y[key]
  BY DEF Range
<1>3. IsOrdered(r, y)
  BY <1>1, <1>2, AppendOrdered
<1>4. /\ r \in Seq(AllKeys) /\ DOMAIN r = 1 .. Len(keys) + 1 /\ DOMAIN keys = 1 .. Len(keys)
      /\ r[Len(keys) + 1] = key /\ \A i \in 1 .. Len(keys) : r[i] = keys[i]
      /\ Len(keys) \in Nat
  BY <1>1, NonEmptyAppend
<1>5. Range(r) = Range(keys) \cup {key}
  BY <1>4 DEF Range
<1> QED
  BY <1>3, <1>4, <1>5

LEMMA SomeLess ==
  ASSUME LayersInv, NEW K, layerSeq' = Filtered(layerSeq, PlacesOf(layerSeq, K)),
         \A k \in Range(layerSeq) \cap K : KeyZ'[k] = KeyZ[k]
  PROVE  /\ layerSeq' \in Seq(AllKeys) /\ IsOrdered(layerSeq, KeyZ)'
         /\ Range(layerSeq') = Range(layerSeq) \cap K
<1>1. layerSeq \in Seq(AllKeys) /\ IsOrdered(layerSeq, KeyZ)
  BY DEF LayersInv, LayersTypes
<1> PICK keys, z, y : keys = layerSeq /\ z = KeyZ /\ y = KeyZ'
  OBVIOUS
<1>2. SameOn(keys, K, z, y)
  BY DEF Range, SameOn
<1> PICK keep : keep = PlacesOf(keys, K)
  OBVIOUS
<1> PICK r : r = Filtered(keys, keep)
  OBVIOUS
<1>4. keys \in Seq(AllKeys) /\ IsOrdered(keys, z)
  BY <1>1
<1>3. r \in Seq(AllKeys) /\ IsOrdered(r, y) /\ Range(r) = Range(keys) \cap K
  BY <1>2, <1>4, FilterOrdered, Zenon
<1> QED
  BY <1>3

LEMMA WithoutOne ==
  ASSUME LayersInv, NEW key, layerSeq' = Without(key),
         \A k \in Range(layerSeq) \ {key} : KeyZ'[k] = KeyZ[k]
  PROVE  /\ layerSeq' \in Seq(AllKeys) /\ IsOrdered(layerSeq, KeyZ)'
         /\ Range(layerSeq') = Range(layerSeq) \ {key}
<1>1. \A i \in DOMAIN layerSeq : layerSeq[i] \in AllKeys
  BY Entry DEF LayersInv, LayersTypes
<1>2. layerSeq' = Filtered(layerSeq, PlacesOf(layerSeq, AllKeys \ {key}))
  <2>1. {i \in DOMAIN layerSeq : layerSeq[i] # key}
          = PlacesOf(layerSeq, AllKeys \ {key})
    BY <1>1 DEF PlacesOf
  <2> QED
    BY <2>1 DEF Without
<1>3. Range(layerSeq) \subseteq AllKeys
  BY <1>1 DEF Range
<1>4. \A k \in Range(layerSeq) \cap (AllKeys \ {key}) : KeyZ'[k] = KeyZ[k]
  OBVIOUS
<1>5. /\ layerSeq' \in Seq(AllKeys) /\ IsOrdered(layerSeq, KeyZ)'
      /\ Range(layerSeq') = Range(layerSeq) \cap (AllKeys \ {key})
  BY <1>2, <1>4, SomeLess
<1> QED
  BY <1>3, <1>5

\* A level or page that stays is left as it is.
LevelsStill == \A i \in DOMAIN stack : i # closingDepth => stack'[i] = stack[i]
PagesStill == \A i \in PagesStay : searches'[i] = searches[i]
\* Every layer that stays is there afterwards.
Grown == LevelsStill /\ PagesStill /\ Range(layerSeq) \subseteq Range(layerSeq')

LEMMA SameZ ==
  ASSUME LayersInv, NEW k \in Range(layerSeq), LevelsStill, PagesStill, k = ArtistKey => artist' = artist
  PROVE  KeyZ'[k] = KeyZ[k]
<1>1. CASE \E i \in DOMAIN stack : i \in Nat \ {0} /\ k = StackKey(i) /\ i # closingDepth
  BY <1>1, KeyZs, KeyZsNext DEF KeyZsOK, LevelsStill
<1>2. CASE \E i \in DOMAIN searches : i \in Nat \ {0} /\ k = SearchKey(i) /\ i \in PagesStay
  BY <1>2, KeyZs, KeyZsNext DEF KeyZsOK, PagesStill
<1>3. CASE k = ArtistKey
  BY <1>3, KeyZs, KeyZsNext DEF KeyZsOK
<1> QED
  BY <1>1, <1>2, <1>3, KeysBelow

\* The keys are of three kinds, each with the numbers its layers have.
LEMMA Agree ==
  ASSUME KeysAgree
  PROVE  /\ \A i \in Nat \ {0} : StackKey(i) \in Range(layerSeq) <=> i \in DOMAIN stack /\ i # closingDepth
         /\ \A i \in Nat \ {0} : SearchKey(i) \in Range(layerSeq) <=> i \in PagesStay
         /\ ArtistKey \in Range(layerSeq) <=> ArtistStays
  BY DEF KeysAgree

-----------------------------------------------------------------------------
(* Every handler keeps it: the related stack.                              *)

LEMMA PushKeeps == ASSUME LayersInv, NEW work \in Works, PushRelated(work) PROVE LayersInv' /\ Grown
<1> USE DEF PushRelated, pages, artistPage, related
<1> PICK n : n = Len(stack)
  OBVIOUS
<1>1. /\ stack \in Seq(Level) /\ n \in Nat /\ DOMAIN stack = 1 .. n /\ n + 1 \in Nat \ {0}
      /\ layerZ \in Nat /\ layerZ' = layerZ + 1 /\ layerZ + 1 \in Nat \ {0}
  BY Entry DEF LayersInv, LayersTypes
<1>2. [work |-> work, z |-> layerZ + 1] \in Level
  BY <1>1 DEF Level
<1>3. /\ stack' \in Seq(Level) /\ DOMAIN stack' = 1 .. n + 1
      /\ stack'[n + 1] = [work |-> work, z |-> layerZ + 1] /\ \A i \in 1 .. n : stack'[i] = stack[i]
  BY <1>1, <1>2, NonEmptyAppend
<1>4. LevelsStill /\ PagesStill
  BY <1>1, <1>3 DEF LevelsStill, PagesStill
<1>5. StackKey(n + 1) \in AllKeys /\ StackKey(n + 1) \notin Range(layerSeq)
  BY <1>1, KeyZs DEF LayersInv, KeysAgree, KeyZsOK
<1>6. KeyZ'[StackKey(n + 1)] = layerZ + 1
  BY <1>1, <1>3, KeyZsNext DEF KeyZsOK
<1>7. ASSUME NEW k \in Range(layerSeq) PROVE KeyZ'[k] = KeyZ[k] /\ KeyZ[k] < KeyZ'[StackKey(n + 1)]
  BY <1>1, <1>4, <1>6, SameZ, KeysBelow
<1>8. /\ layerSeq' \in Seq(AllKeys) /\ IsOrdered(layerSeq, KeyZ)'
      /\ Range(layerSeq') = Range(layerSeq) \cup {StackKey(n + 1)}
  BY <1>5, <1>7, OneMore
<1>9. LayersTypes'
  BY <1>1, <1>3, <1>8 DEF LayersInv, LayersTypes
<1>10. KeysAgree'
  <2>1. PagesStay' = PagesStay /\ ArtistStays' = ArtistStays
    BY DEF PagesStay, ArtistStays, Replaced
  <2>2. \A i \in Nat \ {0} : StackKey(i) \in Range(layerSeq') <=> i \in DOMAIN stack' /\ i # closingDepth'
    BY <1>1, <1>3, <1>8, KeysDiffer DEF LayersInv, KeysAgree
  <2>3. \A i \in Nat \ {0} : SearchKey(i) \in Range(layerSeq') <=> i \in PagesStay
    BY <1>1, <1>8, KeysDiffer DEF LayersInv, KeysAgree
  <2>4. ArtistKey \in Range(layerSeq') <=> ArtistStays
    BY <1>1, <1>8, KeysDiffer DEF LayersInv, KeysAgree
  <2> QED
    BY <2>1, <2>2, <2>3, <2>4 DEF KeysAgree
<1>11. Climbing'
  <2>1. ZsOK
    BY Zs
  <2>2. \A i \in DOMAIN stack' : stack'[i].z <= layerZ'
    BY <1>1, <1>3, <2>1 DEF ZsOK
  <2>3. ASSUME NEW i \in 1 .. n + 1, NEW j \in 1 .. n + 1, i < j PROVE stack'[i].z < stack'[j].z
    <3>0. n \in Nat
      BY <1>1
    <3>1. i \in 1 .. n /\ (j \in 1 .. n \/ j = n + 1)
      BY <2>3, <3>0
    <3>2. stack'[n + 1].z = layerZ + 1
      BY <1>3
    <3>3. stack[i].z \in Nat /\ stack[i].z <= layerZ
      BY <1>1, <2>1, <3>1 DEF ZsOK
    <3>4. j \in 1 .. n => stack[i].z < stack[j].z
      BY <1>1, <2>3, <3>1 DEF LayersInv, Climbing
    <3> QED
      BY <1>1, <1>3, <3>1, <3>2, <3>3, <3>4
  <2> QED
    BY <1>1, <1>3, <2>1, <2>2, <2>3 DEF LayersInv, Climbing, ZsOK
<1>12. SlidesOut'
  BY DEF LayersInv, SlidesOut
<1>13. (searchStates = TagsOf(searches))'
  BY DEF LayersInv, TagsOf
<1> QED
  BY <1>4, <1>8, <1>9, <1>10, <1>11, <1>12, <1>13 DEF LayersInv, Grown

LEMMA PopKeeps == ASSUME LayersInv, PopRelated PROVE LayersInv'
<1> USE DEF PopRelated, pages, artistPage
<1> PICK n : n = Len(stack)
  OBVIOUS
<1>1. stack \in Seq(Level) /\ n \in Nat \ {0} /\ DOMAIN stack = 1 .. n
  BY Entry DEF LayersInv, LayersTypes
<1>2. LevelsStill /\ PagesStill
  BY DEF LevelsStill, PagesStill
<1>3. /\ layerSeq' \in Seq(AllKeys) /\ IsOrdered(layerSeq, KeyZ)'
      /\ Range(layerSeq') = Range(layerSeq) \ {StackKey(n)}
  <2>1. \A k \in Range(layerSeq) \ {StackKey(n)} : KeyZ'[k] = KeyZ[k]
    BY <1>2, SameZ
  <2> QED
    BY <2>1, WithoutOne
<1>4. LayersTypes'
  BY <1>1, <1>3 DEF LayersInv, LayersTypes
<1>5. KeysAgree'
  <2>1. PagesStay' = PagesStay /\ ArtistStays' = ArtistStays
    BY DEF PagesStay, ArtistStays, Replaced
  <2>2. \A i \in Nat \ {0} : StackKey(i) \in Range(layerSeq') <=> i \in DOMAIN stack' /\ i # closingDepth'
    BY <1>1, <1>3, KeysDiffer DEF LayersInv, KeysAgree
  <2>3. \A i \in Nat \ {0} : SearchKey(i) \in Range(layerSeq') <=> i \in PagesStay
    BY <1>1, <1>3, KeysDiffer DEF LayersInv, KeysAgree
  <2>4. ArtistKey \in Range(layerSeq') <=> ArtistStays
    BY <1>1, <1>3, KeysDiffer DEF LayersInv, KeysAgree
  <2> QED
    BY <2>1, <2>2, <2>3, <2>4 DEF KeysAgree
<1>6. Climbing' /\ SlidesOut' /\ (searchStates = TagsOf(searches))'
  BY <1>1 DEF LayersInv, Climbing, SlidesOut, TagsOf
<1> QED
  BY <1>3, <1>4, <1>5, <1>6 DEF LayersInv

LEMMA PopDoneKeeps == ASSUME LayersInv, PopDone PROVE LayersInv' /\ Grown
<1> USE DEF PopDone, pages, artistPage
<1> PICK n : n = Len(stack)
  OBVIOUS
<1>1. stack \in Seq(Level) /\ n \in Nat /\ DOMAIN stack = 1 .. n
  BY Entry DEF LayersInv, LayersTypes
<1>2. /\ stack' \in Seq(Level) /\ DOMAIN stack' = DOMAIN stack \ {closingDepth}
      /\ \A i \in DOMAIN stack' : stack'[i] = stack[i]
  <2>1. CASE stack = <<>>
    BY <1>1, <2>1
  <2>2. CASE stack # <<>>
    <3>1. stack' = Front(stack) /\ closingDepth = n
      BY <2>2 DEF LayersInv, SlidesOut
    <3>2. /\ Front(stack) \in Seq(Level) /\ n \in Nat \ {0} /\ DOMAIN Front(stack) = 1 .. n - 1
          /\ \A i \in 1 .. n - 1 : Front(stack)[i] = stack[i]
      BY <1>1, <2>2, FrontOf
    <3> QED
      BY <1>1, <3>1, <3>2
  <2> QED
    BY <2>1, <2>2
<1>3. LevelsStill /\ PagesStill
  BY <1>2 DEF LevelsStill, PagesStill
<1>4. layerSeq' \in Seq(AllKeys) /\ IsOrdered(layerSeq, KeyZ)' /\ Range(layerSeq') = Range(layerSeq)
  <2>1. \A k \in Range(layerSeq) : KeyZ'[k] = KeyZ[k]
    BY <1>3, SameZ
  <2> QED
    BY <2>1, SameOrder
<1>5. LayersTypes'
  BY <1>2, <1>4 DEF LayersInv, LayersTypes
<1>6. KeysAgree'
  <2>1. PagesStay' = PagesStay /\ ArtistStays' = ArtistStays
    BY DEF PagesStay, ArtistStays, Replaced
  <2>2. \A i \in Nat \ {0} : StackKey(i) \in Range(layerSeq') <=> i \in DOMAIN stack' /\ i # closingDepth'
    BY <1>1, <1>2, <1>4 DEF LayersInv, KeysAgree
  <2> QED
    BY <1>4, <2>1, <2>2 DEF LayersInv, KeysAgree
<1>7. Climbing'
  BY <1>2 DEF LayersInv, Climbing
<1>8. SlidesOut' /\ (searchStates = TagsOf(searches))'
  BY DEF LayersInv, SlidesOut, TagsOf
<1> QED
  BY <1>3, <1>4, <1>5, <1>6, <1>7, <1>8 DEF LayersInv, Grown

\* The counter is rewound once nothing is left that it could be below.
LEMMA IdleBelow ==
  ASSUME Closing' = {}, LayerKeys' = {}
  PROVE  DOMAIN stack' = {} /\ DOMAIN searches' = {} /\ artist' = None /\ artistClosing' = 0
<1>1. artistClosing' = 0
  BY DEF Closing
<1>2. DOMAIN stack' = {}
  BY DEF LayerKeys
<1>3. DOMAIN searches' = {}
  BY DEF LayerKeys
<1>4. artist' = None
  BY DEF LayerKeys
<1> QED
  BY <1>1, <1>2, <1>3, <1>4

LEMMA CloseAllKeeps == ASSUME LayersInv, CloseAllStacks PROVE LayersInv'
<1> USE DEF CloseAllStacks, pages, artistPage
<1> DEFINE K == {k \in AllKeys : k[1] # "stack"}
<1>1. \A i \in DOMAIN layerSeq : layerSeq[i] \in AllKeys
  BY Entry DEF LayersInv, LayersTypes
<1>2. layerSeq' = Filtered(layerSeq, PlacesOf(layerSeq, K))
  <2>1. {i \in DOMAIN layerSeq : layerSeq[i][1] # "stack"} = PlacesOf(layerSeq, K)
    BY <1>1 DEF PlacesOf
  <2> QED
    BY <2>1 DEF NoStackKeys
<1>3. /\ \A i \in Nat \ {0} : StackKey(i) \notin K /\ SearchKey(i) \in K
      /\ ArtistKey \in K
  <2>1. ArtistKey[1] # "stack" /\ \A i \in Nat \ {0} : SearchKey(i)[1] # "stack" /\ StackKey(i)[1] = "stack"
    BY DEF ArtistKey, SearchKey, StackKey
  <2> QED
    BY <2>1, KeyZs DEF KeyZsOK
<1> HIDE DEF K
<1>4. layerSeq' \in Seq(AllKeys) /\ IsOrdered(layerSeq, KeyZ)' /\ Range(layerSeq') = Range(layerSeq) \cap K
  <2>1. PagesStill
    BY DEF PagesStill
  <2>2. ASSUME NEW k \in Range(layerSeq) \cap K PROVE KeyZ'[k] = KeyZ[k]
    <3>1. CASE \E i \in DOMAIN searches : i \in Nat \ {0} /\ k = SearchKey(i) /\ i \in PagesStay
      BY <3>1, KeyZs, KeyZsNext DEF KeyZsOK
    <3>2. CASE k = ArtistKey
      BY <3>2, KeyZs, KeyZsNext DEF KeyZsOK
    <3> QED
      BY <1>3, <3>1, <3>2, KeysBelow
  <2> QED
    BY <1>2, <2>2, SomeLess
<1>5. stack' = <<>> /\ stack' \in Seq(Level) /\ DOMAIN stack' = {}
  OBVIOUS
<1>6. layerZ' = layerZ \/ (layerZ' = ZBase /\ Closing' = {} /\ LayerKeys' = {})
  BY DEF ResetIfIdle
<1>7. ZBase \in Nat
  BY LayersAssumption
<1>8. LayersTypes'
  BY <1>4, <1>5, <1>6, <1>7 DEF LayersInv, LayersTypes
<1>9. KeysAgree'
  <2>1. PagesStay' = PagesStay /\ ArtistStays' = ArtistStays
    BY DEF PagesStay, ArtistStays, Replaced
  <2> QED
    BY <1>3, <1>4, <1>5, <2>1 DEF LayersInv, KeysAgree
<1>10. Climbing'
  <2>1. CASE layerZ' = layerZ
    BY <1>5, <2>1 DEF LayersInv, Climbing
  <2>2. CASE layerZ' = ZBase /\ Closing' = {} /\ LayerKeys' = {}
    BY <1>7, <2>2, IdleBelow DEF Climbing
  <2> QED
    BY <1>6, <2>1, <2>2
<1>11. SlidesOut' /\ (searchStates = TagsOf(searches))'
  BY DEF LayersInv, SlidesOut, TagsOf
<1> QED
  BY <1>4, <1>8, <1>9, <1>10, <1>11 DEF LayersInv

-----------------------------------------------------------------------------
(* The artist page.                                                        *)

LEMMA OpenArtistKeeps == ASSUME LayersInv, NEW id \in Artists, OpenArtist(id) PROVE LayersInv' /\ Grown
<1> USE DEF OpenArtist, pages, related
<1>1. layerZ \in Nat /\ layerZ' = layerZ + 1 /\ layerZ + 1 \in Nat \ {0} /\ layerZ < layerZ + 1
  BY DEF LayersInv, LayersTypes
<1>2. /\ artist' \in [id : Artists, z : Nat \ {0}] /\ artist'.z = layerZ + 1 /\ artist' # None
  BY <1>1, LayersAssumption
<1>3. LevelsStill /\ PagesStill
  BY DEF LevelsStill, PagesStill
<1>4. ArtistKey \in AllKeys /\ KeyZ'[ArtistKey] = layerZ + 1
  BY <1>2, KeyZsNext DEF KeyZsOK
<1>5. ASSUME NEW k \in Range(layerSeq), k # ArtistKey PROVE KeyZ'[k] = KeyZ[k] /\ KeyZ[k] < KeyZ'[ArtistKey]
  <2>1. KeyZ'[k] = KeyZ[k]
    BY <1>3, <1>5, SameZ
  <2>2. KeyZ[k] \in Nat /\ KeyZ[k] <= layerZ
    BY KeysBelow
  <2> QED
    BY <1>1, <1>4, <2>1, <2>2
<1>6. /\ layerSeq' \in Seq(AllKeys) /\ IsOrdered(layerSeq, KeyZ)'
      /\ Range(layerSeq') = Range(layerSeq) \cup {ArtistKey}
  BY <1>4, <1>5, OneMore
<1>7. LayersTypes'
  BY <1>1, <1>2, <1>6 DEF LayersInv, LayersTypes
<1>8. ArtistStays' /\ artistClosing <= layerZ /\ artistClosing \in Nat
  BY <1>1, <1>2, Zs DEF ZsOK, ArtistStays, Replaced
<1>9. KeysAgree'
  <2>1. PagesStay' = PagesStay
    BY DEF PagesStay
  <2>2. /\ \A i \in Nat \ {0} : StackKey(i) \in Range(layerSeq') <=> StackKey(i) \in Range(layerSeq)
        /\ \A i \in Nat \ {0} : SearchKey(i) \in Range(layerSeq') <=> SearchKey(i) \in Range(layerSeq)
    BY <1>6, KeysDiffer
  <2> QED
    BY <1>6, <1>8, <2>1, <2>2 DEF LayersInv, KeysAgree
<1>10. Climbing'
  BY <1>1, <1>2, Zs DEF LayersInv, Climbing, ZsOK
<1>11. SlidesOut' /\ (searchStates = TagsOf(searches))'
  BY <1>1, <1>2, <1>8 DEF LayersInv, SlidesOut, TagsOf
<1> QED
  BY <1>3, <1>6, <1>7, <1>9, <1>10, <1>11 DEF LayersInv, Grown

LEMMA CloseArtistKeeps == ASSUME LayersInv, CloseArtist PROVE LayersInv'
<1> USE DEF CloseArtist, pages, related
<1>1. artist.z \in Nat \ {0} /\ artist.z <= layerZ
  BY Zs DEF ZsOK
<1>2. LevelsStill /\ PagesStill
  BY DEF LevelsStill, PagesStill
<1>3. /\ layerSeq' \in Seq(AllKeys) /\ IsOrdered(layerSeq, KeyZ)'
      /\ Range(layerSeq') = Range(layerSeq) \ {ArtistKey}
  <2>1. \A k \in Range(layerSeq) \ {ArtistKey} : KeyZ'[k] = KeyZ[k]
    BY <1>2, SameZ
  <2> QED
    BY <2>1, WithoutOne
<1>4. LayersTypes'
  BY <1>1, <1>3 DEF LayersInv, LayersTypes
<1>5. KeysAgree'
  <2>1. PagesStay' = PagesStay /\ ~ ArtistStays'
    BY <1>1 DEF PagesStay, ArtistStays, Replaced
  <2>2. /\ \A i \in Nat \ {0} : StackKey(i) \in Range(layerSeq') <=> StackKey(i) \in Range(layerSeq)
        /\ \A i \in Nat \ {0} : SearchKey(i) \in Range(layerSeq') <=> SearchKey(i) \in Range(layerSeq)
    BY <1>3, KeysDiffer
  <2> QED
    BY <1>3, <2>1, <2>2 DEF LayersInv, KeysAgree
<1>6. Climbing' /\ SlidesOut' /\ (searchStates = TagsOf(searches))'
  BY <1>1 DEF LayersInv, Climbing, SlidesOut, TagsOf
<1> QED
  BY <1>3, <1>4, <1>5, <1>6 DEF LayersInv

LEMMA ArtistDoneKeeps == ASSUME LayersInv, ArtistDone PROVE LayersInv' /\ Grown
<1> USE DEF ArtistDone, pages, related
<1>1. /\ Replaced => artist' = artist
      /\ ~ Replaced => artist' = None
  BY DEF Replaced, ArtistLeft, LayersInv, SlidesOut
<1>2. LevelsStill /\ PagesStill
  BY DEF LevelsStill, PagesStill
<1>3. ArtistStays <=> Replaced
  BY DEF ArtistStays, Replaced
<1>4. ArtistStays' <=> Replaced
  BY <1>1 DEF ArtistStays, Replaced
<1>5. layerSeq' \in Seq(AllKeys) /\ IsOrdered(layerSeq, KeyZ)' /\ Range(layerSeq') = Range(layerSeq)
  <2>1. ArtistKey \in Range(layerSeq) => artist' = artist
    BY <1>1, <1>3 DEF LayersInv, KeysAgree
  <2>2. \A k \in Range(layerSeq) : KeyZ'[k] = KeyZ[k]
    BY <1>2, <2>1, SameZ
  <2> QED
    BY <2>2, SameOrder
<1>6. layerZ' = layerZ \/ (layerZ' = ZBase /\ Closing' = {} /\ LayerKeys' = {})
  BY DEF ResetIfIdle
<1>7. ZBase \in Nat
  BY LayersAssumption
<1>8. LayersTypes'
  BY <1>1, <1>5, <1>6, <1>7 DEF LayersInv, LayersTypes
<1>9. KeysAgree'
  <2>1. PagesStay' = PagesStay
    BY DEF PagesStay
  <2> QED
    BY <1>3, <1>4, <1>5, <2>1 DEF LayersInv, KeysAgree
<1>10. Climbing'
  <2>1. CASE layerZ' = layerZ
    BY <1>1, <2>1, Zs DEF LayersInv, Climbing, ZsOK
  <2>2. CASE layerZ' = ZBase /\ Closing' = {} /\ LayerKeys' = {}
    BY <1>7, <2>2, IdleBelow DEF Climbing
  <2> QED
    BY <1>6, <2>1, <2>2
<1>11. SlidesOut' /\ (searchStates = TagsOf(searches))'
  BY DEF LayersInv, SlidesOut, TagsOf
<1> QED
  BY <1>2, <1>5, <1>8, <1>9, <1>10, <1>11 DEF LayersInv, Grown

-----------------------------------------------------------------------------
(* The search pages.                                                       *)

Kept == PagesBut(closingSearchZ)
KeptStates == IF closingSearchZ = 0 THEN searchStates
              ELSE RemoveAt(searchStates, IndexOf(closingSearchZ))
KeptOK ==
  /\ Kept \in Seq(Page) /\ Len(Kept) \in Nat /\ DOMAIN Kept = 1 .. Len(Kept)
  /\ DOMAIN Kept = PagesStay /\ \A i \in DOMAIN Kept : Kept[i] = searches[i]
  /\ KeptStates = TagsOf(Kept)

LEMMA TagList ==
  ASSUME NEW entries \in Seq(Page)
  PROVE  /\ TagsOf(entries) \in Seq(Tags \cup {None}) /\ Len(TagsOf(entries)) = Len(entries)
         /\ \A i \in DOMAIN entries : TagsOf(entries)[i] = entries[i].tag
<1>1. PICK n \in Nat : n = Len(entries) /\ DOMAIN entries = 1 .. n
  OBVIOUS
<1>2. \A i \in 1 .. n : entries[i] \in Page
  BY <1>1, Entry, Zenon
<1>3. \A i \in 1 .. n : entries[i].tag \in Tags \cup {None}
  BY <1>2 DEF Page
<1>4. TagsOf(entries) = [i \in 1 .. n |-> entries[i].tag]
  BY <1>1 DEF TagsOf
<1> HIDE DEF TagsOf
<1>5. TagsOf(entries) \in Seq(Tags \cup {None})
  BY <1>1, <1>3, <1>4, IsASeq
<1> QED
  BY <1>1, <1>4, <1>5

\* A page that slides out is the last one, with its state.
LEMMA LastPage ==
  ASSUME LayersInv, searches # <<>>
  PROVE  /\ Len(searches) \in Nat \ {0}
         /\ {i \in DOMAIN searches : searches[i].z # searches[Len(searches)].z} = 1 .. Len(searches) - 1
         /\ PagesBut(searches[Len(searches)].z) = Front(searches)
         /\ IndexOf(searches[Len(searches)].z) = Len(searches)
         /\ RemoveAt(searchStates, Len(searches)) = TagsOf(Front(searches))
         /\ Front(searches) \in Seq(Page) /\ Len(Front(searches)) = Len(searches) - 1
         /\ DOMAIN Front(searches) = 1 .. Len(searches) - 1
         /\ \A i \in 1 .. Len(searches) - 1 : Front(searches)[i] = searches[i]
<1>1. searches \in Seq(Page) /\ searchStates = TagsOf(searches)
  BY DEF LayersInv, LayersTypes
<1>2. PICK n \in Nat \ {0} : n = Len(searches) /\ DOMAIN searches = 1 .. n
  BY <1>1, FrontOf, Entry
<1>3. \A i \in 1 .. n : searches[i].z \in Nat \ {0}
  BY <1>2, Zs DEF ZsOK
<1>4. \A i \in 1 .. n : i # n => searches[i].z < searches[n].z
  BY <1>2 DEF LayersInv, Climbing
<1>5. {i \in DOMAIN searches : searches[i].z # searches[n].z} = 1 .. n - 1
  BY <1>2, <1>3, <1>4
<1>6. {i \in DOMAIN searches : searches[i].z = searches[n].z} = {n}
  BY <1>2, <1>3, <1>4
<1>7. /\ Front(searches) \in Seq(Page) /\ DOMAIN Front(searches) = 1 .. n - 1
      /\ \A i \in 1 .. n - 1 : Front(searches)[i] = searches[i]
  BY <1>1, <1>2, FrontOf
<1>8. Len(Front(searches)) = n - 1
  BY <1>2, <1>7
<1>9. PagesBut(searches[n].z) = Front(searches)
  <2>1. n - 1 \in 0 .. Len(searches)
    BY <1>2
  <2>2. PICK keep : keep = {i \in DOMAIN searches : searches[i].z # searches[n].z}
    OBVIOUS
  <2>3. Filtered(searches, keep) = SubSeq(searches, 1, n - 1)
    BY <1>1, <1>5, <2>1, <2>2, KeepFirst
  <2> QED
    BY <1>2, <2>2, <2>3 DEF PagesBut, Front
<1>10. IndexOf(searches[n].z) = n
  <2>1. PICK S : S = {i \in DOMAIN searches : searches[i].z = searches[n].z} \cup {0}
    OBVIOUS
  <2>2. S = {0, n} /\ S \in SUBSET Nat /\ n \in S /\ \A i \in S : i <= n
    BY <1>6, <2>1
  <2>3. Max(S) = n
    BY <2>2, MaxIs
  <2> QED
    BY <2>1, <2>3 DEF IndexOf
<1>11. RemoveAt(searchStates, n) = TagsOf(Front(searches))
  <2>1. /\ searchStates \in Seq(Tags \cup {None}) /\ Len(searchStates) = n
        /\ \A i \in 1 .. n : searchStates[i] = searches[i].tag
    BY <1>1, <1>2, TagList
  <2>2. searchStates # <<>>
    BY <1>2, <2>1
  <2>3. /\ RemoveAt(searchStates, n) = Front(searchStates) /\ Front(searchStates) \in Seq(Tags \cup {None})
        /\ DOMAIN Front(searchStates) = 1 .. n - 1
        /\ \A i \in 1 .. n - 1 : Front(searchStates)[i] = searchStates[i]
    BY <2>1, <2>2, FrontOf
  <2>4. \A i \in 1 .. n - 1 : i \in 1 .. n
    BY <1>2
  <2>5. TagsOf(Front(searches)) = [i \in 1 .. n - 1 |-> searches[i].tag]
    BY <1>7 DEF TagsOf
  <2>6. Front(searchStates) = [i \in 1 .. n - 1 |-> Front(searchStates)[i]]
    BY <2>3
  <2>7. \A i \in 1 .. n - 1 : Front(searchStates)[i] = searches[i].tag
    BY <2>1, <2>3, <2>4
  <2> QED
    BY <2>3, <2>5, <2>6, <2>7
<1> QED
  BY <1>2, <1>5, <1>7, <1>8, <1>9, <1>10, <1>11

LEMMA KeptPages == ASSUME LayersInv PROVE KeptOK
<1>1. searches \in Seq(Page) /\ searchStates = TagsOf(searches)
  BY DEF LayersInv, LayersTypes
<1>2. PICK n \in Nat : n = Len(searches) /\ DOMAIN searches = 1 .. n
  BY <1>1
<1>3. \A i \in 1 .. n : searches[i].z \in Nat \ {0}
  BY <1>2, Zs DEF ZsOK
<1>4. CASE closingSearchZ = 0
  <2>1. PagesStay = 1 .. n
    BY <1>2, <1>3, <1>4 DEF PagesStay
  <2>2. PICK keep : keep = PagesStay
    OBVIOUS
  <2>3. Filtered(searches, keep) = SubSeq(searches, 1, n)
    <3>1. n \in 0 .. Len(searches)
      BY <1>2
    <3> QED
      BY <1>1, <2>1, <2>2, <3>1, KeepFirst
  <2>4. SubSeq(searches, 1, n) = searches
    BY <1>1, <1>2
  <2>5. Kept = searches
    BY <2>2, <2>3, <2>4 DEF Kept, PagesBut, PagesStay
  <2>6. KeptStates = searchStates
    BY <1>4 DEF KeptStates
  <2> QED
    BY <1>1, <1>2, <2>1, <2>5, <2>6 DEF KeptOK
<1>5. CASE closingSearchZ # 0
  <2>1. searches # <<>> /\ closingSearchZ = searches[Len(searches)].z
    BY <1>5 DEF LayersInv, SlidesOut
  <2>2. PagesStay = 1 .. n - 1 /\ n # 0
    BY <1>2, <2>1, LastPage DEF PagesStay
  <2>3. Kept = Front(searches) /\ KeptStates = TagsOf(Front(searches))
    BY <1>5, <2>1, LastPage DEF Kept, KeptStates
  <2> QED
    BY <1>2, <2>1, <2>2, <2>3, LastPage DEF KeptOK
<1> QED
  BY <1>4, <1>5

\* What OpenPage makes of the counter before it opens a page: below no layer.
Rewound == IF Kept = <<>> /\ stack = <<>> /\ artist = None /\ Closing = {"search"} THEN ZBase ELSE layerZ
RewoundOK ==
  /\ Rewound \in Nat /\ artistClosing <= Rewound /\ artistClosing \in Nat
  /\ \A i \in DOMAIN stack : stack[i].z \in Nat /\ stack[i].z <= Rewound
  /\ \A i \in PagesStay : searches[i].z \in Nat /\ searches[i].z <= Rewound
  /\ artist # None => artist.z \in Nat /\ artist.z <= Rewound
  /\ \A k \in Range(layerSeq) : KeyZ[k] \in Nat /\ KeyZ[k] <= Rewound

LEMMA RewindBelow == ASSUME LayersInv PROVE RewoundOK
<1>1. CASE Kept = <<>> /\ stack = <<>> /\ artist = None /\ Closing = {"search"}
  <2>1. DOMAIN stack = {} /\ PagesStay = {}
    BY <1>1, KeptPages DEF KeptOK
  <2>2. artistClosing = 0
    BY <1>1 DEF Closing
  <2>3. Range(layerSeq) = {}
    <3>1. \A k \in Range(layerSeq) : FALSE
      BY <1>1, <2>1, KeysBelow DEF ArtistStays
    <3> QED
      BY <3>1
  <2>4. Rewound = ZBase /\ ZBase \in Nat
    BY <1>1, LayersAssumption DEF Rewound
  <2> QED
    BY <1>1, <2>1, <2>2, <2>3, <2>4 DEF RewoundOK
<1>2. CASE ~(Kept = <<>> /\ stack = <<>> /\ artist = None /\ Closing = {"search"})
  <2>1. Rewound = layerZ
    BY <1>2 DEF Rewound
  <2>2. PagesStay \subseteq DOMAIN searches
    BY DEF PagesStay
  <2>3. \A k \in Range(layerSeq) : KeyZ[k] \in Nat /\ KeyZ[k] <= Rewound
    BY <2>1, KeysBelow
  <2> QED
    BY <2>1, <2>2, <2>3, Zs DEF RewoundOK, ZsOK
<1> QED
  BY <1>1, <1>2

LEMMA OpenPageKeeps == ASSUME LayersInv, NEW tag \in Tags \cup {None}, OpenPage(tag) PROVE LayersInv' /\ Grown
<1> USE DEF artistPage, related
<1>1. /\ Kept \in Seq(Page) /\ Len(Kept) \in Nat /\ DOMAIN Kept = 1 .. Len(Kept) /\ DOMAIN Kept = PagesStay
      /\ \A i \in DOMAIN Kept : Kept[i] = searches[i]
      /\ KeptStates = TagsOf(Kept)
  BY KeptPages DEF KeptOK
<1>2. /\ \/ /\ layerZ' = Rewound + 1
            /\ searchStates' = Append(KeptStates, tag)
            /\ searches' = Append(Kept, [tag |-> tag, z |-> Rewound + 1])
            /\ layerSeq' = Append(layerSeq, SearchKey(Len(Kept) + 1))
         \/ /\ layerZ' = Rewound
            /\ searchStates' = KeptStates
            /\ searches' = Kept
            /\ layerSeq' = layerSeq
      /\ closingSearchZ' = 0
      /\ UNCHANGED <<stack, closingDepth, artist, artistClosing, searchTimers, snap>>
  BY DEF OpenPage, Kept, KeptStates, Rewound
<1>3. RewoundOK
  BY RewindBelow
<1>4. LevelsStill /\ ArtistStays' = ArtistStays
  BY <1>2 DEF LevelsStill, ArtistStays, Replaced
<1>5. SlidesOut'
  BY <1>2 DEF LayersInv, SlidesOut
<1>6. CASE layerSeq' = layerSeq /\ searches' = Kept
  <2>1. layerZ' = Rewound /\ searchStates' = KeptStates
    <3>1. Append(layerSeq, SearchKey(Len(Kept) + 1)) # layerSeq
      <4>1. layerSeq \in Seq(AllKeys) /\ SearchKey(Len(Kept) + 1) \in AllKeys
        BY <1>1, KeyZs DEF LayersInv, LayersTypes, KeyZsOK
      <4>2. Len(Append(layerSeq, SearchKey(Len(Kept) + 1))) = Len(layerSeq) + 1 /\ Len(layerSeq) \in Nat
        BY <4>1, NonEmptyAppend
      <4> QED
        BY <4>2
    <3> QED
      BY <1>2, <1>6, <3>1
  <2>2. PagesStill
    BY <1>1, <1>6 DEF PagesStill
  <2>3. layerSeq' \in Seq(AllKeys) /\ IsOrdered(layerSeq, KeyZ)' /\ Range(layerSeq') = Range(layerSeq)
    <3>1. \A k \in Range(layerSeq) : KeyZ'[k] = KeyZ[k]
      BY <1>2, <1>4, <2>2, SameZ
    <3> QED
      BY <1>6, <3>1, SameOrder
  <2>4. PagesStay' = PagesStay
    <3>1. \A i \in DOMAIN searches' : searches'[i].z # 0
      BY <1>1, <1>3, <1>6, Zs DEF ZsOK, PagesStay
    <3> QED
      BY <1>1, <1>2, <1>6, <3>1 DEF PagesStay
  <2>5. LayersTypes'
    BY <1>1, <1>2, <1>3, <1>6, <2>1, <2>3 DEF LayersInv, LayersTypes, RewoundOK
  <2>6. KeysAgree'
    BY <1>2, <1>4, <2>3, <2>4 DEF LayersInv, KeysAgree
  <2>7. Climbing'
    <3>1. PagesStay \subseteq DOMAIN searches
      BY DEF PagesStay
    <3> QED
      BY <1>1, <1>2, <1>3, <1>6, <2>1, <3>1 DEF LayersInv, Climbing, RewoundOK
  <2>8. (searchStates = TagsOf(searches))'
    BY <1>1, <1>6, <2>1 DEF TagsOf
  <2> QED
    BY <1>4, <1>5, <2>2, <2>3, <2>5, <2>6, <2>7, <2>8 DEF LayersInv, Grown
<1>7. CASE /\ layerZ' = Rewound + 1
           /\ searchStates' = Append(KeptStates, tag)
           /\ searches' = Append(Kept, [tag |-> tag, z |-> Rewound + 1])
           /\ layerSeq' = Append(layerSeq, SearchKey(Len(Kept) + 1))
  <2> PICK n, e, key : n \in Nat /\ n = Len(Kept) /\ e = [tag |-> tag, z |-> Rewound + 1] /\ key = SearchKey(n + 1)
    BY <1>1
  <2>1. Rewound \in Nat /\ Rewound + 1 \in Nat \ {0} /\ e \in Page /\ e.z = Rewound + 1 /\ e.tag = tag
    BY <1>3 DEF RewoundOK, Page
  <2>2. /\ searches' \in Seq(Page) /\ DOMAIN searches' = 1 .. n + 1 /\ DOMAIN Kept = 1 .. n
        /\ searches'[n + 1] = e /\ \A i \in 1 .. n : searches'[i] = searches[i]
    <3>1. searches' = Append(Kept, e)
      BY <1>7
    <3>2. /\ Append(Kept, e) \in Seq(Page) /\ DOMAIN Append(Kept, e) = 1 .. n + 1
          /\ Append(Kept, e)[n + 1] = e /\ \A i \in 1 .. n : Append(Kept, e)[i] = Kept[i]
      BY <1>1, <2>1, NonEmptyAppend
    <3> QED
      BY <1>1, <3>1, <3>2
  <2>3. PagesStill /\ PagesStay = 1 .. n /\ PagesStay \subseteq DOMAIN searches
    BY <1>1, <2>2 DEF PagesStill, PagesStay
  <2>4. key \in AllKeys /\ key \notin Range(layerSeq) /\ key # ArtistKey
    <3>1. n + 1 \in Nat \ {0} /\ n + 1 \notin PagesStay
      BY <2>3
    <3> QED
      BY <3>1, KeyZs, KeysDiffer DEF LayersInv, KeysAgree, KeyZsOK
  <2>5. KeyZ'[key] = Rewound + 1
    <3>1. n + 1 \in Nat \ {0}
      OBVIOUS
    <3> QED
      BY <2>1, <2>2, <3>1, KeyZsNext DEF KeyZsOK
  <2>6. /\ layerSeq' \in Seq(AllKeys) /\ IsOrdered(layerSeq, KeyZ)'
        /\ Range(layerSeq') = Range(layerSeq) \cup {key}
    <3>1. ASSUME NEW k \in Range(layerSeq) PROVE KeyZ'[k] = KeyZ[k] /\ KeyZ[k] < KeyZ'[key]
      <4>1. KeyZ'[k] = KeyZ[k]
        BY <1>2, <1>4, <2>3, SameZ
      <4>2. KeyZ[k] \in Nat /\ KeyZ[k] <= Rewound
        BY <1>3 DEF RewoundOK
      <4> QED
        BY <2>1, <2>5, <4>1, <4>2
    <3> QED
      BY <1>7, <2>4, <3>1, OneMore
  <2>7. PagesStay' = 1 .. n + 1
    <3>1. \A i \in 1 .. n + 1 : i \in PagesStay \/ i = n + 1
      BY <2>3
    <3>2. \A i \in 1 .. n : searches[i].z # 0
      BY <2>3, Zs DEF ZsOK
    <3>3. \A i \in DOMAIN searches' : searches'[i].z # 0
      BY <2>1, <2>2, <2>3, <3>1, <3>2
    <3> QED
      BY <1>2, <2>2, <3>3 DEF PagesStay
  <2>8. LayersTypes'
    BY <1>2, <1>7, <2>1, <2>2, <2>6 DEF LayersInv, LayersTypes
  <2>9. KeysAgree'
    <3>1. \A i \in Nat \ {0} : StackKey(i) # key /\ (SearchKey(i) = key <=> i = n + 1)
      BY KeysDiffer
    <3>2. \A i \in Nat \ {0} : SearchKey(i) \in Range(layerSeq') <=> i \in PagesStay'
      BY <2>3, <2>6, <2>7, <3>1 DEF LayersInv, KeysAgree
    <3> QED
      BY <1>2, <1>4, <2>4, <2>6, <3>1, <3>2 DEF LayersInv, KeysAgree
  <2>10. Climbing'
    <3>1. /\ \A i, j \in DOMAIN searches' : i < j => searches'[i].z < searches'[j].z
          /\ \A i \in DOMAIN searches' : searches'[i].z <= layerZ'
      <4>1. \A i, j \in 1 .. n : i < j => searches[i].z < searches[j].z
        BY <2>3 DEF LayersInv, Climbing
      <4>2. \A i \in 1 .. n : searches[i].z \in Nat /\ searches[i].z <= Rewound
        BY <1>3, <2>3 DEF RewoundOK
      <4>3. searches'[n + 1].z = Rewound + 1 /\ layerZ' = Rewound + 1
        BY <1>7, <2>1, <2>2
      <4>4. \A i \in 1 .. n : searches'[i].z \in Nat /\ searches'[i].z <= Rewound
        BY <2>2, <4>2
      <4>5. ASSUME NEW i \in 1 .. n + 1, NEW j \in 1 .. n + 1, i < j
            PROVE  searches'[i].z < searches'[j].z
        <5>1. i \in 1 .. n /\ (j \in 1 .. n \/ j = n + 1)
          BY <4>5
        <5> QED
          BY <2>1, <2>2, <4>1, <4>3, <4>4, <4>5, <5>1
      <4>6. ASSUME NEW i \in 1 .. n + 1 PROVE searches'[i].z <= layerZ'
        <5>1. i \in 1 .. n \/ i = n + 1
          OBVIOUS
        <5> QED
          BY <2>1, <4>3, <4>4, <5>1
      <4> QED
        BY <2>2, <4>5, <4>6
    <3> QED
      BY <1>2, <1>3, <1>7, <2>1, <3>1 DEF LayersInv, Climbing, RewoundOK
  <2>11. (searchStates = TagsOf(searches))'
    <3>1. /\ TagsOf(Kept) \in Seq(Tags \cup {None}) /\ Len(TagsOf(Kept)) = n
          /\ \A i \in 1 .. n : TagsOf(Kept)[i] = Kept[i].tag
      BY <1>1, <2>2, TagList
    <3>2. searchStates' = Append(TagsOf(Kept), tag)
      BY <1>1, <1>7
    <3>3. /\ searchStates' \in Seq(Tags \cup {None}) /\ DOMAIN searchStates' = 1 .. n + 1
          /\ searchStates'[n + 1] = tag /\ \A i \in 1 .. n : searchStates'[i] = searches[i].tag
      <4>1. \A i \in 1 .. n : Kept[i] = searches[i]
        BY <1>1, <2>2
      <4>2. /\ Append(TagsOf(Kept), tag) \in Seq(Tags \cup {None})
            /\ DOMAIN Append(TagsOf(Kept), tag) = 1 .. n + 1
            /\ Append(TagsOf(Kept), tag)[n + 1] = tag
            /\ \A i \in 1 .. n : Append(TagsOf(Kept), tag)[i] = TagsOf(Kept)[i]
        BY <3>1, NonEmptyAppend
      <4> QED
        BY <3>1, <3>2, <4>1, <4>2
    <3>4. searchStates' = [i \in 1 .. n + 1 |-> searchStates'[i]]
      BY <3>3
    <3>5. TagsOf(searches)' = [i \in 1 .. n + 1 |-> searches'[i].tag]
      BY <2>2 DEF TagsOf
    <3>6. \A i \in 1 .. n + 1 : searchStates'[i] = searches'[i].tag
      BY <2>1, <2>2, <3>3
    <3> QED
      BY <3>4, <3>5, <3>6
  <2> QED
    BY <1>4, <1>5, <2>3, <2>6, <2>8, <2>9, <2>10, <2>11 DEF LayersInv, Grown
<1> QED
  BY <1>2, <1>6, <1>7

\* Every way to close a page names the last one.
LEMMA CloseLastKeeps ==
  ASSUME LayersInv, MaxTimers <= 1, searches # <<>>, CloseSearch(searches[Len(searches)].z)
  PROVE  LayersInv'
<1> USE DEF CloseSearch, artistPage, related
<1> PICK n, z : n = Len(searches) /\ z = searches[Len(searches)].z
  OBVIOUS
<1>1. /\ n \in Nat \ {0} /\ DOMAIN searches = 1 .. n /\ IndexOf(z) = n
      /\ {i \in DOMAIN searches : searches[i].z # z} = 1 .. n - 1
  BY LastPage, Entry DEF LayersInv, LayersTypes
<1>2. z \in Nat \ {0} /\ closingSearchZ = 0
  BY <1>1, Zs DEF ZsOK
<1>3. searchTimers' = <<[z |-> z, idx |-> n]>>
  <2>1. MaxTimers \in Nat
    BY LayersAssumption
  <2>2. searchTimers = <<>>
    BY <2>1 DEF LayersInv, LayersTypes
  <2> QED
    BY <1>1, <2>2
<1>4. PagesStay = 1 .. n /\ PagesStay' = 1 .. n - 1
  <2>1. \A i \in 1 .. n : searches[i].z # 0
    BY <1>1, Zs DEF ZsOK
  <2> QED
    BY <1>1, <1>2, <2>1 DEF PagesStay
<1>5. LevelsStill /\ PagesStill
  BY DEF LevelsStill, PagesStill
<1>6. /\ layerSeq' \in Seq(AllKeys) /\ IsOrdered(layerSeq, KeyZ)'
      /\ Range(layerSeq') = Range(layerSeq) \ {SearchKey(n)}
  <2>1. \A k \in Range(layerSeq) \ {SearchKey(n)} : KeyZ'[k] = KeyZ[k]
    BY <1>5, SameZ
  <2>2. layerSeq' = Without(SearchKey(n))
    BY <1>1
  <2> QED
    BY <2>1, <2>2, WithoutOne
<1>7. LayersTypes'
  <2>1. [z |-> z, idx |-> n] \in [z : Nat \ {0}, idx : Nat]
    BY <1>1, <1>2
  <2> QED
    BY <1>2, <1>3, <1>6, <2>1 DEF LayersInv, LayersTypes
<1>8. KeysAgree'
  <2>1. ArtistStays' = ArtistStays
    BY DEF ArtistStays, Replaced
  <2>2. \A i \in Nat \ {0} : SearchKey(i) \in Range(layerSeq') <=> i \in PagesStay'
    <3>1. \A i \in Nat \ {0} : SearchKey(i) = SearchKey(n) => i = n
      BY <1>1, KeysDiffer
    <3>2. \A i \in Nat \ {0} : i \in 1 .. n - 1 <=> i \in 1 .. n /\ i # n
      BY <1>1
    <3> QED
      BY <1>4, <1>6, <3>1, <3>2 DEF LayersInv, KeysAgree
  <2>3. \A i \in Nat \ {0} : StackKey(i) # SearchKey(n) /\ SearchKey(n) # ArtistKey
    BY <1>1, KeysDiffer
  <2> QED
    BY <1>6, <2>1, <2>2, <2>3 DEF LayersInv, KeysAgree
<1>9. Climbing' /\ (searchStates = TagsOf(searches))'
  BY DEF LayersInv, Climbing, TagsOf
<1>10. SlidesOut'
  <2>1. closingSearchZ' = z
    OBVIOUS
  <2> QED
    BY <1>3, <2>1 DEF LayersInv, SlidesOut
<1> QED
  BY <1>6, <1>7, <1>8, <1>9, <1>10 DEF LayersInv

LEMMA SearchDoneKeeps == ASSUME LayersInv, SearchDone PROVE LayersInv' /\ Grown
<1> USE DEF SearchDone, artistPage, related
<1>1. PICK t \in [z : Nat \ {0}, idx : Nat] : searchTimers = <<t>>
  BY DEF LayersInv, LayersTypes
<1>2. Head(searchTimers) = t /\ searchTimers' = <<>>
  BY <1>1
<1>3. LevelsStill /\ ArtistStays' = ArtistStays
  BY DEF LevelsStill, ArtistStays, Replaced
<1>4. CASE closingSearchZ = t.z /\ FinalizeSearchClose(t.z, t.idx) /\ ResetIfIdle
  <2> PICK n : n = Len(searches)
    OBVIOUS
  <2>1. /\ closingSearchZ # 0 /\ searches # <<>> /\ t.z = searches[n].z /\ t.idx = n
    BY <1>1, <1>4 DEF LayersInv, SlidesOut
  <2>2. /\ n \in Nat \ {0} /\ DOMAIN searches = 1 .. n /\ PagesBut(t.z) = Front(searches)
        /\ {i \in DOMAIN searches : searches[i].z # t.z} = 1 .. n - 1
        /\ RemoveAt(searchStates, n) = TagsOf(Front(searches))
        /\ Front(searches) \in Seq(Page) /\ DOMAIN Front(searches) = 1 .. n - 1
        /\ \A i \in 1 .. n - 1 : Front(searches)[i] = searches[i]
    BY <2>1, LastPage, Entry DEF LayersInv, LayersTypes
  <2>3. searches' = Front(searches) /\ closingSearchZ' = 0
    BY <1>4, <2>2 DEF FinalizeSearchClose
  <2>4. searchStates' = TagsOf(Front(searches))
    <3>1. DOMAIN searchStates = 1 .. n
      BY <2>2 DEF LayersInv, TagsOf
    <3> QED
      BY <1>4, <2>1, <2>2, <3>1 DEF FinalizeSearchClose
  <2>5. PagesStay = 1 .. n - 1 /\ PagesStill
    BY <1>4, <2>2, <2>3 DEF PagesStay, PagesStill
  <2>6. PagesStay' = 1 .. n - 1
    <3>1. \A i \in 1 .. n - 1 : i \in DOMAIN searches
      BY <2>2
    <3>2. \A i \in 1 .. n - 1 : searches'[i].z # 0
      BY <2>2, <2>3, <3>1, Zs DEF ZsOK
    <3> QED
      BY <2>2, <2>3, <3>2 DEF PagesStay
  <2>7. layerSeq' \in Seq(AllKeys) /\ IsOrdered(layerSeq, KeyZ)' /\ Range(layerSeq') = Range(layerSeq)
    <3>1. \A k \in Range(layerSeq) : KeyZ'[k] = KeyZ[k]
      BY <1>3, <2>5, SameZ
    <3> QED
      BY <3>1, SameOrder
  <2>8. layerZ' = layerZ \/ (layerZ' = ZBase /\ Closing' = {} /\ LayerKeys' = {})
    BY <1>4 DEF ResetIfIdle
  <2>9. ZBase \in Nat
    BY LayersAssumption
  <2>10. LayersTypes'
    BY <1>2, <2>2, <2>3, <2>7, <2>8, <2>9 DEF LayersInv, LayersTypes
  <2>11. KeysAgree'
    BY <1>3, <2>5, <2>6, <2>7 DEF LayersInv, KeysAgree
  <2>12. Climbing'
    <3>1. CASE layerZ' = layerZ
      <4>1. \A i \in 1 .. n - 1 : i \in DOMAIN searches
        BY <2>2
      <4>2. \A i, j \in DOMAIN searches' : i < j => searches'[i].z < searches'[j].z
        BY <2>2, <2>3, <4>1 DEF LayersInv, Climbing
      <4>3. \A i \in DOMAIN searches' : searches'[i].z <= layerZ'
        BY <2>2, <2>3, <3>1, <4>1 DEF LayersInv, Climbing
      <4> QED
        BY <3>1, <4>2, <4>3 DEF LayersInv, Climbing
    <3>2. CASE layerZ' = ZBase /\ Closing' = {} /\ LayerKeys' = {}
      BY <2>9, <3>2, IdleBelow DEF Climbing
    <3> QED
      BY <2>8, <3>1, <3>2
  <2>13. SlidesOut' /\ (searchStates = TagsOf(searches))'
    <3>1. (searchStates = TagsOf(searches))'
      BY <2>3, <2>4 DEF TagsOf
    <3> QED
      BY <2>3, <3>1 DEF LayersInv, SlidesOut
  <2> QED
    BY <1>3, <2>5, <2>7, <2>10, <2>11, <2>12, <2>13 DEF LayersInv, Grown
<1>5. CASE closingSearchZ # t.z /\ UNCHANGED <<searches, searchStates, closingSearchZ, layerZ>>
  <2>1. closingSearchZ = 0
    BY <1>1, <1>5 DEF LayersInv, SlidesOut
  <2>2. PagesStill /\ PagesStay' = PagesStay
    BY <1>5 DEF PagesStill, PagesStay
  <2>3. layerSeq' \in Seq(AllKeys) /\ IsOrdered(layerSeq, KeyZ)' /\ Range(layerSeq') = Range(layerSeq)
    <3>1. \A k \in Range(layerSeq) : KeyZ'[k] = KeyZ[k]
      BY <1>3, <2>2, SameZ
    <3> QED
      BY <3>1, SameOrder
  <2>4. LayersTypes'
    BY <1>2, <1>5, <2>3 DEF LayersInv, LayersTypes
  <2>5. KeysAgree'
    BY <1>3, <2>2, <2>3 DEF LayersInv, KeysAgree
  <2>6. Climbing' /\ SlidesOut' /\ (searchStates = TagsOf(searches))'
    BY <1>5, <2>1 DEF LayersInv, Climbing, SlidesOut, TagsOf
  <2> QED
    BY <1>3, <2>2, <2>3, <2>4, <2>5, <2>6 DEF LayersInv, Grown
<1> QED
  BY <1>1, <1>2, <1>4, <1>5

-----------------------------------------------------------------------------
(* The books and the screen.                                               *)

LEMMA ZOfKeys ==
  /\ \A i \in Nat \ {0} :
       /\ ZOf(SearchKey(i)) = IF i \in PagesStay THEN searches[i].z ELSE 0
       /\ ZOf(StackKey(i)) = IF i \in DOMAIN stack /\ i # closingDepth THEN stack[i].z ELSE 0
  /\ ZOf(ArtistKey) = IF artist # None /\ artistClosing = 0 THEN artist.z ELSE 0
<1>1. ASSUME NEW i \in Nat \ {0}
      PROVE  ZOf(SearchKey(i)) = IF i \in PagesStay THEN searches[i].z ELSE 0
  BY KeysDiffer DEF ZOf, PagesStay
<1>2. ASSUME NEW i \in Nat \ {0}
      PROVE  ZOf(StackKey(i)) = IF i \in DOMAIN stack /\ i # closingDepth THEN stack[i].z ELSE 0
  <2>1. StackKey(i)[1] # "search" /\ StackKey(i) # ArtistKey /\ StackKey(i)[2] = i
    BY KeysDiffer
  <2> QED
    BY <2>1 DEF ZOf
<1>3. ZOf(ArtistKey) = IF artist # None /\ artistClosing = 0 THEN artist.z ELSE 0
  BY KeysDiffer DEF ZOf
<1> QED
  BY <1>1, <1>2, <1>3

\* The keys in the order are those of the layers that stay.
LEMMA Books == ASSUME LayersInv PROVE BooksAgree
<1>1. DOMAIN stack \subseteq Nat \ {0} /\ DOMAIN searches \subseteq Nat \ {0}
  BY Entry DEF LayersInv, LayersTypes
<1>2. \A i \in PagesStay : i \in DOMAIN searches /\ searches[i].z # 0
  BY Zs DEF ZsOK, PagesStay
<1>3. \A i \in DOMAIN stack : stack[i].z # 0
  BY Zs DEF ZsOK
<1>4. \A i \in Nat \ {0} : SearchKey(i) # ArtistKey /\ StackKey(i) # ArtistKey
  BY KeysDiffer
<1>5. ASSUME NEW k \in Range(layerSeq)
      PROVE  k \in LayerKeys /\ IF k = ArtistKey THEN Replaced \/ artistClosing = 0 ELSE ZOf(k) # 0
  <2>1. CASE \E i \in DOMAIN stack : i \in Nat \ {0} /\ k = StackKey(i) /\ i # closingDepth
    BY <1>3, <1>4, <2>1, ZOfKeys DEF LayerKeys
  <2>2. CASE \E i \in DOMAIN searches : i \in Nat \ {0} /\ k = SearchKey(i) /\ i \in PagesStay
    BY <1>2, <1>4, <2>2, ZOfKeys DEF LayerKeys
  <2>3. CASE k = ArtistKey /\ ArtistStays
    BY <2>3 DEF LayerKeys, ArtistStays
  <2> QED
    BY <2>1, <2>2, <2>3, KeysBelow
<1>6. ASSUME NEW k \in LayerKeys, IF k = ArtistKey THEN Replaced \/ artistClosing = 0 ELSE ZOf(k) # 0
      PROVE  k \in Range(layerSeq)
  <2>1. ASSUME NEW i \in DOMAIN stack, k = StackKey(i) PROVE k \in Range(layerSeq)
    BY <1>1, <1>4, <1>6, <2>1, ZOfKeys DEF LayersInv, KeysAgree
  <2>2. ASSUME NEW i \in DOMAIN searches, k = SearchKey(i) PROVE k \in Range(layerSeq)
    BY <1>1, <1>4, <1>6, <2>2, ZOfKeys DEF LayersInv, KeysAgree
  <2>3. ASSUME k = ArtistKey, artist # None PROVE k \in Range(layerSeq)
    BY <1>6, <2>3 DEF LayersInv, KeysAgree, ArtistStays
  <2> QED
    BY <2>1, <2>2, <2>3 DEF LayerKeys
<1>7. Range(layerSeq) = {key \in LayerKeys : IF key = ArtistKey THEN Replaced \/ artistClosing = 0
                                             ELSE ZOf(key) # 0}
  BY <1>5, <1>6
<1> QED
  BY <1>7 DEF BooksAgree, LayersInv

\* The open layers are the shown ones of the order, each at its z.
LEMMA OpenKeys ==
  ASSUME LayersInv, NEW k
  PROVE  /\ k \in Open <=> k \in Range(layerSeq) /\ ZOf(k) # 0
         /\ k \in Range(layerSeq) /\ ZOf(k) # 0 => ZOf(k) = KeyZ[k] /\ ZOf(k) \in Nat \ {0} /\ ZOf(k) <= layerZ
<1>1. k \in Open => k \in Range(layerSeq) /\ ZOf(k) # 0
  <2>1. ArtistKey \in Open => artistClosing = 0
    BY ZOfKeys DEF Open
  <2> QED
    BY <2>1, Books DEF Open, BooksAgree
<1>2. k \in Range(layerSeq) /\ ZOf(k) # 0 => k \in Open
  BY Books DEF Open, BooksAgree
<1>3. ASSUME k \in Range(layerSeq), ZOf(k) # 0 PROVE ZOf(k) = KeyZ[k]
  <2>1. CASE \E i \in DOMAIN stack : i \in Nat \ {0} /\ k = StackKey(i) /\ i # closingDepth
    BY <2>1, ZOfKeys, KeyZs DEF KeyZsOK
  <2>2. CASE \E i \in DOMAIN searches : i \in Nat \ {0} /\ k = SearchKey(i) /\ i \in PagesStay
    BY <2>2, ZOfKeys, KeyZs DEF KeyZsOK
  <2>3. CASE k = ArtistKey /\ ArtistStays
    BY <1>3, <2>3, ZOfKeys, KeyZs DEF KeyZsOK
  <2> QED
    BY <1>3, <2>1, <2>2, <2>3, KeysBelow
<1>4. ASSUME k \in Range(layerSeq) PROVE KeyZ[k] \in Nat \ {0} /\ KeyZ[k] <= layerZ
  BY <1>4, KeysBelow
<1> QED
  BY <1>1, <1>2, <1>3, <1>4

\* The last shown key of the order is of the highest layer.
LEMMA Top ==
  ASSUME LayersInv
  PROVE  /\ TopZ = Facing
         /\ \A k \in Open : ZOf(k) \in Nat /\ ZOf(k) <= Facing
<1>1. PICK n \in Nat : n = Len(layerSeq) /\ DOMAIN layerSeq = 1 .. n
  BY DEF LayersInv, LayersTypes
<1> PICK shown : shown = {i \in DOMAIN layerSeq : ZOf(layerSeq[i]) # 0}
  OBVIOUS
<1>2. shown \in SUBSET (1 .. n) /\ shown \in SUBSET Nat
  BY <1>1
<1>3. /\ \A i \in shown : layerSeq[i] \in Open
      /\ \A k \in Open : \E i \in shown : layerSeq[i] = k
  BY OpenKeys DEF Range
<1>4. TopZ = IF shown = {} THEN 0 ELSE ZOf(layerSeq[Max(shown)])
  BY DEF TopZ
<1>5. CASE shown = {}
  <2>1. OpenZs = {} /\ \A k \in Open : FALSE
    BY <1>3, <1>5 DEF OpenZs
  <2>2. PICK S : S = OpenZs \cup {0}
    OBVIOUS
  <2>3. S \in SUBSET Nat /\ 0 \in S /\ \A i \in S : i <= 0
    BY <2>1, <2>2
  <2>4. Max(S) = 0
    BY <2>3, MaxIs
  <2> QED
    BY <1>4, <1>5, <2>1, <2>2, <2>4 DEF Facing
<1>6. CASE shown # {}
  <2>1. PICK m \in shown : \A i \in shown : i <= m
    BY <1>2, <1>6, LastOf
  <2>2. Max(shown) = m
    BY <1>2, <2>1, MaxIs
  <2> PICK top, zTop : top = layerSeq[m] /\ zTop = ZOf(layerSeq[m])
    OBVIOUS
  <2>3. /\ top \in Open /\ top \in Range(layerSeq) /\ zTop = KeyZ[top] /\ zTop \in Nat \ {0}
        /\ TopZ = zTop
    BY <1>3, <1>4, <1>6, <2>2, OpenKeys
  <2>4. ASSUME NEW k \in Open PROVE ZOf(k) \in Nat /\ ZOf(k) <= zTop
    <3>1. k \in Range(layerSeq) /\ ZOf(k) = KeyZ[k] /\ ZOf(k) \in Nat
      BY OpenKeys
    <3> PICK places : places = {i \in shown : layerSeq[i] = k}
      OBVIOUS
    <3>2. places \in SUBSET (1 .. n) /\ places # {}
      BY <1>2, <1>3
    <3>3. PICK p \in places : \A i \in places : i <= p
      BY <3>2, LastOf
    <3>4. p \in shown /\ layerSeq[p] = k /\ p <= m /\ p \in 1 .. n /\ m \in 1 .. n
      BY <1>2, <2>1
    <3>5. CASE p = m
      BY <2>3, <3>1, <3>4, <3>5
    <3>6. CASE p < m
      <4>1. ~(\E r \in DOMAIN layerSeq : p < r /\ layerSeq[r] = k)
        <5>1. ASSUME NEW r \in DOMAIN layerSeq, p < r, layerSeq[r] = k PROVE FALSE
          <6>1. r \in places
            BY <3>4, <5>1
          <6> QED
            BY <1>1, <3>3, <3>4, <5>1, <6>1
        <5> QED
          BY <5>1
      <4>2. \/ KeyZ[layerSeq[p]] < KeyZ[layerSeq[m]]
            \/ layerSeq[p] = ArtistKey /\ \E r \in DOMAIN layerSeq : p < r /\ layerSeq[r] = ArtistKey
        BY <1>1, <3>4, <3>6 DEF LayersInv, IsOrdered
      <4>3. KeyZ[k] < KeyZ[top]
        BY <3>4, <4>1, <4>2
      <4> QED
        BY <2>3, <3>1, <4>3
    <3> QED
      BY <3>4, <3>5, <3>6
  <2>5. Facing = zTop
    <3>1. PICK S : S = OpenZs \cup {0}
      OBVIOUS
    <3>2. S \in SUBSET Nat /\ zTop \in S /\ \A i \in S : i <= zTop
      <4>1. \A i \in OpenZs : i \in Nat /\ i <= zTop
        BY <2>4 DEF OpenZs
      <4>2. zTop \in OpenZs
        BY <2>3 DEF OpenZs
      <4> QED
        BY <2>3, <3>1, <4>1, <4>2
    <3>3. Max(S) = zTop
      BY <3>2, MaxIs
    <3> QED
      BY <3>1, <3>3 DEF Facing
  <2> QED
    BY <2>3, <2>4, <2>5
<1> QED
  BY <1>5, <1>6

-----------------------------------------------------------------------------
(* Buttons and the gesture close the last page.                            *)

ClosesLast == searches # <<>> /\ CloseSearch(searches[Len(searches)].z)
Closes == PopRelated \/ CloseAllStacks \/ CloseArtist \/ ClosesLast

LEMMA ButtonCloses ==
  ASSUME LayersInv, Faces("search"), CloseSearch(Facing)
  PROVE  ClosesLast
<1>1. PICK k \in Open : k[1] = "search" /\ ZOf(k) = Facing
  BY DEF Faces
<1>2. PICK i \in DOMAIN searches : k = SearchKey(i)
  <2>1. \A i \in Nat : StackKey(i)[1] # "search"
    BY DEF StackKey
  <2>2. DOMAIN stack \subseteq Nat /\ ArtistKey[1] # "search"
    BY DEF LayersInv, LayersTypes, ArtistKey
  <2> QED
    BY <1>1, <2>1, <2>2 DEF Open, LayerKeys
<1> PICK n : n = Len(searches)
  OBVIOUS
<1>3. searches # <<>> /\ n \in Nat \ {0} /\ DOMAIN searches = 1 .. n /\ i \in Nat \ {0}
  <2>1. searches \in Seq(Page)
    BY DEF LayersInv, LayersTypes
  <2>2. Len(searches) \in Nat /\ DOMAIN searches = 1 .. Len(searches)
    BY <2>1
  <2> QED
    BY <1>2, <2>1, <2>2, Entry
<1>4. closingSearchZ = 0
  BY DEF CloseSearch
<1>5. \A j \in 1 .. n : j \in PagesStay /\ searches[j].z \in Nat \ {0}
  BY <1>3, <1>4, Zs DEF PagesStay, ZsOK
<1>6. Facing = searches[i].z
  BY <1>1, <1>2, <1>3, <1>5, ZOfKeys
<1>7. searches[n].z <= Facing
  <2>1. SearchKey(n) \in LayerKeys /\ ZOf(SearchKey(n)) = searches[n].z
    BY <1>3, <1>5, ZOfKeys DEF LayerKeys
  <2>2. SearchKey(n) \in Open
    BY <1>3, <1>5, <2>1 DEF Open
  <2> QED
    BY <2>1, <2>2, Top
<1>8. i = n
  <2>1. i < n => searches[i].z < searches[n].z
    BY <1>3 DEF LayersInv, Climbing
  <2> QED
    BY <1>3, <1>5, <1>6, <1>7, <2>1
<1> QED
  BY <1>3, <1>6, <1>8 DEF ClosesLast

LEMMA GestureCloses ==
  ASSUME LayersInv, PopTopLayer
  PROVE  Closes
<1>1. layerSeq \in Seq(AllKeys) /\ layerSeq # <<>>
  BY DEF LayersInv, LayersTypes, PopTopLayer
<1>2. PICK n : n = Len(layerSeq) /\ n \in Nat \ {0} /\ DOMAIN layerSeq = 1 .. n
  BY <1>1, FrontOf
<1> PICK top : top = layerSeq[n]
  OBVIOUS
<1>3. \/ CloseArtist
      \/ top[1] = "search" /\ top[2] \in DOMAIN searches /\ CloseSearch(searches[top[2]].z)
      \/ PopRelated
  BY <1>2 DEF PopTopLayer, Last
<1>4. CASE top[1] = "search" /\ top[2] \in DOMAIN searches /\ CloseSearch(searches[top[2]].z)
  <2>1. top \in Range(layerSeq)
    BY <1>2 DEF Range
  <2>2. PICK i \in DOMAIN searches : i \in Nat \ {0} /\ top = SearchKey(i)
    <3>1. \A i \in Nat : StackKey(i)[1] # "search"
      BY DEF StackKey
    <3>2. ArtistKey[1] # "search"
      BY DEF ArtistKey
    <3> QED
      BY <1>4, <2>1, <3>1, <3>2, KeysBelow
  <2>3. top[2] = i
    BY <2>2, KeysDiffer
  <2> PICK m : m = Len(searches)
    OBVIOUS
  <2>4. searches # <<>> /\ m \in Nat \ {0} /\ DOMAIN searches = 1 .. m
    <3>1. searches \in Seq(Page)
      BY DEF LayersInv, LayersTypes
    <3>2. Len(searches) \in Nat /\ DOMAIN searches = 1 .. Len(searches)
      BY <3>1
    <3> QED
      BY <2>2, <3>1, <3>2, Entry
  <2>5. closingSearchZ = 0
    BY <1>4 DEF CloseSearch
  <2>6. \A j \in 1 .. m : j \in PagesStay /\ searches[j].z \in Nat \ {0}
    BY <2>4, <2>5, Zs DEF PagesStay, ZsOK
  <2>7. i = m
    <3>1. SearchKey(m) \in Range(layerSeq)
      BY <2>4, <2>6 DEF LayersInv, KeysAgree
    <3>2. PICK p \in 1 .. n : layerSeq[p] = SearchKey(m)
      BY <1>2, <3>1 DEF Range
    <3>3. SearchKey(m) # ArtistKey /\ (SearchKey(m) = SearchKey(i) => m = i)
      BY <2>2, <2>4, KeysDiffer
    <3>4. p = n \/ KeyZ[SearchKey(m)] < KeyZ[SearchKey(i)]
      <4>1. p < n => KeyZ[layerSeq[p]] < KeyZ[layerSeq[n]]
        BY <1>2, <3>2, <3>3 DEF LayersInv, IsOrdered
      <4> QED
        BY <1>2, <2>2, <3>2, <4>1
    <3>5. KeyZ[SearchKey(m)] = searches[m].z /\ KeyZ[SearchKey(i)] = searches[i].z
      BY <2>2, <2>4, KeyZs DEF KeyZsOK
    <3>6. i < m => searches[i].z < searches[m].z
      BY <2>4 DEF LayersInv, Climbing
    <3>7. p = n => m = i
      BY <2>2, <3>2, <3>3
    <3>8. searches[m].z < searches[i].z => i # m /\ ~(i < m)
      BY <2>4, <2>6, <3>6
    <3> QED
      BY <2>2, <2>4, <3>4, <3>5, <3>7, <3>8
  <2> QED
    BY <1>4, <2>3, <2>4, <2>7 DEF Closes, ClosesLast
<1> QED
  BY <1>3, <1>4 DEF Closes

LEMMA ClosesKeep == ASSUME LayersInv, MaxTimers <= 1, Closes PROVE LayersInv'
  BY PopKeeps, CloseAllKeeps, CloseArtistKeeps, CloseLastKeeps DEF Closes, ClosesLast

-----------------------------------------------------------------------------
(* The snapshot, written while nothing slides out or when a close begins.  *)

LEMMA SnapTaken ==
  ASSUME LayersInv', NEW s, snap' = s, s.order = layerSeq', s.stack \in Seq(Works),
         s.states \in Seq(Tags \cup {None}), s.states = s.tags, s.artist \in Artists \cup {None},
         DOMAIN s.stack = DOMAIN stack' \ {closingDepth'}, DOMAIN s.states = PagesStay',
         s.artist # None <=> ArtistStays',
         \A i \in DOMAIN s.stack : s.stack[i] = stack'[i].work,
         \A i \in DOMAIN s.states : s.states[i] = searches'[i].tag
  PROVE  SnapOK(snap)' /\ Behind(snap)'
<1> PICK order, z : order = layerSeq' /\ z = KeyZ'
  OBVIOUS
<1>1. order \in Seq(AllKeys) /\ IsOrdered(order, z)
  BY DEF LayersInv, LayersTypes
<1>2. /\ \A i \in Nat \ {0} : StackKey(i) \in Range(order) <=> i \in DOMAIN s.stack
      /\ \A i \in Nat \ {0} : SearchKey(i) \in Range(order) <=> i \in DOMAIN s.states
      /\ ArtistKey \in Range(order) <=> s.artist # None
  BY DEF LayersInv, KeysAgree
<1>3. ASSUME NEW i \in DOMAIN s.states, NEW j \in DOMAIN s.states, i \in Nat \ {0}, j \in Nat \ {0}, i < j
      PROVE  z[SearchKey(i)] < z[SearchKey(j)] /\ z[SearchKey(i)] \in Nat /\ z[SearchKey(j)] \in Nat
  <2>1. i \in DOMAIN searches' /\ j \in DOMAIN searches'
    BY <1>3 DEF PagesStay
  <2>2. searches'[i].z < searches'[j].z
    BY <1>3, <2>1 DEF LayersInv, Climbing
  <2>3. ZsOK'
    BY Zs, PTL
  <2> QED
    BY <1>3, <2>1, <2>2, <2>3, KeyZsNext DEF KeyZsOK, ZsOK
<1>4. ASSUME NEW p \in DOMAIN order, NEW q \in DOMAIN order, NEW i \in Nat \ {0}, NEW j \in Nat \ {0},
             p < q, order[p] = SearchKey(i), order[q] = SearchKey(j)
      PROVE  i < j
  <2>1. i \in DOMAIN s.states /\ j \in DOMAIN s.states
    BY <1>2, <1>4 DEF Range
  <2>2. SearchKey(i) # ArtistKey /\ p \in Int /\ q \in Int
    BY <1>1, KeysDiffer
  <2>3. z[SearchKey(i)] < z[SearchKey(j)]
    BY <1>1, <1>4, <2>2 DEF IsOrdered
  <2>4. i # j
    BY <1>1, <1>4, <2>2 DEF IsOrdered
  <2>5. ~(j < i)
    <3>1. j < i => z[SearchKey(j)] < z[SearchKey(i)] /\ z[SearchKey(i)] \in Nat /\ z[SearchKey(j)] \in Nat
      BY <1>3, <2>1
    <3> QED
      BY <2>3, <3>1
  <2> QED
    BY <2>4, <2>5
<1>8. ASSUME NEW i \in DOMAIN s.stack, NEW j \in DOMAIN s.stack, i \in Nat \ {0}, j \in Nat \ {0}, i < j
      PROVE  z[StackKey(i)] < z[StackKey(j)] /\ z[StackKey(i)] \in Nat /\ z[StackKey(j)] \in Nat
  <2>1. i \in DOMAIN stack' /\ j \in DOMAIN stack'
    BY <1>8
  <2>2. stack'[i].z < stack'[j].z
    BY <1>8, <2>1 DEF LayersInv, Climbing
  <2>3. ZsOK'
    BY Zs, PTL
  <2> QED
    BY <1>8, <2>1, <2>2, <2>3, KeyZsNext DEF KeyZsOK, ZsOK
<1>9. ASSUME NEW p \in DOMAIN order, NEW q \in DOMAIN order, NEW i \in Nat \ {0}, NEW j \in Nat \ {0},
             p < q, order[p] = StackKey(i), order[q] = StackKey(j)
      PROVE  i < j
  <2>1. i \in DOMAIN s.stack /\ j \in DOMAIN s.stack
    BY <1>2, <1>9 DEF Range
  <2>2. StackKey(i) # ArtistKey /\ p \in Int /\ q \in Int
    BY <1>1, KeysDiffer
  <2>3. z[StackKey(i)] < z[StackKey(j)]
    BY <1>1, <1>9, <2>2 DEF IsOrdered
  <2>4. i # j
    BY <1>1, <1>9, <2>2 DEF IsOrdered
  <2>5. ~(j < i)
    <3>1. j < i => z[StackKey(j)] < z[StackKey(i)] /\ z[StackKey(i)] \in Nat /\ z[StackKey(j)] \in Nat
      BY <1>8, <2>1
    <3> QED
      BY <2>3, <3>1
  <2> QED
    BY <2>4, <2>5
<1>5. \A p, q \in DOMAIN order :
        /\ order[p] = order[q] => p = q \/ order[p] = ArtistKey
        /\ \A i, j \in Nat \ {0} :
             /\ p < q /\ order[p] = SearchKey(i) /\ order[q] = SearchKey(j) => i < j
             /\ p < q /\ order[p] = StackKey(i) /\ order[q] = StackKey(j) => i < j
  BY <1>1, <1>4, <1>9 DEF IsOrdered
<1>6. s.order = order
  OBVIOUS
<1>7. SnapOK(s)
  <2>1. /\ s.order \in Seq(AllKeys)
        /\ \A i \in Nat \ {0} : StackKey(i) \in Range(s.order) <=> i \in DOMAIN s.stack
        /\ \A i \in Nat \ {0} : SearchKey(i) \in Range(s.order) <=> i \in DOMAIN s.states
        /\ ArtistKey \in Range(s.order) <=> s.artist # None
    BY <1>1, <1>2, <1>6
  <2>2. \A p, q \in DOMAIN s.order :
          /\ s.order[p] = s.order[q] => p = q \/ s.order[p] = ArtistKey
          /\ \A i, j \in Nat \ {0} :
               /\ p < q /\ s.order[p] = SearchKey(i) /\ s.order[q] = SearchKey(j) => i < j
               /\ p < q /\ s.order[p] = StackKey(i) /\ s.order[q] = StackKey(j) => i < j
    BY <1>5, <1>6
  <2> QED
    BY <2>1, <2>2, Zenon DEF SnapOK
<1>10. SnapOK(snap)'
  BY <1>7
<1>11. Behind(snap)'
  BY DEF Behind
<1> QED
  BY <1>10, <1>11

LEMMA WorkList ==
  ASSUME NEW levels \in Seq(Level)
  PROVE  /\ WorksOf(levels) \in Seq(Works) /\ Len(WorksOf(levels)) = Len(levels)
         /\ DOMAIN WorksOf(levels) = DOMAIN levels
<1>1. PICK n \in Nat : n = Len(levels) /\ DOMAIN levels = 1 .. n
  OBVIOUS
<1>2. \A i \in 1 .. n : levels[i] \in Level
  BY <1>1, Entry, Zenon
<1>3. \A i \in 1 .. n : levels[i].work \in Works
  BY <1>2 DEF Level
<1>4. WorksOf(levels) = [i \in 1 .. n |-> levels[i].work]
  BY <1>1 DEF WorksOf
<1> HIDE DEF WorksOf
<1>5. WorksOf(levels) \in Seq(Works)
  BY <1>1, <1>3, <1>4, IsASeq
<1> QED
  BY <1>1, <1>4, <1>5

\* What is on the screen while nothing slides out.
Still ==
  /\ closingDepth = 0 /\ artistClosing = 0 /\ closingSearchZ = 0
  /\ Snapshot.stack \in Seq(Works) /\ DOMAIN Snapshot.stack = DOMAIN stack /\ 0 \notin DOMAIN stack
  /\ Snapshot.states \in Seq(Tags \cup {None}) /\ DOMAIN Snapshot.states = DOMAIN searches
  /\ PagesStay = DOMAIN searches /\ Snapshot.states = Snapshot.tags
  /\ Snapshot.artist \in Artists \cup {None} /\ (Snapshot.artist # None <=> artist # None)
  /\ Snapshot.order = layerSeq
  /\ DOMAIN Snapshot = {"stack", "artist", "states", "tags", "order"}
  /\ \A i \in DOMAIN stack : Snapshot.stack[i] = stack[i].work
  /\ \A i \in DOMAIN searches : Snapshot.states[i] = searches[i].tag

LEMMA NothingSlides == ASSUME LayersInv, Closing = {} PROVE Still
<1>1. closingDepth = 0 /\ artistClosing = 0 /\ closingSearchZ = 0
  BY DEF Closing
<1>2. stack \in Seq(Level) /\ searches \in Seq(Page) /\ searchStates = TagsOf(searches)
  BY DEF LayersInv, LayersTypes
<1>3. WorksOf(stack) \in Seq(Works) /\ DOMAIN WorksOf(stack) = DOMAIN stack /\ 0 \notin DOMAIN stack
  BY <1>2, WorkList
<1>4. TagsOf(searches) \in Seq(Tags \cup {None}) /\ DOMAIN TagsOf(searches) = DOMAIN searches
  BY <1>2, TagList DEF TagsOf
<1>5. PagesStay = DOMAIN searches
  BY <1>1, Zs DEF PagesStay, ZsOK
<1>6. artist # None => artist.id \in Artists /\ artist.id # None
  BY LayersAssumption DEF LayersInv, LayersTypes
<1>7. /\ \A i \in DOMAIN stack : WorksOf(stack)[i] = stack[i].work
      /\ \A i \in DOMAIN searches : TagsOf(searches)[i] = searches[i].tag
  BY DEF WorksOf, TagsOf
<1> QED
  BY <1>1, <1>2, <1>3, <1>4, <1>5, <1>6, <1>7 DEF Still, Snapshot

LEMMA ClosesSnap ==
  ASSUME LayersInv, MaxTimers <= 1, Closing = {}, Closes
  PROVE  SnapOK(snap)' /\ Behind(snap)'
<1>1. LayersInv'
  BY ClosesKeep
<1>2. /\ closingDepth = 0 /\ artistClosing = 0 /\ closingSearchZ = 0
      /\ Snapshot.stack \in Seq(Works) /\ DOMAIN Snapshot.stack = DOMAIN stack /\ 0 \notin DOMAIN stack
      /\ Snapshot.states \in Seq(Tags \cup {None}) /\ DOMAIN Snapshot.states = DOMAIN searches
      /\ PagesStay = DOMAIN searches /\ Snapshot.states = Snapshot.tags
      /\ Snapshot.artist \in Artists \cup {None} /\ (Snapshot.artist # None <=> artist # None)
      /\ DOMAIN Snapshot = {"stack", "artist", "states", "tags", "order"}
      /\ \A i \in DOMAIN stack : Snapshot.stack[i] = stack[i].work
      /\ \A i \in DOMAIN searches : Snapshot.states[i] = searches[i].tag
  BY NothingSlides DEF Still
<1> PICK s : s = snap'
  OBVIOUS
<1>3. CASE PopRelated
  <2>1. s = [Snapshot EXCEPT !.stack = Front(@), !.order = layerSeq']
    BY <1>3 DEF PopRelated, PersistNow
  <2>2. stack # <<>> /\ stack \in Seq(Level) /\ Len(stack) \in Nat \ {0} /\ DOMAIN stack = 1 .. Len(stack)
    BY <1>3, FrontOf, Entry DEF PopRelated, LayersInv, LayersTypes
  <2>3. Snapshot.stack # <<>> /\ Len(Snapshot.stack) = Len(stack)
    BY <1>2, <2>2
  <2>4. /\ Front(Snapshot.stack) \in Seq(Works) /\ DOMAIN Front(Snapshot.stack) = 1 .. Len(stack) - 1
        /\ \A i \in 1 .. Len(stack) - 1 : Front(Snapshot.stack)[i] = Snapshot.stack[i]
    BY <1>2, <2>3, FrontOf
  <2>5. /\ s.order = layerSeq' /\ s.stack = Front(Snapshot.stack) /\ s.states = Snapshot.states
        /\ s.tags = Snapshot.tags /\ s.artist = Snapshot.artist
    BY <1>2, <2>1
  <2>6. stack' = stack /\ closingDepth' = Len(stack) /\ PagesStay' = PagesStay /\ (ArtistStays' <=> artist # None)
    BY <1>2, <1>3 DEF PopRelated, pages, artistPage, PagesStay, ArtistStays
  <2>7. DOMAIN s.stack = DOMAIN stack' \ {closingDepth'}
    <3>1. PICK n \in Nat \ {0} : n = Len(stack)
      BY <2>2
    <3>2. 1 .. n - 1 = (1 .. n) \ {n}
      OBVIOUS
    <3> QED
      BY <2>2, <2>4, <2>5, <2>6, <3>1, <3>2
  <2>8. /\ \A i \in DOMAIN s.stack : s.stack[i] = stack'[i].work
        /\ \A i \in DOMAIN s.states : s.states[i] = searches'[i].tag
    <3>1. \A i \in 1 .. Len(stack) - 1 : i \in DOMAIN stack
      BY <2>2
    <3>2. searches' = searches
      BY <1>3 DEF PopRelated, pages
    <3> QED
      BY <1>2, <2>4, <2>5, <2>6, <3>1, <3>2
  <2> QED
    BY <1>1, <1>2, <2>4, <2>5, <2>6, <2>7, <2>8, SnapTaken
<1>4. CASE CloseAllStacks
  <2>1. s = [Snapshot EXCEPT !.stack = <<>>, !.order = layerSeq']
    BY <1>4 DEF CloseAllStacks, PersistNow
  <2>2. /\ s.order = layerSeq' /\ s.stack = <<>> /\ s.states = Snapshot.states
        /\ s.tags = Snapshot.tags /\ s.artist = Snapshot.artist
    BY <1>2, <2>1
  <2>3. stack' = <<>> /\ PagesStay' = PagesStay /\ (ArtistStays' <=> artist # None)
    BY <1>2, <1>4 DEF CloseAllStacks, pages, artistPage, PagesStay, ArtistStays
  <2>4. DOMAIN s.stack = DOMAIN stack' \ {closingDepth'} /\ s.stack \in Seq(Works)
    BY <2>2, <2>3
  <2>5. /\ \A i \in DOMAIN s.stack : s.stack[i] = stack'[i].work
        /\ \A i \in DOMAIN s.states : s.states[i] = searches'[i].tag
    <3>1. searches' = searches
      BY <1>4 DEF CloseAllStacks, pages
    <3> QED
      BY <1>2, <2>2, <3>1
  <2> QED
    BY <1>1, <1>2, <2>2, <2>3, <2>4, <2>5, SnapTaken
<1>5. CASE CloseArtist
  <2>1. s = [Snapshot EXCEPT !.artist = None, !.order = layerSeq']
    BY <1>5 DEF CloseArtist, PersistNow
  <2>2. /\ s.order = layerSeq' /\ s.stack = Snapshot.stack /\ s.states = Snapshot.states
        /\ s.tags = Snapshot.tags /\ s.artist = None
    BY <1>2, <2>1
  <2>3. artist.z # 0
    BY <1>5, Zs DEF ZsOK, CloseArtist
  <2>4. stack' = stack /\ closingDepth' = 0 /\ PagesStay' = PagesStay /\ ~ ArtistStays'
    BY <1>2, <1>5, <2>3 DEF CloseArtist, pages, related, PagesStay, ArtistStays, Replaced
  <2>5. DOMAIN s.stack = DOMAIN stack' \ {closingDepth'}
    BY <1>2, <2>2, <2>4
  <2>6. /\ \A i \in DOMAIN s.stack : s.stack[i] = stack'[i].work
        /\ \A i \in DOMAIN s.states : s.states[i] = searches'[i].tag
    <3>1. searches' = searches
      BY <1>5 DEF CloseArtist, pages
    <3> QED
      BY <1>2, <2>2, <2>4, <3>1
  <2> QED
    BY <1>1, <1>2, <2>2, <2>4, <2>5, <2>6, SnapTaken
<1>6. CASE ClosesLast
  <2> PICK n, z : n = Len(searches) /\ z = searches[Len(searches)].z
    OBVIOUS
  <2>1. /\ n \in Nat \ {0} /\ IndexOf(z) = n /\ DOMAIN searches = 1 .. n
        /\ {i \in DOMAIN searches : searches[i].z # z} = 1 .. n - 1
        /\ RemoveAt(searchStates, n) = TagsOf(Front(searches))
        /\ Front(searches) \in Seq(Page) /\ DOMAIN Front(searches) = 1 .. n - 1
        /\ \A i \in 1 .. n - 1 : Front(searches)[i] = searches[i]
    BY <1>6, LastPage, Entry DEF ClosesLast, LayersInv, LayersTypes
  <2>2. s = [Snapshot EXCEPT !.states = RemoveAt(@, n), !.tags = RemoveAt(@, n), !.order = layerSeq']
    BY <1>6, <2>1 DEF ClosesLast, CloseSearch, PersistNow
  <2>3. Snapshot.states = searchStates /\ Snapshot.tags = searchStates
    BY <1>2 DEF Snapshot
  <2>4. /\ s.order = layerSeq' /\ s.stack = Snapshot.stack /\ s.states = TagsOf(Front(searches))
        /\ s.tags = TagsOf(Front(searches)) /\ s.artist = Snapshot.artist
    BY <1>2, <2>1, <2>2, <2>3
  <2>5. /\ TagsOf(Front(searches)) \in Seq(Tags \cup {None}) /\ DOMAIN TagsOf(Front(searches)) = 1 .. n - 1
        /\ \A i \in 1 .. n - 1 : TagsOf(Front(searches))[i] = searches[i].tag
    BY <2>1, TagList DEF TagsOf
  <2>6. stack' = stack /\ closingDepth' = 0 /\ PagesStay' = 1 .. n - 1 /\ (ArtistStays' <=> artist # None)
    BY <1>2, <1>6, <2>1 DEF ClosesLast, CloseSearch, artistPage, related, PagesStay, ArtistStays
  <2>7. DOMAIN s.stack = DOMAIN stack' \ {closingDepth'}
    BY <1>2, <2>4, <2>6
  <2>8. /\ \A i \in DOMAIN s.stack : s.stack[i] = stack'[i].work
        /\ \A i \in DOMAIN s.states : s.states[i] = searches'[i].tag
    <3>1. searches' = searches
      BY <1>6 DEF ClosesLast, CloseSearch
    <3> QED
      BY <1>2, <2>4, <2>5, <2>6, <3>1
  <2> QED
    BY <1>1, <1>2, <2>4, <2>5, <2>6, <2>7, <2>8, SnapTaken
<1> QED
  BY <1>3, <1>4, <1>5, <1>6 DEF Closes

\* A step that leaves the layers as they are.
LayerVars == <<stack, closingDepth, artist, artistClosing, searches, searchStates, closingSearchZ,
               searchTimers, layerZ, layerSeq>>

LEMMA LayersSame == ASSUME LayersInv, UNCHANGED LayerVars PROVE LayersInv'
<1>1. KeyZ' = KeyZ
  BY DEF KeyZ, LayerVars
<1>2. ArtistStays' = ArtistStays /\ PagesStay' = PagesStay /\ TagsOf(searches)' = TagsOf(searches)
  BY DEF ArtistStays, Replaced, PagesStay, TagsOf, LayerVars
<1>3. LayersTypes' /\ KeysAgree' /\ Climbing' /\ SlidesOut'
  BY <1>2 DEF LayersInv, LayersTypes, KeysAgree, Climbing, SlidesOut, LayerVars
<1>4. IsOrdered(layerSeq, KeyZ)'
  BY <1>1 DEF LayersInv, LayerVars, IsOrdered
<1> QED
  BY <1>2, <1>3, <1>4 DEF LayersInv, LayerVars

LEMMA SaveKeeps ==
  ASSUME LayersInv, Save
  PROVE  LayersInv' /\ (SnapOK(snap) /\ Behind(snap) => SnapOK(snap)' /\ Behind(snap)')
<1>1. UNCHANGED LayerVars
  BY DEF Save, LayerVars, related, artistPage, pages
<1>2. LayersInv'
  BY <1>1, LayersSame
<1>3. CASE Closing = {}
  <2>1. /\ closingDepth = 0 /\ artistClosing = 0 /\ closingSearchZ = 0
        /\ Snapshot.stack \in Seq(Works) /\ DOMAIN Snapshot.stack = DOMAIN stack /\ 0 \notin DOMAIN stack
        /\ Snapshot.states \in Seq(Tags \cup {None}) /\ DOMAIN Snapshot.states = DOMAIN searches
        /\ PagesStay = DOMAIN searches /\ Snapshot.states = Snapshot.tags
        /\ Snapshot.artist \in Artists \cup {None} /\ (Snapshot.artist # None <=> artist # None)
        /\ Snapshot.order = layerSeq
        /\ \A i \in DOMAIN stack : Snapshot.stack[i] = stack[i].work
        /\ \A i \in DOMAIN searches : Snapshot.states[i] = searches[i].tag
    BY <1>3, NothingSlides DEF Still
  <2> PICK s : s = Snapshot
    OBVIOUS
  <2>2. s = snap'
    BY <1>3 DEF Save
  <2>3. stack' = stack /\ closingDepth' = 0 /\ PagesStay' = DOMAIN searches /\ (ArtistStays' <=> artist # None)
        /\ layerSeq' = layerSeq /\ searches' = searches
    BY <1>1, <2>1 DEF LayerVars, PagesStay, ArtistStays
  <2>4. DOMAIN s.stack = DOMAIN stack' \ {closingDepth'}
    BY <2>1, <2>3
  <2> QED
    BY <1>2, <2>1, <2>2, <2>3, <2>4, SnapTaken
<1>4. CASE Closing # {}
  <2>1. snap' = snap /\ PagesStay' = PagesStay /\ ArtistStays' = ArtistStays
    BY <1>1, <1>4 DEF Save, LayerVars, PagesStay, ArtistStays, Replaced
  <2> QED
    BY <1>1, <1>2, <2>1 DEF Behind, LayerVars
<1> QED
  BY <1>3, <1>4

-----------------------------------------------------------------------------
(* A reload.                                                               *)

AllSaved ==
  RestoredOrder \o Filtered(SavedKeys, {i \in DOMAIN SavedKeys : SavedKeys[i] \notin Range(RestoredOrder)})
ZAt(all, key) == ZBase + Max({p \in DOMAIN all : all[p] = key})
SavedTags == [i \in DOMAIN snap.states |-> IF i \in DOMAIN snap.tags THEN snap.tags[i] ELSE None]

LEMMA Reloaded ==
  ASSUME Reload
  PROVE  /\ searchStates' = snap.states
         /\ searches' = [i \in DOMAIN SavedTags |->
                           [tag |-> SavedTags[i], z |-> ZAt(AllSaved, SearchKey(i))]]
         /\ stack' = [i \in DOMAIN snap.stack |->
                           [work |-> snap.stack[i], z |-> ZAt(AllSaved, StackKey(i))]]
         /\ artist' = IF snap.artist = None THEN None
                      ELSE [id |-> snap.artist, z |-> ZAt(AllSaved, ArtistKey)]
         /\ layerSeq' = RestoredOrder /\ layerZ' = ZBase + Len(AllSaved)
         /\ closingDepth' = 0 /\ artistClosing' = 0 /\ closingSearchZ' = 0 /\ searchTimers' = <<>>
         /\ snap' = snap /\ user' = user
  BY DEF Reload, AllSaved, ZAt, SavedTags

LEMMA ListOf ==
  ASSUME NEW S, NEW f, NEW n \in Nat, f = [i \in 1 .. n |-> f[i]], \A i \in 1 .. n : f[i] \in S
  PROVE  f \in Seq(S)
<1>1. [i \in 1 .. n |-> f[i]] \in Seq(S)
  BY IsASeq
<1> QED
  BY <1>1

LEMMA KeyList ==
  ASSUME NEW seq \in Seq(AllKeys), NEW more \in Seq(AllKeys)
  PROVE  seq \o more \in Seq(AllKeys) /\ Range(seq \o more) = Range(seq) \cup Range(more)
<1>1. PICK m \in Nat, n \in Nat : m = Len(seq) /\ n = Len(more)
  OBVIOUS
<1>2. /\ seq \o more \in Seq(AllKeys) /\ Len(seq \o more) = m + n
      /\ \A i \in 1 .. m + n : (seq \o more)[i] = IF i <= m THEN seq[i] ELSE more[i - m]
  BY <1>1, ConcatProperties
<1> PICK r : r = seq \o more
  OBVIOUS
<1>3. DOMAIN seq = 1 .. m /\ DOMAIN more = 1 .. n /\ DOMAIN r = 1 .. m + n
  BY <1>1, <1>2
<1>4. \A i \in 1 .. m : i \in 1 .. m + n /\ i <= m
  OBVIOUS
<1>5. \A i \in 1 .. n : i + m \in 1 .. m + n /\ ~(i + m <= m) /\ (i + m) - m = i
  OBVIOUS
<1>6. \A i \in 1 .. m + n : i \in 1 .. m \/ (~(i <= m) /\ i - m \in 1 .. n)
  OBVIOUS
<1>7. ASSUME NEW k \in Range(r) PROVE k \in Range(seq) \cup Range(more)
  BY <1>2, <1>3, <1>4, <1>6 DEF Range
<1>8. ASSUME NEW k \in Range(seq) PROVE k \in Range(r)
  <2>1. PICK i \in 1 .. m : k = seq[i]
    BY <1>3 DEF Range
  <2>2. r[i] = k /\ i \in DOMAIN r
    BY <1>2, <1>3, <1>4, <2>1
  <2> QED
    BY <2>2 DEF Range
<1>9. ASSUME NEW k \in Range(more) PROVE k \in Range(r)
  <2>1. PICK i \in 1 .. n : k = more[i]
    BY <1>3 DEF Range
  <2>2. r[i + m] = k /\ i + m \in DOMAIN r
    BY <1>2, <1>3, <1>5, <2>1
  <2> QED
    BY <2>2 DEF Range
<1> QED
  BY <1>2, <1>7, <1>8, <1>9

LEMMA SavedKeysAre ==
  ASSUME SnapOK(snap)
  PROVE  SavedKeys \in Seq(AllKeys) /\ Range(SavedKeys) = Range(snap.order)
<1> PICK A, B, C : /\ A = [i \in DOMAIN snap.states |-> SearchKey(i)]
                   /\ B = [i \in DOMAIN snap.stack |-> StackKey(i)]
                   /\ C = IF snap.artist = None THEN <<>> ELSE <<ArtistKey>>
  OBVIOUS
<1>1. /\ snap.states \in Seq(Tags \cup {None}) /\ snap.stack \in Seq(Works)
      /\ snap.order \in Seq(AllKeys)
      /\ \A i \in Nat \ {0} : StackKey(i) \in Range(snap.order) <=> i \in DOMAIN snap.stack
      /\ \A i \in Nat \ {0} : SearchKey(i) \in Range(snap.order) <=> i \in DOMAIN snap.states
      /\ ArtistKey \in Range(snap.order) <=> snap.artist # None
  BY DEF SnapOK
<1>2. PICK m \in Nat, n \in Nat : DOMAIN snap.states = 1 .. m /\ DOMAIN snap.stack = 1 .. n
  BY <1>1
<1>3. \A i \in Nat \ {0} : SearchKey(i) \in AllKeys /\ StackKey(i) \in AllKeys
  BY KeyZs DEF KeyZsOK
<1>4. A \in Seq(AllKeys) /\ \A k : k \in Range(A) <=> \E i \in 1 .. m : k = SearchKey(i)
  <2>1. \A i \in 1 .. m : A[i] \in AllKeys /\ A[i] = SearchKey(i)
    BY <1>2, <1>3
  <2>2. A = [i \in 1 .. m |-> A[i]] /\ DOMAIN A = 1 .. m
    BY <1>2
  <2>3. A \in Seq(AllKeys)
    BY <2>1, <2>2, ListOf
  <2> QED
    BY <2>1, <2>2, <2>3 DEF Range
<1>5. B \in Seq(AllKeys) /\ \A k : k \in Range(B) <=> \E i \in 1 .. n : k = StackKey(i)
  <2>1. \A i \in 1 .. n : B[i] \in AllKeys /\ B[i] = StackKey(i)
    BY <1>2, <1>3
  <2>2. B = [i \in 1 .. n |-> B[i]] /\ DOMAIN B = 1 .. n
    BY <1>2
  <2>3. B \in Seq(AllKeys)
    BY <2>1, <2>2, ListOf
  <2> QED
    BY <2>1, <2>2, <2>3 DEF Range
<1>6. C \in Seq(AllKeys) /\ \A k : k \in Range(C) <=> k = ArtistKey /\ snap.artist # None
  BY KeyZs DEF KeyZsOK, Range
<1>7. SavedKeys = (A \o B) \o C
  BY DEF SavedKeys
<1>8. SavedKeys \in Seq(AllKeys) /\ Range(SavedKeys) = (Range(A) \cup Range(B)) \cup Range(C)
  <2>1. A \o B \in Seq(AllKeys) /\ Range(A \o B) = Range(A) \cup Range(B)
    BY <1>4, <1>5, KeyList
  <2>2. (A \o B) \o C \in Seq(AllKeys) /\ Range((A \o B) \o C) = Range(A \o B) \cup Range(C)
    BY <1>6, <2>1, KeyList
  <2> QED
    BY <1>7, <2>1, <2>2
<1>9. ASSUME NEW k \in AllKeys PROVE k \in Range(SavedKeys) <=> k \in Range(snap.order)
  <2>0. k \in Range(SavedKeys) <=> k \in Range(A) \/ k \in Range(B) \/ k \in Range(C)
    BY <1>8
  <2>1. ASSUME NEW i \in Nat \ {0}, k = SearchKey(i) PROVE k \in Range(SavedKeys) <=> k \in Range(snap.order)
    <3>1. k \in Range(A) <=> i \in 1 .. m
      <4>1. \A j \in 1 .. m : k = SearchKey(j) <=> j = i
        BY <2>1, KeysDiffer
      <4> QED
        BY <1>4, <4>1
    <3>2. k \notin Range(B) /\ k \notin Range(C)
      <4>1. \A j \in 1 .. n : k # StackKey(j)
        BY <2>1, KeysDiffer
      <4> QED
        BY <1>5, <1>6, <2>1, <4>1, KeysDiffer
    <3> QED
      BY <1>1, <1>2, <2>0, <2>1, <3>1, <3>2
  <2>2. ASSUME NEW i \in Nat \ {0}, k = StackKey(i) PROVE k \in Range(SavedKeys) <=> k \in Range(snap.order)
    <3>1. k \in Range(B) <=> i \in 1 .. n
      <4>1. \A j \in 1 .. n : k = StackKey(j) <=> j = i
        BY <2>2, KeysDiffer
      <4> QED
        BY <1>5, <4>1
    <3>2. k \notin Range(A) /\ k \notin Range(C)
      <4>1. \A j \in 1 .. m : k # SearchKey(j)
        BY <2>2, KeysDiffer
      <4> QED
        BY <1>4, <1>6, <2>2, <4>1, KeysDiffer
    <3> QED
      BY <1>1, <1>2, <2>0, <2>2, <3>1, <3>2
  <2>3. ASSUME k = ArtistKey PROVE k \in Range(SavedKeys) <=> k \in Range(snap.order)
    <3>1. k \notin Range(A) /\ k \notin Range(B)
      <4>1. \A i \in 1 .. m : k # SearchKey(i)
        BY <2>3, KeysDiffer
      <4>2. \A i \in 1 .. n : k # StackKey(i)
        BY <2>3, KeysDiffer
      <4> QED
        BY <1>4, <1>5, <4>1, <4>2
    <3> QED
      BY <1>1, <1>6, <2>0, <2>3, <3>1
  <2> QED
    BY <2>1, <2>2, <2>3 DEF AllKeys
<1>10. Range(SavedKeys) \subseteq AllKeys /\ Range(snap.order) \subseteq AllKeys
  <2>1. \A i \in DOMAIN SavedKeys : SavedKeys[i] \in AllKeys
    BY <1>8, Entry, Zenon
  <2>2. \A i \in DOMAIN snap.order : snap.order[i] \in AllKeys
    BY <1>1, Entry, Zenon
  <2> QED
    BY <2>1, <2>2 DEF Range
<1> QED
  BY <1>8, <1>9, <1>10

\* The saved order is the one restored, and nothing is missing from it.
LEMMA OrderRestored ==
  ASSUME SnapOK(snap)
  PROVE  RestoredOrder = snap.order /\ AllSaved = snap.order
<1> PICK order, saved : order = snap.order /\ saved = SavedKeys
  OBVIOUS
<1>1. order \in Seq(AllKeys) /\ saved \in Seq(AllKeys) /\ Range(saved) = Range(order)
  BY SavedKeysAre DEF SnapOK
<1>2. PICK n \in Nat : n = Len(order) /\ DOMAIN order = 1 .. n
  BY <1>1
<1>3. RestoredOrder = order
  <2>1. CASE order = <<>>
    <3>1. Range(order) = {} /\ Range(saved) = {}
      BY <1>1, <2>1 DEF Range
    <3>2. DOMAIN saved = {}
      BY <3>1 DEF Range
    <3>3. saved = <<>>
      BY <1>1, <3>2, Entry
    <3> QED
      BY <2>1, <3>3 DEF RestoredOrder
  <2>2. CASE order # <<>>
    <3> PICK keep : keep = {i \in DOMAIN order : order[i] \in Range(saved)}
      OBVIOUS
    <3>1. keep = 1 .. n
      BY <1>1, <1>2 DEF Range
    <3>2. Filtered(order, keep) = SubSeq(order, 1, n)
      <4>1. n \in 0 .. Len(order)
        BY <1>2
      <4> QED
        BY <1>1, <3>1, <4>1, KeepFirst
    <3>3. SubSeq(order, 1, n) = order
      BY <1>1, <1>2
    <3> QED
      BY <2>2, <3>2, <3>3 DEF RestoredOrder
  <2> QED
    BY <2>1, <2>2
<1>4. AllSaved = order
  <2> PICK keep : keep = {i \in DOMAIN saved : saved[i] \notin Range(order)}
    OBVIOUS
  <2>1. keep = 1 .. 0
    BY <1>1 DEF Range
  <2>2. Filtered(saved, keep) = SubSeq(saved, 1, 0)
    <3>1. 0 \in 0 .. Len(saved)
      BY <1>1
    <3> QED
      BY <1>1, <2>1, <3>1, KeepFirst
  <2>3. SubSeq(saved, 1, 0) = <<>>
    BY <1>1
  <2>4. AllSaved = order \o Filtered(saved, keep)
    BY <1>3 DEF AllSaved
  <2> QED
    BY <1>1, <2>2, <2>3, <2>4, ConcatEmptySeq
<1> QED
  BY <1>3, <1>4

\* A layer gets the z of the last place of its key.
LEMMA ZPlace ==
  ASSUME NEW order \in Seq(AllKeys), NEW key \in Range(order)
  PROVE  \E m \in DOMAIN order : /\ order[m] = key
                                 /\ \A p \in DOMAIN order : order[p] = key => p <= m
                                 /\ ZAt(order, key) = ZBase + m
<1>1. PICK n \in Nat : DOMAIN order = 1 .. n
  OBVIOUS
<1> PICK S : S = {p \in DOMAIN order : order[p] = key}
  OBVIOUS
<1>2. S \in SUBSET (1 .. n) /\ S # {} /\ S \in SUBSET Nat
  BY <1>1 DEF Range
<1>3. PICK m \in S : \A i \in S : i <= m
  BY <1>2, LastOf
<1>4. Max(S) = m
  BY <1>2, <1>3, MaxIs
<1>5. ZAt(order, key) = ZBase + m
  BY <1>4 DEF ZAt
<1> QED
  BY <1>3, <1>5

LEMMA ReloadKeeps == ASSUME SnapOK(snap), Reload PROVE LayersInv' /\ Behind(snap)'
<1> PICK order, z : order = snap.order /\ z = [key \in AllKeys |-> ZAt(snap.order, key)]
  OBVIOUS
<1>0. order \in Seq(AllKeys)
  BY DEF SnapOK
<1>1. /\ order \in Seq(AllKeys)
      /\ \A i \in Nat \ {0} : StackKey(i) \in Range(order) <=> i \in DOMAIN snap.stack
      /\ \A i \in Nat \ {0} : SearchKey(i) \in Range(order) <=> i \in DOMAIN snap.states
      /\ ArtistKey \in Range(order) <=> snap.artist # None
      /\ snap.stack \in Seq(Works) /\ snap.states \in Seq(Tags \cup {None})
      /\ snap.states = snap.tags /\ snap.artist \in Artists \cup {None}
      /\ \A p, q \in DOMAIN order : order[p] = order[q] => p = q \/ order[p] = ArtistKey
      /\ \A p, q \in DOMAIN order : \A i, j \in Nat \ {0} :
           /\ p < q /\ order[p] = SearchKey(i) /\ order[q] = SearchKey(j) => i < j
           /\ p < q /\ order[p] = StackKey(i) /\ order[q] = StackKey(j) => i < j
  BY DEF SnapOK
<1>2. PICK n \in Nat, a \in Nat, b \in Nat : /\ n = Len(order) /\ DOMAIN order = 1 .. n
                                             /\ DOMAIN snap.states = 1 .. a /\ DOMAIN snap.stack = 1 .. b
  BY <1>1
<1>3. ZBase \in Nat
  BY LayersAssumption
<1>4. /\ searchStates' = snap.states
      /\ searches' = [i \in 1 .. a |-> [tag |-> snap.states[i], z |-> ZAt(order, SearchKey(i))]]
      /\ stack' = [i \in 1 .. b |-> [work |-> snap.stack[i], z |-> ZAt(order, StackKey(i))]]
      /\ artist' = IF snap.artist = None THEN None ELSE [id |-> snap.artist, z |-> ZAt(order, ArtistKey)]
      /\ layerSeq' = order /\ layerZ' = ZBase + n
      /\ closingDepth' = 0 /\ artistClosing' = 0 /\ closingSearchZ' = 0 /\ searchTimers' = <<>>
  <2>1. SavedTags = [i \in 1 .. a |-> snap.states[i]] /\ DOMAIN SavedTags = 1 .. a
    BY <1>1, <1>2 DEF SavedTags
  <2>2. \A i \in 1 .. a : SavedTags[i] = snap.states[i]
    BY <2>1
  <2>3. AllSaved = order /\ RestoredOrder = order
    BY OrderRestored
  <2> QED
    BY <1>2, <2>1, <2>2, <2>3, Reloaded
<1>5. ASSUME NEW key \in Range(order)
      PROVE  /\ key \in AllKeys /\ z[key] = ZAt(order, key)
             /\ z[key] \in Nat \ {0} /\ z[key] <= ZBase + n
             /\ \E m \in 1 .. n : /\ order[m] = key /\ z[key] = ZBase + m
                                  /\ \A p \in 1 .. n : order[p] = key => p <= m
  <2>1. key \in AllKeys
    <3>1. \A i \in DOMAIN order : order[i] \in AllKeys
      BY <1>1, Entry, Zenon
    <3> QED
      BY <3>1 DEF Range
  <2>2. z[key] = ZAt(order, key)
    BY <2>1
  <2>3. PICK m \in DOMAIN order : /\ order[m] = key
                                  /\ \A p \in DOMAIN order : order[p] = key => p <= m
                                  /\ ZAt(order, key) = ZBase + m
    BY <1>0, ZPlace, Zenon
  <2>4. m \in 1 .. n /\ \A p \in 1 .. n : order[p] = key => p <= m
    BY <1>2, <2>3
  <2>5. ZBase + m \in Nat \ {0} /\ ZBase + m <= ZBase + n
    BY <1>2, <1>3, <2>4
  <2> QED
    BY <2>1, <2>2, <2>3, <2>4, <2>5
<1>21. \A key \in Range(order) : z[key] \in Nat \ {0} /\ z[key] <= ZBase + n
  BY <1>5
<1>22. /\ \A i \in 1 .. a : snap.states[i] \in Tags \cup {None}
       /\ \A i \in 1 .. b : snap.stack[i] \in Works
       /\ snap.states = [i \in 1 .. a |-> snap.states[i]]
  <2>1. snap.states \in Seq(Tags \cup {None}) /\ snap.stack \in Seq(Works)
    BY <1>1
  <2>2. \A i \in DOMAIN snap.states : snap.states[i] \in Tags \cup {None}
    BY <2>1, Entry, Zenon
  <2>3. \A i \in DOMAIN snap.stack : snap.stack[i] \in Works
    BY <2>1, Entry, Zenon
  <2>4. snap.states = [i \in DOMAIN snap.states |-> snap.states[i]]
    BY <2>1
  <2> QED
    BY <1>2, <2>2, <2>3, <2>4
<1>6. \A i \in 1 .. a : i \in Nat \ {0} /\ SearchKey(i) \in Range(order)
  BY <1>1, <1>2
<1>7. \A i \in 1 .. b : i \in Nat \ {0} /\ StackKey(i) \in Range(order)
  BY <1>1, <1>2
<1>8. \A i \in 1 .. a : /\ searches'[i] = [tag |-> snap.states[i], z |-> z[SearchKey(i)]]
                        /\ searches'[i].z = z[SearchKey(i)] /\ searches'[i].tag = snap.states[i]
  BY <1>4, <1>5, <1>6
<1>9. \A i \in 1 .. b : /\ stack'[i] = [work |-> snap.stack[i], z |-> z[StackKey(i)]]
                        /\ stack'[i].z = z[StackKey(i)]
  BY <1>4, <1>5, <1>7
<1>10. artist' # None => /\ snap.artist # None /\ ArtistKey \in Range(order)
                         /\ artist' = [id |-> snap.artist, z |-> z[ArtistKey]]
  BY <1>1, <1>4, <1>5
<1>11. artist' # None <=> snap.artist # None
  <2>1. ASSUME snap.artist # None PROVE artist' # None
    <3>1. ArtistKey \in Range(order) /\ snap.artist \in Artists
      BY <1>1, <2>1
    <3>2. ZAt(order, ArtistKey) \in Nat
      BY <1>5, <3>1
    <3>3. [id |-> snap.artist, z |-> ZAt(order, ArtistKey)] \in [id : Artists, z : Nat]
      BY <3>1, <3>2
    <3> QED
      BY <1>4, <2>1, <3>3, LayersAssumption
  <2> QED
    BY <1>10, <2>1
<1>12. \A key \in Range(order) : KeyZ'[key] = z[key]
  <2>1. \A i \in 1 .. a : KeyZ'[SearchKey(i)] = z[SearchKey(i)]
    BY <1>6, <1>8, KeyZsNext DEF KeyZsOK
  <2>2. \A i \in 1 .. b : KeyZ'[StackKey(i)] = z[StackKey(i)]
    BY <1>7, <1>9, KeyZsNext DEF KeyZsOK
  <2>3. ArtistKey \in Range(order) => KeyZ'[ArtistKey] = z[ArtistKey]
    BY <1>1, <1>10, <1>11, KeyZsNext DEF KeyZsOK
  <2>4. ASSUME NEW key \in Range(order)
        PROVE  (\E i \in 1 .. a : key = SearchKey(i)) \/ (\E i \in 1 .. b : key = StackKey(i)) \/ key = ArtistKey
    <3>1. key \in AllKeys
      BY <1>5
    <3>2. ASSUME NEW i \in Nat \ {0}, key = SearchKey(i) PROVE i \in 1 .. a
      BY <1>1, <1>2, <3>2
    <3>3. ASSUME NEW i \in Nat \ {0}, key = StackKey(i) PROVE i \in 1 .. b
      BY <1>1, <1>2, <3>3
    <3> QED
      BY <3>1, <3>2, <3>3 DEF AllKeys
  <2> QED
    BY <2>1, <2>2, <2>3, <2>4
<1>13. IsOrdered(layerSeq, KeyZ)'
  <2> PICK y : y = KeyZ'
    OBVIOUS
  <2>1. \A p \in 1 .. n : order[p] \in Range(order) /\ y[order[p]] = z[order[p]]
    BY <1>2, <1>12 DEF Range
  <2>2. ASSUME NEW p \in 1 .. n, NEW q \in 1 .. n, p < q
        PROVE  \/ y[order[p]] < y[order[q]]
               \/ order[p] = ArtistKey /\ \E r \in 1 .. n : p < r /\ order[r] = ArtistKey
    <3>1. PICK k \in 1 .. n : /\ order[k] = order[p] /\ z[order[p]] = ZBase + k
                              /\ \A i \in 1 .. n : order[i] = order[p] => i <= k
      BY <1>5, <2>1
    <3>2. PICK l \in 1 .. n : /\ order[l] = order[q] /\ z[order[q]] = ZBase + l
                              /\ \A i \in 1 .. n : order[i] = order[q] => i <= l
      BY <1>5, <2>1
    <3>3. p <= k /\ q <= l
      BY <3>1, <3>2
    <3>4. CASE p = k
      <4>1. k < l
        BY <2>2, <3>3, <3>4
      <4>2. ZBase + k < ZBase + l
        BY <1>3, <4>1
      <4> QED
        BY <2>1, <3>1, <3>2, <4>2
    <3>5. CASE p # k
      <4>1. \A i, j \in 1 .. n : order[i] = order[j] => i = j \/ order[i] = ArtistKey
        BY <1>1, <1>2
      <4>2. order[p] = ArtistKey
        BY <3>1, <3>5, <4>1
      <4>3. p < k
        BY <3>1, <3>3, <3>5
      <4> QED
        BY <3>1, <4>2, <4>3
    <3> QED
      BY <3>4, <3>5
  <2>3. IsOrdered(order, y)
    BY <1>1, <1>2, <2>2 DEF IsOrdered
  <2> QED
    BY <1>4, <2>3
<1>14. searches' \in Seq(Page) /\ stack' \in Seq(Level)
  <2>1. \A i \in 1 .. a : searches'[i] \in Page
    <3>1. \A i \in 1 .. a : snap.states[i] \in Tags \cup {None} /\ z[SearchKey(i)] \in Nat \ {0}
      BY <1>6, <1>21, <1>22
    <3>2. \A i \in 1 .. a : searches'[i] = [tag |-> snap.states[i], z |-> z[SearchKey(i)]]
      BY <1>8
    <3> TAKE i \in 1 .. a
    <3> PICK t, y : t = snap.states[i] /\ y = z[SearchKey(i)]
      OBVIOUS
    <3>3. t \in Tags \cup {None} /\ y \in Nat \ {0} /\ searches'[i] = [tag |-> t, z |-> y]
      BY <3>1, <3>2
    <3> QED
      BY <3>3 DEF Page
  <2>2. \A i \in 1 .. b : stack'[i] \in Level
    <3>1. \A i \in 1 .. b : snap.stack[i] \in Works /\ z[StackKey(i)] \in Nat \ {0}
      BY <1>7, <1>21, <1>22
    <3>2. \A i \in 1 .. b : stack'[i] = [work |-> snap.stack[i], z |-> z[StackKey(i)]]
      BY <1>9
    <3> TAKE i \in 1 .. b
    <3> PICK t, y : t = snap.stack[i] /\ y = z[StackKey(i)]
      OBVIOUS
    <3>3. t \in Works /\ y \in Nat \ {0} /\ stack'[i] = [work |-> t, z |-> y]
      BY <3>1, <3>2
    <3> QED
      BY <3>3 DEF Level
  <2>3. searches' = [i \in 1 .. a |-> searches'[i]] /\ stack' = [i \in 1 .. b |-> stack'[i]]
    BY <1>4
  <2> QED
    BY <2>1, <2>2, <2>3, ListOf
<1>15. LayersTypes'
  <2>1. artist' # None => artist' \in [id : Artists, z : Nat \ {0}]
    <3>1. snap.artist \in Artists \cup {None}
      BY <1>1
    <3> QED
      BY <1>10, <1>21, <3>1
  <2>2. ZBase + n \in Nat
    BY <1>2, <1>3
  <2> QED
    BY <1>1, <1>4, <1>14, <2>1, <2>2 DEF LayersTypes
<1>16. DOMAIN searches' = 1 .. a /\ DOMAIN stack' = 1 .. b /\ PagesStay' = 1 .. a
  <2>1. DOMAIN searches' = 1 .. a /\ DOMAIN stack' = 1 .. b
    BY <1>4
  <2>2. ASSUME NEW i \in 1 .. a PROVE searches'[i].z # 0
    <3>1. z[SearchKey(i)] \in Nat \ {0}
      BY <1>6, <1>21
    <3>2. searches'[i].z = z[SearchKey(i)]
      BY <1>8
    <3> QED
      BY <3>1, <3>2
  <2> QED
    BY <1>4, <2>1, <2>2 DEF PagesStay
<1>17. KeysAgree'
  <2>1. ArtistStays' <=> snap.artist # None
    BY <1>4, <1>11 DEF ArtistStays
  <2>2. \A i \in Nat \ {0} : i # 0
    OBVIOUS
  <2> QED
    BY <1>1, <1>2, <1>4, <1>16, <2>1, <2>2 DEF KeysAgree
<1>18. Climbing'
  <2>1. ASSUME NEW i \in 1 .. a, NEW j \in 1 .. a, i < j PROVE searches'[i].z < searches'[j].z
    <3>1. PICK k \in 1 .. n : order[k] = SearchKey(i) /\ z[SearchKey(i)] = ZBase + k
      BY <1>5, <1>6
    <3>2. PICK l \in 1 .. n : order[l] = SearchKey(j) /\ z[SearchKey(j)] = ZBase + l
      BY <1>5, <1>6
    <3>3. ~(l < k)
      <4>1. l < k => j < i
        BY <1>1, <1>2, <1>6, <3>1, <3>2
      <4> QED
        BY <2>1, <4>1
    <3>4. k # l
      BY <1>6, <2>1, <3>1, <3>2, KeysDiffer
    <3>5. ZBase + k < ZBase + l
      BY <1>3, <3>3, <3>4
    <3> QED
      BY <1>8, <3>1, <3>2, <3>5
  <2>2. \A i \in 1 .. a : searches'[i].z <= layerZ'
    BY <1>4, <1>6, <1>8, <1>21
  <2>3. \A i \in 1 .. b : stack'[i].z <= layerZ'
    BY <1>4, <1>7, <1>9, <1>21
  <2>4. artist' # None => artist'.z <= layerZ'
    BY <1>4, <1>10, <1>21
  <2>5. artistClosing' <= layerZ'
    BY <1>2, <1>3, <1>4
  <2>6. ASSUME NEW i \in 1 .. b, NEW j \in 1 .. b, i < j PROVE stack'[i].z < stack'[j].z
    <3>1. PICK k \in 1 .. n : order[k] = StackKey(i) /\ z[StackKey(i)] = ZBase + k
      BY <1>5, <1>7
    <3>2. PICK l \in 1 .. n : order[l] = StackKey(j) /\ z[StackKey(j)] = ZBase + l
      BY <1>5, <1>7
    <3>3. ~(l < k)
      <4>1. l < k => j < i
        BY <1>1, <1>2, <1>7, <3>1, <3>2
      <4> QED
        BY <2>6, <4>1
    <3>4. k # l
      BY <1>7, <2>6, <3>1, <3>2, KeysDiffer
    <3>5. ZBase + k < ZBase + l
      BY <1>3, <3>3, <3>4
    <3> QED
      BY <1>9, <3>1, <3>2, <3>5
  <2> QED
    BY <1>16, <2>1, <2>2, <2>3, <2>4, <2>5, <2>6 DEF Climbing
<1>19. SlidesOut'
  BY <1>4 DEF SlidesOut
<1>20. (searchStates = TagsOf(searches))'
  <2>1. TagsOf(searches)' = [i \in 1 .. a |-> searches'[i].tag]
    BY <1>16 DEF TagsOf
  <2>2. \A i \in 1 .. a : searches'[i].tag = snap.states[i]
    BY <1>8
  <2> QED
    BY <1>4, <1>22, <2>1, <2>2
<1>23. Behind(snap)'
  <2>1. snap' = snap
    BY Reloaded
  <2>2. \A i \in 1 .. b : i # 0 /\ stack'[i].work = snap.stack[i]
    <3> TAKE i \in 1 .. b
    <3> PICK w, y : w = snap.stack[i] /\ y = z[StackKey(i)]
      OBVIOUS
    <3>1. stack'[i] = [work |-> w, z |-> y]
      BY <1>9
    <3> QED
      BY <1>2, <3>1
  <2>3. snap.artist # None => ArtistStays'
    BY <1>4, <1>11 DEF ArtistStays
  <2> QED
    BY <1>1, <1>2, <1>4, <1>8, <1>16, <2>1, <2>2, <2>3 DEF Behind
<1> QED
  BY <1>13, <1>15, <1>17, <1>18, <1>19, <1>20, <1>23 DEF LayersInv

-----------------------------------------------------------------------------
(* The invariant, and what the screen shows.                               *)

\* A user who waits for a slide-out before the next close.
Waits == MaxTimers <= 1 /\ Reloads \subseteq {"patient"}

LEMMA LayersInit == ASSUME Init PROVE LayersInv /\ SnapOK(snap) /\ Behind(snap)
<1> USE DEF Init
<1>1. DOMAIN stack = {} /\ DOMAIN searches = {} /\ DOMAIN layerSeq = {} /\ Range(layerSeq) = {}
  BY DEF Range
<1>2. LayersTypes /\ KeysAgree /\ Climbing /\ SlidesOut
  BY <1>1, LayersAssumption DEF LayersTypes, KeysAgree, Climbing, SlidesOut, PagesStay, ArtistStays
<1>3. IsOrdered(layerSeq, KeyZ)
  BY <1>1 DEF IsOrdered
<1>4. TagsOf(searches) = <<>>
  BY DEF TagsOf
<1>5. LayersInv
  BY <1>2, <1>3, <1>4 DEF LayersInv
<1>6. WorksOf(stack) = <<>>
  BY DEF WorksOf
<1>7. /\ snap.stack = <<>> /\ snap.states = <<>> /\ snap.tags = <<>> /\ snap.order = <<>>
      /\ snap.artist = None
  BY <1>4, <1>6 DEF Snapshot
<1>8. /\ snap.order \in Seq(AllKeys) /\ snap.stack \in Seq(Works) /\ snap.states \in Seq(Tags \cup {None})
      /\ DOMAIN snap.order = {} /\ DOMAIN snap.stack = {} /\ DOMAIN snap.states = {}
      /\ Range(snap.order) = {}
  BY <1>7 DEF Range
<1>9. SnapOK(snap)
  BY <1>7, <1>8 DEF SnapOK
<1>10. Behind(snap)
  BY <1>7, <1>8 DEF Behind
<1> QED
  BY <1>5, <1>9, <1>10

\* A snapshot is left behind as long as what stays is there afterwards.
LEMMA StaysBehind ==
  ASSUME LayersInv, LayersInv', Grown, SnapInv, snap' = snap, user' = user
  PROVE  SnapInv'
<1> SUFFICES ASSUME user \in Reloads PROVE SnapOK(snap)' /\ Behind(snap)'
  BY DEF SnapInv
<1>1. SnapOK(snap) /\ Behind(snap)
  BY DEF SnapInv
<1>2. SnapOK(snap)'
  BY <1>1
<1>3. DOMAIN stack \subseteq Nat \ {0} /\ DOMAIN searches \subseteq Nat \ {0}
  BY Entry DEF LayersInv, LayersTypes
<1>4. ASSUME NEW i \in DOMAIN snap.stack
      PROVE  i \in DOMAIN stack' /\ i # closingDepth' /\ snap.stack[i] = stack'[i].work
  <2>1. i \in DOMAIN stack /\ i # closingDepth /\ snap.stack[i] = stack[i].work
    BY <1>1 DEF Behind
  <2>2. StackKey(i) \in Range(layerSeq')
    BY <1>3, <2>1 DEF LayersInv, KeysAgree, Grown
  <2>3. i \in DOMAIN stack' /\ i # closingDepth'
    BY <1>3, <2>1, <2>2 DEF LayersInv, KeysAgree
  <2> QED
    BY <2>1, <2>3 DEF Grown, LevelsStill
<1>5. ASSUME NEW i \in DOMAIN snap.tags
      PROVE  i \in PagesStay' /\ snap.tags[i] = searches'[i].tag
  <2>1. i \in PagesStay /\ i \in DOMAIN searches /\ snap.tags[i] = searches[i].tag
    BY <1>1 DEF Behind, PagesStay
  <2>2. SearchKey(i) \in Range(layerSeq')
    BY <1>3, <2>1 DEF LayersInv, KeysAgree, Grown
  <2>3. i \in PagesStay'
    BY <1>3, <2>1, <2>2 DEF LayersInv, KeysAgree
  <2> QED
    BY <2>1, <2>3 DEF Grown, PagesStill
<1>6. snap.artist # None => ArtistStays'
  BY <1>1 DEF Behind, LayersInv, KeysAgree, Grown
<1> QED
  BY <1>2, <1>4, <1>5, <1>6 DEF Behind

LEMMA LayersNext ==
  ASSUME LayersInv, SnapInv, Waits, [Next]_vars
  PROVE  LayersInv' /\ SnapInv'
<1>1. CASE Step(OpenLayer)
  <2>1. OpenLayer /\ user' = user
    BY <1>1 DEF Step
  <2>2. CASE \E work \in Works : PushRelated(work)
    BY <2>1, <2>2, PushKeeps, StaysBehind DEF PushRelated
  <2>3. CASE \E id \in Artists : OpenArtist(id)
    BY <2>1, <2>3, OpenArtistKeeps, StaysBehind DEF OpenArtist
  <2>4. ASSUME NEW tag \in Tags \cup {None}, OpenPage(tag) PROVE LayersInv' /\ SnapInv'
    <3>1. snap' = snap
      BY <2>4 DEF OpenPage
    <3> QED
      BY <2>1, <2>4, <3>1, OpenPageKeeps, StaysBehind
  <2> QED
    BY <2>1, <2>2, <2>3, <2>4 DEF OpenLayer
<1>2. CASE Step(CloseButton) \/ EdgeBack
  <2>1. MayClose /\ Closes /\ user' = user
    BY <1>2, ButtonCloses, GestureCloses DEF Step, CloseButton, EdgeBack, Closes
  <2>2. LayersInv'
    BY <2>1, ClosesKeep DEF Waits
  <2>3. user \in Reloads => Closing = {}
    BY <2>1 DEF Waits, MayClose
  <2> QED
    BY <2>1, <2>2, <2>3, ClosesSnap DEF Waits, SnapInv
<1>3. CASE Step(Timers)
  <2>1. LayersInv' /\ Grown
    BY <1>3, PopDoneKeeps, ArtistDoneKeeps, SearchDoneKeeps DEF Step, Timers
  <2>2. snap' = snap /\ user' = user
    BY <1>3 DEF Step, Timers, PopDone, ArtistDone, SearchDone
  <2> QED
    BY <2>1, <2>2, StaysBehind
<1>4. CASE Step(Save)
  BY <1>4, SaveKeeps DEF Step, SnapInv
<1>5. CASE Reload
  <2>1. user \in Reloads /\ user' = user /\ snap' = snap
    BY <1>5 DEF Reload
  <2> QED
    BY <1>5, <2>1, ReloadKeeps DEF SnapInv
<1>6. CASE UNCHANGED vars
  <2>1. UNCHANGED LayerVars /\ snap' = snap /\ user' = user
    BY <1>6 DEF vars, LayerVars
  <2>2. LayersInv' /\ Grown
    BY <2>1, LayersSame DEF LayerVars, Grown, LevelsStill, PagesStill
  <2> QED
    BY <2>1, <2>2, StaysBehind
<1> QED
  BY <1>1, <1>2, <1>3, <1>4, <1>5, <1>6 DEF Next

\* The order, the pages and the snapshot agree between any two handlers, for every
\* number of works, artists, tags and levels.
THEOREM Layered == Waits /\ Spec => [](LayersInv /\ SnapInv)
<1> SUFFICES ASSUME Waits PROVE Spec => [](LayersInv /\ SnapInv)
  OBVIOUS
<1>1. Init => LayersInv /\ SnapInv
  BY LayersInit DEF SnapInv
<1>2. LayersInv /\ SnapInv /\ [Next]_vars => (LayersInv /\ SnapInv)'
  BY LayersNext
<1> QED
  BY <1>1, <1>2, PTL DEF Spec

\* topZ is the z of the layer the user sees on top.
THEOREM TopShown == Waits /\ Spec => []TopIsVisible
<1>1. LayersInv => TopIsVisible
  BY Top DEF TopIsVisible
<1> QED
  BY <1>1, Layered, PTL

\* The open order names the layers that stay and no other, and each page has its own
\* state in the parallel array.
THEOREM BooksRight == Waits /\ Spec => []BooksAgree
<1>1. LayersInv => BooksAgree
  BY Books
<1> QED
  BY <1>1, Layered, PTL

-----------------------------------------------------------------------------
(* The debounced save.                                                     *)

\* An artist page that replaced one on its way out was opened: the saver was armed
\* then, and the slide-out ends first.
ReplArmed == Replaced => armed /\ "artist" \in before

LEMMA ArmQuiet == ASSUME Arm PROVE (SavedWhenQuiet /\ ReplArmed)'
<1>1. armed' /\ before' = Closing'
  BY DEF Arm
<1>2. Replaced' => "artist" \in Closing'
  BY DEF Replaced, Closing
<1> QED
  BY <1>1, <1>2 DEF SavedWhenQuiet, ReplArmed

\* Without a start of the timer, what is left must be shown or still sliding out.
LEMMA NoArmQuiet ==
  ASSUME ReplArmed, NoArm, Replaced' => Replaced, (~ armed /\ Closing' = {}) => snap' = Snapshot'
  PROVE  (SavedWhenQuiet /\ ReplArmed)'
<1>1. armed' = armed /\ before' = before \cap Closing'
  BY DEF NoArm
<1>2. Replaced' => "artist" \in Closing'
  BY DEF Replaced, Closing
<1>3. SavedWhenQuiet'
  BY <1>1 DEF SavedWhenQuiet
<1>4. ReplArmed'
  BY <1>1, <1>2 DEF ReplArmed
<1> QED
  BY <1>3, <1>4

LEMMA ClosesQuiet ==
  ASSUME LayersInv, ReplArmed, Closes
  PROVE  (SavedWhenQuiet /\ ReplArmed)'
<1>1. CASE PopRelated
  <2>1. Len(stack) # 0
    BY <1>1, FrontOf DEF PopRelated, LayersInv, LayersTypes
  <2>2. Closing' # {} /\ NoArm /\ Replaced' = Replaced
    BY <1>1, <2>1 DEF PopRelated, Closing, Replaced, artistPage
  <2> QED
    BY <2>2, NoArmQuiet
<1>2. CASE CloseAllStacks
  BY <1>2, ArmQuiet DEF CloseAllStacks
<1>3. CASE CloseArtist
  <2>1. artist.z # 0
    BY <1>3, Zs DEF CloseArtist, ZsOK
  <2>2. Closing' # {} /\ NoArm /\ ~ Replaced'
    BY <1>3, <2>1 DEF CloseArtist, Closing, Replaced
  <2> QED
    BY <2>2, NoArmQuiet
<1>4. CASE ClosesLast
  <2>1. searches[Len(searches)].z # 0
    <3>1. Len(searches) \in DOMAIN searches
      BY <1>4, LastPage, Entry DEF ClosesLast, LayersInv, LayersTypes
    <3> QED
      BY <3>1, Zs DEF ZsOK
  <2>2. Closing' # {} /\ NoArm /\ Replaced' = Replaced
    BY <1>4, <2>1 DEF ClosesLast, CloseSearch, Closing, Replaced, artistPage
  <2> QED
    BY <2>2, NoArmQuiet
<1> QED
  BY <1>1, <1>2, <1>3, <1>4 DEF Closes

LEMMA QuietNext ==
  ASSUME LayersInv, SavedWhenQuiet, ReplArmed, [Next]_vars
  PROVE  (SavedWhenQuiet /\ ReplArmed)'
<1>1. CASE Step(OpenLayer)
  <2>1. Arm
    BY <1>1 DEF Step, OpenLayer, PushRelated, OpenArtist, OpenPage
  <2> QED
    BY <2>1, ArmQuiet
<1>2. CASE Step(CloseButton) \/ EdgeBack
  <2>1. Closes
    BY <1>2, ButtonCloses, GestureCloses DEF Step, CloseButton, EdgeBack, Closes
  <2> QED
    BY <2>1, ClosesQuiet
<1>3. CASE Step(Timers)
  <2>1. CASE PopDone
    BY <2>1, ArmQuiet DEF PopDone
  <2>2. CASE ArtistDone
    <3>1. CASE artist' # artist
      BY <2>2, <3>1, ArmQuiet DEF ArtistDone
    <3>2. CASE artist' = artist
      <4>1. artist # None /\ artist.z # artistClosing /\ artistClosing # 0
        BY <2>2, <3>2 DEF ArtistDone, ArtistLeft, LayersInv, SlidesOut
      <4>2. armed
        BY <4>1 DEF ReplArmed, Replaced
      <4>3. NoArm /\ ~ Replaced'
        BY <2>2, <3>2 DEF ArtistDone, Replaced
      <4> QED
        BY <4>2, <4>3, NoArmQuiet
    <3> QED
      BY <3>1, <3>2
  <2>3. CASE SearchDone
    <3>1. CASE Arm
      BY <3>1, ArmQuiet
    <3>2. CASE /\ UNCHANGED <<searches, searchStates, closingSearchZ, layerZ>> /\ NoArm
               /\ UNCHANGED <<stack, closingDepth, artist, artistClosing, layerSeq, snap>>
      <4>1. Closing' = Closing /\ Replaced' = Replaced /\ Snapshot' = Snapshot
        BY <3>2 DEF Closing, Replaced, Snapshot, WorksOf, TagsOf
      <4> QED
        BY <3>2, <4>1, NoArmQuiet DEF SavedWhenQuiet
    <3> QED
      BY <2>3, <3>1, <3>2 DEF SearchDone, related, artistPage
  <2> QED
    BY <1>3, <2>1, <2>2, <2>3 DEF Step, Timers
<1>4. CASE Step(Save)
  <2>1. /\ ~ armed' /\ before = {} /\ snap' = IF Closing = {} THEN Snapshot ELSE snap
        /\ UNCHANGED LayerVars
    BY <1>4 DEF Step, Save, LayerVars, related, artistPage, pages
  <2>2. Closing' = Closing /\ Replaced' = Replaced /\ Snapshot' = Snapshot
    BY <2>1 DEF LayerVars, Closing, Replaced, Snapshot, WorksOf, TagsOf
  <2> QED
    BY <2>1, <2>2 DEF SavedWhenQuiet, ReplArmed
<1>5. CASE Reload
  BY <1>5 DEF Reload, SavedWhenQuiet, ReplArmed, Replaced
<1>6. CASE UNCHANGED vars
  <2>1. /\ Closing' = Closing /\ Replaced' = Replaced /\ Snapshot' = Snapshot
        /\ armed' = armed /\ before' = before /\ snap' = snap
    BY <1>6 DEF vars, Closing, Replaced, Snapshot, WorksOf, TagsOf
  <2> QED
    BY <2>1 DEF SavedWhenQuiet, ReplArmed
<1> QED
  BY <1>1, <1>2, <1>3, <1>4, <1>5, <1>6 DEF Next

\* Once nothing slides out and the debounce is over, the snapshot is the screen.
THEOREM QuietIsSaved == Waits /\ Spec => []SavedWhenQuiet
<1> SUFFICES ASSUME Waits PROVE Spec => []SavedWhenQuiet
  OBVIOUS
<1>1. Init => SavedWhenQuiet /\ ReplArmed
  BY DEF Init, SavedWhenQuiet, ReplArmed, Replaced
<1>2. LayersInv /\ SavedWhenQuiet /\ ReplArmed /\ [Next]_vars => (SavedWhenQuiet /\ ReplArmed)'
  BY QuietNext
<1>3. Spec => []LayersInv
  BY Layered, PTL
<1> QED
  BY <1>1, <1>2, <1>3, PTL DEF Spec
-----------------------------------------------------------------------------
(* Which layers are open, and where.                                       *)

\* The last places of two keys tell which of the layers is on top, and no two keys
\* have the same z.
Tells(order, k, l, p, q) ==
  /\ p = q => k = l
  /\ \A z : IsOrdered(order, z) => (p < q => z[k] < z[l]) /\ (q < p => z[l] < z[k])
LEMMA OrderTells ==
  ASSUME NEW order \in Seq(AllKeys), NEW k \in Range(order), NEW l \in Range(order)
  PROVE  \E p \in Nat, q \in Nat : Tells(order, k, l, p, q)
<1>1. PICK n \in Nat : DOMAIN order = 1 .. n
  OBVIOUS
<1> PICK S, T : S = {i \in DOMAIN order : order[i] = k} /\ T = {i \in DOMAIN order : order[i] = l}
  OBVIOUS
<1>2. S \in SUBSET (1 .. n) /\ S # {} /\ T \in SUBSET (1 .. n) /\ T # {}
  BY <1>1 DEF Range
<1>3. PICK p \in S : \A i \in S : i <= p
  BY <1>1, <1>2, LastOf
<1>4. PICK q \in T : \A i \in T : i <= q
  BY <1>1, <1>2, LastOf
<1>5. /\ p \in 1 .. n /\ order[p] = k /\ q \in 1 .. n /\ order[q] = l
      /\ \A r \in 1 .. n : p < r => order[r] # k
      /\ \A r \in 1 .. n : q < r => order[r] # l
  <2>1. ASSUME NEW r \in 1 .. n, p < r PROVE order[r] # k
    BY <1>1, <1>2, <1>3, <2>1
  <2>2. ASSUME NEW r \in 1 .. n, q < r PROVE order[r] # l
    BY <1>1, <1>2, <1>4, <2>2
  <2> QED
    BY <1>1, <2>1, <2>2
<1>6. ASSUME NEW z, IsOrdered(order, z)
      PROVE  (p < q => z[k] < z[l]) /\ (q < p => z[l] < z[k])
  BY <1>1, <1>5, <1>6 DEF IsOrdered
<1>7. p \in Nat /\ q \in Nat /\ (p = q => k = l)
  BY <1>5
<1>8. Tells(order, k, l, p, q)
  BY <1>6, <1>7 DEF Tells
<1> QED
  BY <1>7, <1>8

OpenOK ==
  /\ Open = Range(layerSeq) \ (IF artistClosing = 0 THEN {} ELSE {ArtistKey})
  /\ OpenZs = {KeyZ[k] : k \in Open}
  /\ Above = {pair \in Open \X Open : KeyZ[pair[1]] > KeyZ[pair[2]]}
  /\ Unasked = {KeyZ[k] : k \in Range(layerSeq)}

LEMMA OpenLayers == ASSUME LayersInv PROVE OpenOK
<1>1. \A k \in Range(layerSeq) : ZOf(k) = 0 <=> k = ArtistKey /\ artistClosing # 0
  <2>1. ASSUME NEW k \in Range(layerSeq) PROVE ZOf(k) = 0 <=> k = ArtistKey /\ artistClosing # 0
    <3>1. CASE \E i \in DOMAIN stack : i \in Nat \ {0} /\ k = StackKey(i) /\ i # closingDepth
      BY <3>1, ZOfKeys, Zs, KeysDiffer DEF ZsOK
    <3>2. CASE \E i \in DOMAIN searches : i \in Nat \ {0} /\ k = SearchKey(i) /\ i \in PagesStay
      BY <3>2, ZOfKeys, Zs, KeysDiffer DEF ZsOK
    <3>3. CASE k = ArtistKey /\ ArtistStays
      BY <3>3, ZOfKeys, Zs DEF ZsOK, ArtistStays
    <3> QED
      BY <3>1, <3>2, <3>3, KeysBelow
  <2> QED
    BY <2>1
<1>2. Open = Range(layerSeq) \ (IF artistClosing = 0 THEN {} ELSE {ArtistKey})
  BY <1>1, OpenKeys
<1>3. \A k \in Open : ZOf(k) = KeyZ[k] /\ k \in Range(layerSeq)
  BY OpenKeys
<1>4. OpenZs = {KeyZ[k] : k \in Open}
  BY <1>3 DEF OpenZs
<1>5. Above = {pair \in Open \X Open : KeyZ[pair[1]] > KeyZ[pair[2]]}
  BY <1>3 DEF Above
<1>6. Unasked = {KeyZ[k] : k \in Range(layerSeq)}
  <2>1. KeyZ[ArtistKey] = artist.z
    BY KeyZs DEF KeyZsOK
  <2>2. Replaced => ArtistKey \in Range(layerSeq)
    BY DEF LayersInv, KeysAgree, ArtistStays, Replaced
  <2>3. ArtistKey \in Range(layerSeq) /\ artistClosing # 0 => Replaced
    BY DEF LayersInv, KeysAgree, ArtistStays
  <2>4. ASSUME NEW k \in Range(layerSeq) PROVE KeyZ[k] \in Unasked
    <3>1. CASE k \in Open
      BY <1>4, <3>1 DEF Unasked
    <3>2. CASE k \notin Open
      BY <1>2, <2>1, <2>3, <2>4, <3>2 DEF Unasked
    <3> QED
      BY <3>1, <3>2
  <2>5. ASSUME NEW y \in Unasked PROVE \E k \in Range(layerSeq) : y = KeyZ[k]
    BY <1>3, <1>4, <2>1, <2>2 DEF Unasked
  <2> QED
    BY <2>4, <2>5
<1> QED
  BY <1>2, <1>4, <1>5, <1>6 DEF OpenOK

-----------------------------------------------------------------------------
(* What timers, opens and the gesture take away.                           *)

LEMMA NoneTaken ==
  ASSUME LayersInv, LayersInv', Grown, ArtistKey \in Range(layerSeq) => artist' = artist
  PROVE  Unasked \subseteq Unasked'
<1>1. OpenOK /\ OpenOK'
  <2>1. OpenOK
    BY OpenLayers
  <2>2. OpenOK'
    BY OpenLayers, PTL
  <2> QED
    BY <2>1, <2>2
<1>2. \A k \in Range(layerSeq) : KeyZ'[k] = KeyZ[k] /\ k \in Range(layerSeq')
  BY SameZ DEF Grown
<1>3. Unasked = {KeyZ[k] : k \in Range(layerSeq)} /\ Unasked' = {KeyZ'[k] : k \in Range(layerSeq')}
  BY <1>1 DEF OpenOK
<1> QED
  BY <1>2, <1>3

\* A gesture closes the last key of the order, whose layer is the one on top.
LEMMA GestureTakesTop ==
  ASSUME LayersInv, PopTopLayer, MaxTimers <= 1
  PROVE  OpenZs' = OpenZs \ {Facing}
<1>1. layerSeq \in Seq(AllKeys) /\ layerSeq # <<>>
  BY DEF LayersInv, LayersTypes, PopTopLayer
<1>2. PICK n : n = Len(layerSeq) /\ n \in Nat \ {0} /\ DOMAIN layerSeq = 1 .. n
  BY <1>1, FrontOf
<1> PICK top : top = layerSeq[n]
  OBVIOUS
<1>3. top \in Range(layerSeq)
  BY <1>2 DEF Range
<1>4. \/ top = ArtistKey /\ CloseArtist
      \/ top[1] = "search" /\ top[2] \in DOMAIN searches /\ CloseSearch(searches[top[2]].z)
      \/ top[1] = "stack" /\ PopRelated
  BY <1>2 DEF PopTopLayer, Last
<1>5. LayersInv'
  BY GestureCloses, ClosesKeep
<1>6. OpenOK /\ OpenOK'
  <2>1. OpenOK
    BY OpenLayers
  <2>2. OpenOK'
    BY <1>5, OpenLayers, PTL
  <2> QED
    BY <2>1, <2>2
<1>7. UNCHANGED <<stack, searches, artist>>
  BY <1>4 DEF CloseArtist, CloseSearch, PopRelated, related, pages, artistPage
<1>8. KeyZ' = KeyZ
  BY <1>7 DEF KeyZ
<1>9. top \in Open
  <2>1. top = ArtistKey => artistClosing = 0
    BY <1>4, KeysDiffer DEF CloseArtist
  <2> QED
    BY <1>3, <1>6, <2>1 DEF OpenOK
<1>10. Facing = KeyZ[top] /\ \A k \in Open : KeyZ[k] \in Nat /\ KeyZ[k] <= KeyZ[top]
  <2>1. ZOf(top) # 0 /\ ZOf(top) = KeyZ[top]
    BY <1>9, OpenKeys
  <2> PICK shown : shown = {i \in DOMAIN layerSeq : ZOf(layerSeq[i]) # 0}
    OBVIOUS
  <2>2. shown \in SUBSET Nat /\ n \in shown /\ \A i \in shown : i <= n
    BY <1>2, <2>1
  <2>3. Max(shown) = n
    BY <2>2, MaxIs
  <2>4. TopZ = ZOf(layerSeq[n])
    BY <2>2, <2>3 DEF TopZ
  <2>5. Facing = KeyZ[top]
    BY <2>1, <2>4, Top
  <2>6. ASSUME NEW k \in Open PROVE KeyZ[k] \in Nat /\ KeyZ[k] <= Facing
    BY OpenKeys, Top
  <2> QED
    BY <2>5, <2>6
<1>11. Open' = Open \ {top}
  <2>1. CASE top = ArtistKey /\ CloseArtist
    <3>1. artistClosing = 0 /\ artistClosing' # 0
      BY <2>1, Zs DEF CloseArtist, ZsOK
    <3>2. Range(layerSeq') \ {ArtistKey} = Range(layerSeq) \ {ArtistKey}
      BY <1>8, <2>1, WithoutOne DEF CloseArtist
    <3> QED
      BY <1>6, <2>1, <3>1, <3>2 DEF OpenOK
  <2>2. CASE top[1] = "search" /\ top[2] \in DOMAIN searches /\ CloseSearch(searches[top[2]].z)
    <3>1. PICK i \in DOMAIN searches : i \in Nat \ {0} /\ top = SearchKey(i)
      <4>1. (\A i \in Nat : StackKey(i)[1] # "search") /\ ArtistKey[1] # "search"
        BY DEF StackKey, ArtistKey
      <4> QED
        BY <1>3, <2>2, <4>1, KeysBelow
    <3>2. IndexOf(searches[i].z) = i
      <4> PICK S : S = {j \in DOMAIN searches : searches[j].z = searches[i].z} \cup {0}
        OBVIOUS
      <4>1. DOMAIN searches \subseteq Nat
        BY DEF LayersInv, LayersTypes
      <4>2. ASSUME NEW j \in DOMAIN searches, searches[j].z = searches[i].z PROVE j = i
        BY <4>1, <4>2, Zs DEF ZsOK, LayersInv, Climbing
      <4>3. S = {0, i} /\ S \in SUBSET Nat /\ i \in S /\ \A j \in S : j <= i
        BY <3>1, <4>2
      <4>4. Max(S) = i
        BY <4>3, MaxIs
      <4> QED
        BY <4>4 DEF IndexOf
    <3>3. layerSeq' = Without(top)
      BY <2>2, <3>1, <3>2, KeysDiffer DEF CloseSearch
    <3>4. Range(layerSeq') = Range(layerSeq) \ {top} /\ artistClosing' = artistClosing
      BY <1>8, <2>2, <3>3, WithoutOne DEF CloseSearch, artistPage
    <3> QED
      BY <1>6, <3>4 DEF OpenOK
  <2>3. CASE top[1] = "stack" /\ PopRelated
    <3>1. PICK i \in DOMAIN stack : i \in Nat \ {0} /\ top = StackKey(i)
      <4>1. (\A i \in Nat : SearchKey(i)[1] # "stack") /\ ArtistKey[1] # "stack"
        BY DEF SearchKey, ArtistKey
      <4> QED
        BY <1>3, <2>3, <4>1, KeysBelow
    <3> PICK m : m = Len(stack)
      OBVIOUS
    <3>2. m \in Nat \ {0} /\ DOMAIN stack = 1 .. m
      BY <2>3, FrontOf, Entry DEF PopRelated, LayersInv, LayersTypes
    <3>3. StackKey(m) \in Open
      <4>1. StackKey(m) \in Range(layerSeq)
        BY <2>3, <3>2 DEF PopRelated, LayersInv, KeysAgree
      <4> QED
        BY <1>6, <3>2, <4>1, KeysDiffer DEF OpenOK
    <3>4. stack[m].z <= stack[i].z /\ stack[m].z \in Nat /\ stack[i].z \in Nat
      <4>1. KeyZ[StackKey(m)] = stack[m].z /\ KeyZ[StackKey(i)] = stack[i].z
        BY <3>1, <3>2, KeyZs DEF KeyZsOK
      <4> QED
        BY <1>9, <1>10, <3>1, <3>3, <4>1
    <3>5. i = m
      <4>1. i < m => stack[i].z < stack[m].z
        BY <3>1, <3>2 DEF LayersInv, Climbing
      <4> QED
        BY <3>1, <3>2, <3>4, <4>1
    <3>6. layerSeq' = Without(top)
      BY <2>3, <3>1, <3>5 DEF PopRelated
    <3>7. Range(layerSeq') = Range(layerSeq) \ {top} /\ artistClosing' = artistClosing
      BY <1>8, <2>3, <3>6, WithoutOne DEF PopRelated, artistPage
    <3> QED
      BY <1>6, <3>7 DEF OpenOK
  <2> QED
    BY <1>4, <2>1, <2>2, <2>3
<1>12. \A k \in Open : k # top => KeyZ[k] # KeyZ[top]
  <2> SUFFICES ASSUME NEW k \in Open, k # top PROVE KeyZ[k] # KeyZ[top]
    OBVIOUS
  <2> PICK order, z : order = layerSeq /\ z = KeyZ
    OBVIOUS
  <2>1. order \in Seq(AllKeys) /\ IsOrdered(order, z) /\ k \in Range(order) /\ top \in Range(order)
    BY <1>3, <1>6 DEF LayersInv, LayersTypes, OpenOK
  <2>2. PICK p \in Nat, q \in Nat : Tells(order, k, top, p, q)
    BY <2>1, OrderTells
  <2>3. p # q /\ (p < q => z[k] < z[top]) /\ (q < p => z[top] < z[k])
    BY <2>1, <2>2 DEF Tells
  <2> QED
    BY <1>9, <1>10, <2>3
<1>13. OpenZs = {KeyZ[k] : k \in Open} /\ OpenZs' = {KeyZ[k] : k \in Open \ {top}}
  BY <1>6, <1>8, <1>11 DEF OpenOK
<1> QED
  BY <1>9, <1>10, <1>12, <1>13

\* No timer and no open takes a layer the user has not asked to close, and a gesture
\* takes the layer on top and no other.
THEOREM OnlyTheClosed == Waits /\ Spec => OnlyClosedLeave
<1> SUFFICES ASSUME Waits PROVE Spec => OnlyClosedLeave
  OBVIOUS
<1>1. LayersInv /\ [Next]_vars =>
        [/\ Timers \/ (\E tag \in Tags \cup {None} : OpenPage(tag)) => Unasked \subseteq Unasked'
         /\ EdgeBack => OpenZs' = OpenZs \ {Facing}]_vars
  <2> SUFFICES ASSUME LayersInv, [Next]_vars
               PROVE /\ Timers \/ (\E tag \in Tags \cup {None} : OpenPage(tag)) => Unasked \subseteq Unasked'
                     /\ EdgeBack => OpenZs' = OpenZs \ {Facing}
    OBVIOUS
  <2>1. ASSUME PopDone \/ SearchDone PROVE Unasked \subseteq Unasked'
    <3>1. LayersInv' /\ Grown
      BY <2>1, PopDoneKeeps, SearchDoneKeeps
    <3>2. artist' = artist
      BY <2>1 DEF PopDone, SearchDone, artistPage
    <3> QED
      BY <3>1, <3>2, NoneTaken
  <2>2. ASSUME ArtistDone PROVE Unasked \subseteq Unasked'
    <3>1. LayersInv' /\ Grown
      BY <2>2, ArtistDoneKeeps
    <3>2. ArtistKey \in Range(layerSeq) => artist' = artist
      BY <2>2 DEF ArtistDone, ArtistLeft, LayersInv, KeysAgree, ArtistStays, Replaced
    <3> QED
      BY <3>1, <3>2, NoneTaken
  <2>3. ASSUME NEW tag \in Tags \cup {None}, OpenPage(tag) PROVE Unasked \subseteq Unasked'
    <3>1. LayersInv' /\ Grown
      BY <2>3, OpenPageKeeps
    <3>2. artist' = artist
      BY <2>3 DEF OpenPage, artistPage
    <3> QED
      BY <3>1, <3>2, NoneTaken
  <2>4. EdgeBack => OpenZs' = OpenZs \ {Facing}
    BY GestureTakesTop DEF EdgeBack, Waits
  <2> QED
    BY <2>1, <2>2, <2>3, <2>4 DEF Timers
<1> QED
  BY <1>1, Layered, PTL DEF Spec, OnlyClosedLeave
-----------------------------------------------------------------------------
(* What a reload brings back.                                              *)

LEMMA PrefixIs ==
  ASSUME NEW S, NEW s \in Seq(S), NEW t \in Seq(S),
         \A i \in DOMAIN s : i \in DOMAIN t /\ s[i] = t[i]
  PROVE  IsPrefix(s, t)
<1>1. PICK m \in Nat, n \in Nat : /\ m = Len(s) /\ DOMAIN s = 1 .. m
                                  /\ n = Len(t) /\ DOMAIN t = 1 .. n
  OBVIOUS
<1>2. m <= n
  <2>1. CASE m = 0
    BY <2>1
  <2>2. CASE m # 0
    <3>1. m \in 1 .. n
      BY <1>1, <2>2
    <3> QED
      BY <3>1
  <2> QED
    BY <2>1, <2>2
<1>3. SubSeq(s, 1, m) = [i \in 1 .. m |-> s[i]] /\ SubSeq(t, 1, m) = [i \in 1 .. m |-> t[i]]
  BY <1>1, <1>2
<1>4. \A i \in 1 .. m : s[i] = t[i]
  BY <1>1
<1>5. SubSeq(s, 1, m) = SubSeq(t, 1, m)
  BY <1>3, <1>4
<1> QED
  BY <1>1, <1>2, <1>5 DEF IsPrefix

LEMMA ClosedStay ==
  ASSUME LayersInv, SnapOK(snap), Behind(snap), Reload
  PROVE  /\ IsPrefix(WorksOf(stack'), WorksOf(IF closingDepth \in DOMAIN stack THEN Front(stack) ELSE stack))
         /\ IsPrefix(TagsOf(searches'), TagsOf(PagesBut(closingSearchZ)))
         /\ artist' # None => artist # None /\ artist.z # artistClosing
<1>1. /\ snap.stack \in Seq(Works) /\ snap.states \in Seq(Tags \cup {None}) /\ snap.states = snap.tags
  BY DEF SnapOK
<1>2. LayersInv'
  BY ReloadKeeps
<1>3. stack \in Seq(Level) /\ searches \in Seq(Page)
  BY DEF LayersInv, LayersTypes
<1>4. WorksOf(stack') = snap.stack
  <2>0. PICK w : w = snap.stack
    OBVIOUS
  <2>1. PICK b \in Nat : DOMAIN w = 1 .. b
    BY <1>1, <2>0
  <2>4. w = [i \in 1 .. b |-> w[i]]
    BY <1>1, <2>0, <2>1
  <2> PICK y : y = [i \in DOMAIN snap.stack |-> ZAt(AllSaved, StackKey(i))]
    OBVIOUS
  <2>2. stack' = [i \in 1 .. b |-> [work |-> w[i], z |-> y[i]]]
    BY <2>0, <2>1, Reloaded
  <2>3. WorksOf(stack') = [i \in 1 .. b |-> w[i]]
    BY <2>2 DEF WorksOf
  <2> QED
    BY <2>0, <2>3, <2>4
<1>5. IsPrefix(WorksOf(stack'), WorksOf(IF closingDepth \in DOMAIN stack THEN Front(stack) ELSE stack))
  <2> PICK left : left = IF closingDepth \in DOMAIN stack THEN Front(stack) ELSE stack
    OBVIOUS
  <2>1. left \in Seq(Level) /\ \A i \in DOMAIN stack : i # closingDepth => i \in DOMAIN left /\ left[i] = stack[i]
    <3>1. CASE closingDepth \notin DOMAIN stack
      BY <1>3, <3>1
    <3>2. CASE closingDepth \in DOMAIN stack
      <4> PICK n : n = Len(stack)
        OBVIOUS
      <4>1. stack # <<>> /\ DOMAIN stack = 1 .. n /\ n \in Nat
        BY <1>3, <3>2, Entry
      <4>2. closingDepth = n
        BY <3>2, <4>1 DEF LayersInv, SlidesOut
      <4>3. /\ Front(stack) \in Seq(Level) /\ DOMAIN Front(stack) = 1 .. n - 1
            /\ \A i \in 1 .. n - 1 : Front(stack)[i] = stack[i]
        BY <1>3, <4>1, FrontOf
      <4>4. \A i \in DOMAIN stack : i # closingDepth => i \in 1 .. n - 1
        BY <4>1, <4>2
      <4> QED
        BY <3>2, <4>3, <4>4
    <3> QED
      BY <3>1, <3>2
  <2>2. WorksOf(left) \in Seq(Works) /\ DOMAIN WorksOf(left) = DOMAIN left
    BY <2>1, WorkList
  <2>3. ASSUME NEW i \in DOMAIN snap.stack PROVE i \in DOMAIN WorksOf(left) /\ snap.stack[i] = WorksOf(left)[i]
    <3>1. i \in DOMAIN stack /\ i # closingDepth /\ snap.stack[i] = stack[i].work
      BY DEF Behind
    <3>2. i \in DOMAIN left /\ left[i] = stack[i]
      BY <2>1, <3>1
    <3> QED
      BY <2>2, <3>1, <3>2 DEF WorksOf
  <2>4. IsPrefix(snap.stack, WorksOf(left))
    BY <1>1, <2>2, <2>3, PrefixIs
  <2> QED
    BY <1>4, <2>4
<1>6. IsPrefix(TagsOf(searches'), TagsOf(PagesBut(closingSearchZ)))
  <2>1. TagsOf(searches') = snap.tags
    BY <1>1, <1>2, Reloaded DEF LayersInv
  <2>2. Kept \in Seq(Page) /\ DOMAIN Kept = PagesStay /\ \A i \in DOMAIN Kept : Kept[i] = searches[i]
    BY KeptPages DEF KeptOK
  <2>3. /\ TagsOf(Kept) \in Seq(Tags \cup {None}) /\ DOMAIN TagsOf(Kept) = DOMAIN Kept
        /\ \A i \in DOMAIN Kept : TagsOf(Kept)[i] = Kept[i].tag
    BY <2>2, TagList DEF TagsOf
  <2>4. \A i \in DOMAIN snap.tags : i \in DOMAIN TagsOf(Kept) /\ snap.tags[i] = TagsOf(Kept)[i]
    BY <2>2, <2>3 DEF Behind
  <2>5. snap.tags \in Seq(Tags \cup {None}) /\ TagsOf(Kept) \in Seq(Tags \cup {None})
    BY <1>1, <2>3
  <2>6. IsPrefix(snap.tags, TagsOf(Kept))
    BY <2>4, <2>5, PrefixIs
  <2> QED
    BY <2>1, <2>6 DEF Kept
<1>7. artist' # None => artist # None /\ artist.z # artistClosing
  <2>1. artist' # None => ArtistStays
    BY Reloaded DEF Behind
  <2> QED
    BY <2>1, Zs DEF ArtistStays, Replaced, ZsOK
<1> QED
  BY <1>5, <1>6, <1>7

\* Each key of the order has a number for its z.
OrderZs == \A k \in Range(layerSeq) : KeyZ[k] \in Nat
LEMMA OrdersZs == ASSUME LayersInv PROVE OrderZs
  BY KeysBelow DEF OrderZs

LEMMA OrderStays ==
  ASSUME LayersInv, SnapOK(snap), Reload, snap = Snapshot, Closing = {}
  PROVE  Open' = Open /\ Above' = Above
<1>1. LayersInv'
  BY ReloadKeeps
<1>2. OpenOK /\ OpenOK'
  <2>1. OpenOK
    BY OpenLayers
  <2>2. OpenOK'
    BY <1>1, OpenLayers, PTL
  <2> QED
    BY <2>1, <2>2
<1>3. layerSeq' = layerSeq /\ artistClosing' = 0 /\ artistClosing = 0
  <2>1. snap.order = layerSeq
    BY DEF Snapshot
  <2> QED
    BY <2>1, OrderRestored, Reloaded DEF Closing
<1>4. Open = Range(layerSeq) /\ Open' = Range(layerSeq)
  BY <1>2, <1>3 DEF OpenOK
<1> PICK order, z, y : order = layerSeq /\ z = KeyZ /\ y = KeyZ'
  OBVIOUS
<1>5. order \in Seq(AllKeys) /\ IsOrdered(order, z) /\ IsOrdered(order, y)
  BY <1>1, <1>3 DEF LayersInv, LayersTypes
<1>6. \A k \in Range(order) : z[k] \in Nat /\ y[k] \in Nat
  <2>1. OrderZs
    BY OrdersZs
  <2>2. OrderZs'
    BY <1>1, OrdersZs, PTL
  <2> QED
    BY <1>3, <2>1, <2>2 DEF OrderZs
<1>7. ASSUME NEW k \in Range(order), NEW l \in Range(order) PROVE z[k] > z[l] <=> y[k] > y[l]
  <2>1. PICK p \in Nat, q \in Nat : Tells(order, k, l, p, q)
    BY <1>5, OrderTells
  <2>2. p = q => k = l
    BY <2>1 DEF Tells
  <2>3. (p < q => z[k] < z[l] /\ y[k] < y[l]) /\ (q < p => z[l] < z[k] /\ y[l] < y[k])
    BY <1>5, <2>1 DEF Tells
  <2> QED
    BY <1>6, <2>2, <2>3
<1>8. Above = {pair \in Range(order) \X Range(order) : z[pair[1]] > z[pair[2]]}
  BY <1>2, <1>4 DEF OpenOK
<1>9. Above' = {pair \in Range(order) \X Range(order) : y[pair[1]] > y[pair[2]]}
  BY <1>2, <1>4 DEF OpenOK
<1> QED
  BY <1>4, <1>7, <1>8, <1>9

\* A reload brings back no layer the user has asked to close, and what it finds on the
\* screen it brings back in the same order.
THEOREM ReloadsFaithfully == Waits /\ Spec => ReloadFaithful
<1> SUFFICES ASSUME Waits PROVE Spec => ReloadFaithful
  OBVIOUS
<1>1. LayersInv /\ SnapInv /\ [Next]_vars =>
        [Reload =>
           /\ IsPrefix(WorksOf(stack'), WorksOf(IF closingDepth \in DOMAIN stack THEN Front(stack) ELSE stack))
           /\ IsPrefix(TagsOf(searches'), TagsOf(PagesBut(closingSearchZ)))
           /\ artist' # None => artist # None /\ artist.z # artistClosing]_vars
  <2>1. SnapInv /\ Reload => SnapOK(snap) /\ Behind(snap)
    BY DEF SnapInv, Reload
  <2> QED
    BY <2>1, ClosedStay
<1>2. LayersInv /\ SnapInv /\ [Next]_vars =>
        [Reload /\ snap = Snapshot /\ Closing = {} => Open' = Open /\ Above' = Above]_vars
  <2>1. SnapInv /\ Reload => SnapOK(snap)
    BY DEF SnapInv, Reload
  <2> QED
    BY <2>1, OrderStays
<1> QED
  BY <1>1, <1>2, Layered, PTL DEF Spec, ReloadFaithful, ClosedForGood, ReloadKeepsOrder
=============================================================================
