------------------------- MODULE RegulatoryRulesProofs -------------------------
(***************************************************************************)
(* Proofs about RegulatoryRules: what edits by hand and imports make of a  *)
(* sound catalogue is sound, and an import makes only what was confirmed.  *)
(***************************************************************************)
EXTENDS RegulatoryRules, TLAPS

------------------------------------------------------------------------------
(* Sound catalogues                                                        *)

UniqueRules(c) ==
    \A i, j \in Live(c) : /\ c.rules[i].status = c.rules[j].status
                          /\ c.rules[i].value = c.rules[j].value
                          => i = j

UniqueKeys(c) ==
    \A k, l \in c.keys : k.status = l.status /\ k.value = l.value => k = l

\* The rules at the place of key k.
Free(c, k) ==
    \A i \in Live(c) : /\ c.rules[i].status = k.status
                       /\ c.rules[i].value = k.value
                       => i = k.rule

Owners(c) ==
    \A k \in c.keys : /\ k.rule \in Live(c)
                      /\ c.rules[k.rule].manual_protected
                      /\ Free(c, k)
                      /\ k.status \in InUse(c)

Rules(c) ==
    \A i \in Live(c) : /\ c.rules[i].status \in InUse(c)
                       /\ c.rules[i].manual_protected => KeyOf(c, i) \in c.keys

Sound(c) == UniqueRules(c) /\ UniqueKeys(c) /\ Owners(c) /\ Rules(c)

LEMMA LiveRule ==
    ASSUME NEW c \in Catalog, NEW i \in Live(c)
    PROVE  i \in Ids /\ c.rules[i] \in Rule
  BY DEF Catalog, Live

LEMMA KeyOfKey ==
    ASSUME NEW c \in Catalog, NEW i \in Live(c)
    PROVE  KeyOf(c, i) \in Key
  BY LiveRule DEF KeyOf, Key, Rule

LEMMA NotNull ==
    ASSUME NEW rule \in Rule
    PROVE  rule \notin {Unused, Gone}
  BY NullAssumption

LEMMA NotNullStatus ==
    ASSUME NEW status \in Status
    PROVE  status \notin {Unused, Gone}
  BY NullAssumption

\* The invariant of the runs follows.
LEMMA SoundKeys ==
    ASSUME TypeOK, Sound(catalog)
    PROVE  KeysStayWithOwner
  <1>1. catalog \in Catalog
    BY DEF TypeOK
  <1>2. ASSUME NEW i \in Live(catalog), NEW j \in Live(catalog),
               KeyOf(catalog, i) = [KeyOf(catalog, j) EXCEPT !.rule = i]
        PROVE  i = j
    BY <1>2 DEF Sound, UniqueRules, KeyOf
  <1>3. ASSUME NEW i \in Live(catalog), catalog.rules[i].manual_protected
        PROVE  KeyOf(catalog, i) \in catalog.keys
    BY <1>3 DEF Sound, Rules
  <1>4. ASSUME NEW k \in catalog.keys
        PROVE  /\ k.rule \in Live(catalog)
               /\ catalog.rules[k.rule].manual_protected
               /\ At(catalog, k.status, k.value) \subseteq {k.rule}
               /\ Holders(catalog, k.status, k.value) = {k.rule}
    <2>1. k \in Key
      BY <1>1 DEF Catalog
    <2>2. /\ k.rule \in Live(catalog)
          /\ catalog.rules[k.rule].manual_protected
          /\ At(catalog, k.status, k.value) \subseteq {k.rule}
      BY DEF Sound, Owners, Free, At
    <2>3. k = [rule |-> k.rule, status |-> k.status, value |-> k.value]
      BY <2>1 DEF Key
    <2>4. \A i \in Ids :
              [rule |-> i, status |-> k.status, value |-> k.value] \in catalog.keys
                  => i = k.rule
      <3> TAKE i \in Ids
      <3> DEFINE l == [rule |-> i, status |-> k.status, value |-> k.value]
      <3>1. l.status = k.status /\ l.value = k.value /\ l.rule = i
        OBVIOUS
      <3> HIDE DEF l
      <3>2. l \in catalog.keys => l = k
        BY <3>1 DEF Sound, UniqueKeys
      <3> QED
        BY <3>1, <3>2 DEF l
    <2>5. k.rule \in Ids
      BY <2>1 DEF Key
    <2> QED
      BY <2>2, <2>3, <2>4, <2>5 DEF Holders
  <1> QED
    BY <1>2, <1>3, <1>4 DEF KeysStayWithOwner

------------------------------------------------------------------------------
(* Edits by hand                                                           *)

\* Catalogue c with this rule under i and these keys more.
Entry(c, i, rule, ks) ==
    [status |-> c.status, rules |-> [c.rules EXCEPT ![i] = rule],
     keys |-> c.keys \cup ks]

NewKey(i, rule) == [rule |-> i, status |-> rule.status, value |-> rule.value]

\* The place of key k is open to rule i.
Open(c, k, i) ==
    /\ k.rule = i
    /\ k.status \in InUse(c)
    /\ Free(c, k)
    /\ \A l \in c.keys : l.status = k.status /\ l.value = k.value => l.rule = i

LEMMA EntrySound ==
    ASSUME NEW c \in Catalog, Sound(c), NEW i \in Ids, NEW rule \in Rule,
           NEW ks \in SUBSET Key, rule.manual_protected,
           NewKey(i, rule) \in ks,
           \A k \in ks : Open(c, k, i),
           \A k, l \in ks : k.status = l.status /\ k.value = l.value => k = l
    PROVE  Entry(c, i, rule, ks) \in Catalog /\ Sound(Entry(c, i, rule, ks))
  <1> DEFINE d == Entry(c, i, rule, ks)
  <1>1. d \in Catalog
    BY DEF Catalog, Entry
  <1>2. /\ d.status = c.status
        /\ d.keys = c.keys \cup ks
        /\ d.rules[i] = rule
        /\ \A j \in Ids : j # i => d.rules[j] = c.rules[j]
    BY DEF Entry, Catalog
  <1>3. InUse(d) = InUse(c)
    BY <1>2 DEF InUse
  <1>4. Live(d) = Live(c) \cup {i}
    BY <1>2, NotNull DEF Live
  <1>5. Live(c) \subseteq Ids /\ c.keys \subseteq Key
    BY DEF Live, Catalog
  <1>n. /\ NewKey(i, rule).rule = i
        /\ NewKey(i, rule).status = rule.status
        /\ NewKey(i, rule).value = rule.value
    BY DEF NewKey
  <1>6. \A j \in Live(c) : /\ c.rules[j].status = rule.status
                           /\ c.rules[j].value = rule.value
                           => j = i
    BY <1>n DEF Open, Free
  <1>7. \A l \in c.keys : l.status = rule.status /\ l.value = rule.value
                          => l.rule = i
    BY <1>n DEF Open
  <1>8. rule.status \in InUse(c)
    BY <1>n DEF Open
  <1> HIDE DEF d
  <1>9. UniqueRules(d)
    BY <1>2, <1>4, <1>5, <1>6 DEF UniqueRules, Sound
  <1>10. UniqueKeys(d)
    <2> SUFFICES ASSUME NEW k \in d.keys, NEW l \in d.keys,
                        k.status = l.status, k.value = l.value
                 PROVE  k = l
      BY DEF UniqueKeys
    <2>1. k \in Key /\ l \in Key
      BY <1>2, <1>5
    <2>2. CASE k \in c.keys /\ l \in c.keys
      BY <2>2 DEF Sound, UniqueKeys
    <2>3. CASE k \in ks /\ l \in ks
      BY <2>3
    <2>4. CASE (k \in ks /\ l \in c.keys) \/ (k \in c.keys /\ l \in ks)
      <3>1. k.rule = l.rule
        BY <2>4 DEF Open
      <3> QED
        BY <2>1, <3>1 DEF Key
    <2> QED
      BY <1>2, <2>2, <2>3, <2>4
  <1>11. Owners(d)
    <2> SUFFICES ASSUME NEW k \in d.keys
                 PROVE  /\ k.rule \in Live(d)
                        /\ d.rules[k.rule].manual_protected
                        /\ Free(d, k)
                        /\ k.status \in InUse(d)
      BY DEF Owners
    <2>1. CASE k \in ks
      <3>1. Open(c, k, i)
        BY <2>1
      <3>2. Free(d, k)
        BY <3>1, <1>2, <1>4, <1>5 DEF Open, Free
      <3> QED
        BY <3>1, <3>2, <1>2, <1>3, <1>4 DEF Open
    <2>2. CASE k \in c.keys
      <3>1. /\ k.rule \in Live(c)
            /\ c.rules[k.rule].manual_protected
            /\ Free(c, k)
            /\ k.status \in InUse(c)
        BY <2>2 DEF Sound, Owners
      <3>2. Free(d, k)
        BY <2>2, <3>1, <1>2, <1>4, <1>5, <1>7 DEF Free
      <3>3. d.rules[k.rule].manual_protected
        BY <3>1, <1>2, <1>5
      <3> QED
        BY <3>1, <3>2, <3>3, <1>3, <1>4
    <2> QED
      BY <1>2, <2>1, <2>2
  <1>12. Rules(d)
    <2> SUFFICES ASSUME NEW j \in Live(d)
                 PROVE  /\ d.rules[j].status \in InUse(d)
                        /\ d.rules[j].manual_protected => KeyOf(d, j) \in d.keys
      BY DEF Rules
    <2>1. CASE j = i
      BY <2>1, <1>2, <1>3, <1>8 DEF KeyOf, NewKey
    <2>2. CASE j # i
      <3>1. j \in Live(c) /\ d.rules[j] = c.rules[j]
        BY <2>2, <1>2, <1>4, <1>5
      <3>2. KeyOf(d, j) = KeyOf(c, j)
        BY <3>1 DEF KeyOf
      <3> QED
        BY <3>1, <3>2, <1>2, <1>3 DEF Sound, Rules
    <2> QED
      BY <2>1, <2>2
  <1> QED
    BY <1>1, <1>9, <1>10, <1>11, <1>12 DEF Sound, d

\* A key that nobody else holds is in the table afterwards.
LEMMA PreserveAdds ==
    ASSUME NEW c \in Catalog, NEW k \in Key,
           \A l \in c.keys : l.status = k.status /\ l.value = k.value
                             => l.rule = k.rule
    PROVE  Preserve(c, k) = [status |-> c.status, rules |-> c.rules,
                             keys |-> c.keys \cup {k}]
  <1>1. c = [status |-> c.status, rules |-> c.rules, keys |-> c.keys]
    BY DEF Catalog
  <1>2. CASE Holders(c, k.status, k.value) = {}
    BY <1>1, <1>2 DEF Preserve
  <1>3. CASE Holders(c, k.status, k.value) # {}
    <2>1. PICK i \in Ids :
              [rule |-> i, status |-> k.status, value |-> k.value] \in c.keys
      BY <1>3 DEF Holders
    <2> DEFINE l == [rule |-> i, status |-> k.status, value |-> k.value]
    <2>2. l.rule = k.rule
      BY <2>1
    <2>3. l = k
      BY <2>2 DEF Key
    <2>4. c.keys \cup {k} = c.keys
      BY <2>1, <2>3
    <2> QED
      BY <1>1, <1>3, <2>4 DEF Preserve
  <1> QED
    BY <1>2, <1>3

LEMMA PutIs ==
    ASSUME NEW c \in Catalog, NEW i \in Ids, NEW rule \in Rule,
           \A l \in c.keys : l.status = rule.status /\ l.value = rule.value
                             => l.rule = i
    PROVE  Put(c, i, rule) = Entry(c, i, rule, {NewKey(i, rule)})
  <1> DEFINE d == [c EXCEPT !.rules[i] = rule]
  <1>1. /\ d \in Catalog
        /\ d.rules[i] = rule
        /\ d.keys = c.keys
        /\ d.status = c.status
        /\ d.rules = [c.rules EXCEPT ![i] = rule]
    BY DEF Catalog
  <1>2. KeyOf(d, i) = NewKey(i, rule)
    BY <1>1 DEF KeyOf, NewKey
  <1>3. /\ NewKey(i, rule) \in Key
        /\ NewKey(i, rule).status = rule.status
        /\ NewKey(i, rule).value = rule.value
        /\ NewKey(i, rule).rule = i
    BY DEF NewKey, Key, Rule
  <1>4. Put(c, i, rule) = Preserve(d, NewKey(i, rule))
    BY <1>2 DEF Put, Kept
  <1> HIDE DEF d
  <1>5. Preserve(d, NewKey(i, rule)) =
            [status |-> d.status, rules |-> d.rules,
             keys |-> d.keys \cup {NewKey(i, rule)}]
    BY <1>1, <1>3, PreserveAdds
  <1> QED
    BY <1>1, <1>4, <1>5 DEF Entry

\* A rule that was there keeps its id, and a change of it counts.
Revised(c, d) ==
    \A i \in Ids : c.rules[i] # Unused =>
        \/ d.rules[i] = c.rules[i]
        \/ d.rules[i] = Gone
        \/ /\ i \in Live(c)
           /\ i \in Live(d)
           /\ d.rules[i].revision = c.rules[i].revision + 1

\* What a change of the catalogue leads to.
Good(c, d) == d \in Catalog /\ Sound(d) /\ Revised(c, d)

LEMMA Claimed ==
    ASSUME NEW c \in Catalog, Sound(c), NEW i \in Ids \cup {NoId},
           NEW to \in Content,
           to.status \in InUse(c), ~Collides(c, to.status, to.value, i)
    PROVE  /\ \A j \in Live(c) : c.rules[j].status = to.status
                                 /\ c.rules[j].value = to.value => j = i
           /\ \A l \in c.keys : l.status = to.status /\ l.value = to.value
                                => l.rule = i
  <1>1. ASSUME NEW j \in Live(c), c.rules[j].status = to.status,
               c.rules[j].value = to.value
        PROVE  j = i
    BY <1>1 DEF Collides, At
  <1>2. ASSUME NEW l \in c.keys, l.status = to.status, l.value = to.value
        PROVE  l.rule = i
    <2>1. l \in Key
      BY DEF Catalog
    <2>2. l.rule \in Live(c) /\ Free(c, l)
      BY DEF Sound, Owners
    <2>3. l = [rule |-> l.rule, status |-> to.status, value |-> to.value]
      BY <1>2, <2>1 DEF Key
    <2>4. l.rule \in Holders(c, to.status, to.value)
      BY <2>1, <2>3 DEF Holders, Key
    <2> QED
      BY <2>4 DEF Collides
  <1> QED
    BY <1>1, <1>2

LEMMA Created ==
    ASSUME NEW c \in Catalog, Sound(c), NEW i \in Ids, c.rules[i] = Unused,
           NEW to \in Content, to.status \in InUse(c),
           ~Collides(c, to.status, to.value, NoId)
    PROVE  Good(c, Put(c, i, [status |-> to.status, value |-> to.value,
                    note |-> to.note, is_active |-> TRUE,
                    manual_protected |-> TRUE, revision |-> 1]))
  <1> DEFINE rule == [status |-> to.status, value |-> to.value,
                      note |-> to.note, is_active |-> TRUE,
                      manual_protected |-> TRUE, revision |-> 1]
             k == NewKey(i, rule)
  <1>1. /\ rule \in Rule /\ rule.manual_protected
        /\ rule.status = to.status /\ rule.value = to.value
    BY DEF Rule, Content
  <1> HIDE DEF rule
  <1>2. k \in Key /\ k.rule = i /\ k.status = to.status /\ k.value = to.value
    BY <1>1 DEF NewKey, Key, Rule
  <1>3. /\ \A j \in Live(c) : ~(c.rules[j].status = to.status
                                /\ c.rules[j].value = to.value)
        /\ \A l \in c.keys : ~(l.status = to.status /\ l.value = to.value)
    <2>1. Live(c) \subseteq Ids /\ \A l \in c.keys : l.rule \in Ids
      BY DEF Live, Catalog, Key
    <2> QED
      BY Claimed, <2>1, RegulatoryAssumption
  <1> HIDE DEF k
  <1>4. Put(c, i, rule) = Entry(c, i, rule, {k})
    BY <1>1, <1>3, PutIs DEF k
  <1>5. Open(c, k, i)
    BY <1>2, <1>3 DEF Open, Free
  <1>6. Entry(c, i, rule, {k}) \in Catalog /\ Sound(Entry(c, i, rule, {k}))
    <2>1. {k} \in SUBSET Key /\ NewKey(i, rule) \in {k}
      BY <1>2 DEF k
    <2>2. \A x \in {k} : Open(c, x, i)
      BY <1>5
    <2> QED
      BY <1>1, <2>1, <2>2, EntrySound
  <1>7. Revised(c, Entry(c, i, rule, {k}))
    BY DEF Revised, Entry, Catalog
  <1> QED
    BY <1>4, <1>6, <1>7 DEF Good, rule

LEMMA EditedGood ==
    ASSUME NEW c \in Catalog, Sound(c), NEW i \in Live(c),
           NEW rule \in Rule, rule.revision = c.rules[i].revision + 1,
           rule.manual_protected, rule.status \in InUse(c),
           \A j \in Live(c) : c.rules[j].status = rule.status
                              /\ c.rules[j].value = rule.value => j = i,
           \A l \in c.keys : l.status = rule.status /\ l.value = rule.value
                             => l.rule = i
    PROVE  /\ Good(c, Put(Kept(c, i), i, rule))
           /\ KeyOf(c, i) \in Put(Kept(c, i), i, rule).keys
           /\ \A j \in Ids : j # i => Put(Kept(c, i), i, rule).rules[j] = c.rules[j]
  <1> DEFINE o == KeyOf(c, i)
             k == NewKey(i, rule)
             e == Kept(c, i)
  <1>1. i \in Ids /\ c.rules[i] \in Rule /\ o \in Key
    BY LiveRule, KeyOfKey
  <1>2. o.rule = i /\ o.status = c.rules[i].status /\ o.value = c.rules[i].value
    BY DEF KeyOf
  <1>3. k \in Key /\ k.rule = i /\ k.status = rule.status /\ k.value = rule.value
    BY <1>1 DEF NewKey, Key, Rule
  <1> HIDE DEF o, k
  <1>4. \A l \in c.keys : l.status = o.status /\ l.value = o.value => l.rule = o.rule
    BY <1>2 DEF Sound, Owners, Free
  <1>5. e = [status |-> c.status, rules |-> c.rules, keys |-> c.keys \cup {o}]
    BY <1>1, <1>4, PreserveAdds DEF Kept, o
  <1> HIDE DEF e
  <1>6. e \in Catalog
    BY <1>1, <1>5 DEF Catalog
  <1>7. Put(e, i, rule) = Entry(e, i, rule, {k})
    <2>1. \A l \in e.keys : l.status = rule.status /\ l.value = rule.value
                            => l.rule = i
      BY <1>2, <1>5
    <2> QED
      BY <1>1, <1>6, <2>1, PutIs DEF k
  <1>8. Entry(e, i, rule, {k}) = Entry(c, i, rule, {o, k})
    BY <1>5 DEF Entry
  <1>9. Open(c, o, i)
    <2>1. Free(c, o)
      BY <1>2 DEF Free, Sound, UniqueRules
    <2> QED
      BY <1>2, <1>4, <2>1 DEF Open, Sound, Rules
  <1>10. Open(c, k, i)
    BY <1>3 DEF Open, Free
  <1>11. Entry(c, i, rule, {o, k}) \in Catalog /\ Sound(Entry(c, i, rule, {o, k}))
    <2>1. {o, k} \in SUBSET Key /\ NewKey(i, rule) \in {o, k}
      BY <1>1, <1>3 DEF k
    <2>2. \A x \in {o, k} : Open(c, x, i)
      BY <1>9, <1>10
    <2>3. \A x, y \in {o, k} : x.status = y.status /\ x.value = y.value => x = y
      BY <1>1, <1>2, <1>3 DEF Key
    <2> QED
      BY <1>1, <2>1, <2>2, <2>3, EntrySound
  <1>12. Revised(c, Entry(c, i, rule, {o, k}))
    <2> DEFINE d == Entry(c, i, rule, {o, k})
    <2>1. d.rules[i] = rule /\ \A j \in Ids : j # i => d.rules[j] = c.rules[j]
      BY <1>1 DEF Entry, Catalog
    <2>2. i \in Live(d)
      BY <1>1, <2>1, NotNull DEF Live
    <2> QED
      BY <1>1, <2>1, <2>2 DEF Revised
  <1>13. o \in Entry(c, i, rule, {o, k}).keys
    BY DEF Entry
  <1>14. \A j \in Ids : j # i => Entry(c, i, rule, {o, k}).rules[j] = c.rules[j]
    BY <1>1 DEF Entry, Catalog
  <1> QED
    BY <1>7, <1>8, <1>11, <1>12, <1>13, <1>14 DEF Good, o, e

------------------------------------------------------------------------------
(* Changes that leave the keys alone                                       *)

LEMMA SameKeysSound ==
    ASSUME NEW c \in Catalog, NEW d \in Catalog, Sound(c), d.keys = c.keys,
           \A k \in c.keys : /\ k.status \in InUse(d)
                             /\ k.rule \in Live(d)
                             /\ d.rules[k.rule].manual_protected,
           \A i \in Live(d) :
               /\ d.rules[i].status \in InUse(d)
               /\ \/ /\ i \in Live(c)
                     /\ d.rules[i].status = c.rules[i].status
                     /\ d.rules[i].value = c.rules[i].value
                     /\ d.rules[i].manual_protected = c.rules[i].manual_protected
                  \/ /\ ~d.rules[i].manual_protected
                     /\ \A k \in c.keys : ~(k.status = d.rules[i].status
                                            /\ k.value = d.rules[i].value)
                     /\ \A j \in Live(d) : /\ d.rules[j].status = d.rules[i].status
                                           /\ d.rules[j].value = d.rules[i].value
                                           => j = i
    PROVE  Sound(d)
  <1>1. UniqueRules(d)
    BY DEF UniqueRules, Sound
  <1>2. UniqueKeys(d)
    BY DEF UniqueKeys, Sound
  <1>3. Owners(d)
    <2> SUFFICES ASSUME NEW k \in d.keys
                 PROVE  Free(d, k)
      BY DEF Owners
    <2>1. Free(c, k)
      BY DEF Sound, Owners
    <2> QED
      BY <2>1 DEF Free
  <1>4. Rules(d)
    <2> SUFFICES ASSUME NEW i \in Live(d), d.rules[i].manual_protected
                 PROVE  KeyOf(d, i) \in d.keys
      BY DEF Rules
    <2>1. KeyOf(d, i) = KeyOf(c, i) /\ i \in Live(c) /\ c.rules[i].manual_protected
      BY DEF KeyOf
    <2> QED
      BY <2>1 DEF Sound, Rules
  <1> QED
    BY <1>1, <1>2, <1>3, <1>4 DEF Sound

LEMMA BumpedRule ==
    ASSUME NEW rule \in Rule
    PROVE  /\ Bumped(rule) \in Rule
           /\ Bumped(rule).revision = rule.revision + 1
           /\ Bumped(rule).status = rule.status
           /\ Bumped(rule).value = rule.value
           /\ Bumped(rule).manual_protected = rule.manual_protected
           /\ Bumped(rule) # rule
  BY DEF Rule, Bumped

\* New statuses do not touch those there are.
LEMMA WithStatusesGood ==
    ASSUME NEW c \in Catalog, Sound(c), NEW labels \in SUBSET Labels,
           NEW new \in Additions(c, labels)
    PROVE  /\ Good(c, WithStatuses(c, new))
           /\ WithStatuses(c, new).rules = c.rules
           /\ WithStatuses(c, new).keys = c.keys
           /\ InUse(c) \subseteq InUse(WithStatuses(c, new))
           /\ \A s \in InUse(c) : WithStatuses(c, new).status[s] = c.status[s]
           /\ \A s \in DOMAIN new :
                  /\ c.status[s] = Unused
                  /\ WithStatuses(c, new).status[s] = new[s]
                  /\ s \in InUse(WithStatuses(c, new))
           /\ InUse(WithStatuses(c, new)) \subseteq InUse(c) \cup DOMAIN new
           /\ labels = {new[s].label : s \in DOMAIN new}
           /\ \A s, t \in DOMAIN new : new[s].label = new[t].label => s = t
  <1> DEFINE d == WithStatuses(c, new)
  <1>1. /\ DOMAIN new \subseteq Statuses
        /\ \A s \in DOMAIN new : c.status[s] = Unused /\ new[s] \in Status
        /\ labels = {new[s].label : s \in DOMAIN new}
        /\ \A s, t \in DOMAIN new : new[s].label = new[t].label => s = t
    BY DEF Additions, Status
  <1>2. /\ d.rules = c.rules /\ d.keys = c.keys
        /\ \A s \in Statuses :
               d.status[s] = IF s \in DOMAIN new THEN new[s] ELSE c.status[s]
        /\ d \in Catalog
    BY <1>1 DEF WithStatuses, Catalog
  <1> HIDE DEF d
  <1>3. InUse(c) \subseteq InUse(d) /\ \A s \in InUse(c) : d.status[s] = c.status[s]
    BY <1>1, <1>2, NotNullStatus DEF InUse
  <1>4. /\ \A s \in DOMAIN new : d.status[s] = new[s] /\ s \in InUse(d)
        /\ InUse(d) \subseteq InUse(c) \cup DOMAIN new
    BY <1>1, <1>2, NotNullStatus DEF InUse
  <1>5. Live(d) = Live(c)
    BY <1>2 DEF Live
  <1>6. Sound(d)
    BY <1>2, <1>3, <1>5, SameKeysSound DEF Sound, Owners, Rules
  <1>7. Revised(c, d)
    BY <1>2 DEF Revised
  <1> QED
    BY <1>1, <1>2, <1>3, <1>4, <1>6, <1>7 DEF Good, d

\* A change of names or priorities counts for the rules that have copies.
LEMMA RelabelledGood ==
    ASSUME NEW c \in Catalog, Sound(c), NEW changed \in SUBSET Statuses,
           NEW status \in [Statuses -> Status \cup {Unused, Gone}],
           \A s \in Statuses :
               c.status[s] \in {Unused, Gone} <=> status[s] \in {Unused, Gone}
    PROVE  Good(c, WithChanged(c, status, changed))
  <1> DEFINE d == WithChanged(c, status, changed)
  <1>0. d = [status |-> status, rules |-> Relabelled(c, changed),
             keys |-> c.keys]
    BY DEF WithChanged
  <1> HIDE DEF d
  <1>1. /\ d.keys = c.keys /\ d.status = status
        /\ \A i \in Ids : \/ d.rules[i] = c.rules[i]
                          \/ i \in Live(c) /\ d.rules[i] = Bumped(c.rules[i])
        /\ \A i \in Live(c) : d.rules[i] \in {c.rules[i], Bumped(c.rules[i])}
    BY <1>0, LiveRule DEF Relabelled
  <1>2. d \in Catalog
    BY <1>0, BumpedRule, LiveRule DEF Catalog, Relabelled
  <1>3. InUse(d) = InUse(c)
    BY <1>1 DEF InUse
  <1>4. Live(d) = Live(c)
    BY <1>1, LiveRule, BumpedRule, NotNull DEF Live
  <1>5. \A i \in Live(c) :
            /\ d.rules[i].status = c.rules[i].status
            /\ d.rules[i].value = c.rules[i].value
            /\ d.rules[i].manual_protected = c.rules[i].manual_protected
    BY <1>1, LiveRule, BumpedRule
  <1>6. Sound(d)
    BY <1>1, <1>2, <1>3, <1>4, <1>5, SameKeysSound DEF Sound, Owners, Rules
  <1>7. Revised(c, d)
    BY <1>1, <1>4, LiveRule, BumpedRule DEF Revised
  <1> QED
    BY <1>2, <1>6, <1>7 DEF Good, d

LEMMA RenamedGood ==
    ASSUME NEW c \in Catalog, Sound(c), NEW s \in InUse(c), NEW l \in Labels
    PROVE  Good(c, WithChanged(c, [c.status EXCEPT ![s].label = l], {s}))
  <1> DEFINE new == [c.status[s] EXCEPT !.label = l]
             status == [c.status EXCEPT ![s] = new]
  <1>1. s \in Statuses /\ c.status[s] \in Status
    BY DEF InUse, Catalog
  <1>2. new \in Status
    BY <1>1 DEF Status
  <1> HIDE DEF new
  <1>3. status \in [Statuses -> Status \cup {Unused, Gone}]
    BY <1>1, <1>2 DEF Catalog
  <1>4. \A t \in Statuses :
            c.status[t] \in {Unused, Gone} <=> status[t] \in {Unused, Gone}
    BY <1>1, <1>2, NotNullStatus DEF Catalog
  <1>5. [c.status EXCEPT ![s].label = l] = status
    BY DEF new
  <1> HIDE DEF status
  <1> QED
    BY <1>1, <1>3, <1>4, <1>5, RelabelledGood

LEMMA SwappedGood ==
    ASSUME NEW c \in Catalog, Sound(c), NEW s \in InUse(c), NEW t \in InUse(c),
           s # t
    PROVE  Good(c, WithChanged(c,
               [c.status EXCEPT ![s].priority = c.status[t].priority,
                                ![t].priority = c.status[s].priority],
               {s, t}))
  <1> DEFINE p == [c.status[s] EXCEPT !.priority = c.status[t].priority]
             q == [c.status[t] EXCEPT !.priority = c.status[s].priority]
             status == [c.status EXCEPT ![s] = p, ![t] = q]
  <1>1. /\ s \in Statuses /\ c.status[s] \in Status
        /\ t \in Statuses /\ c.status[t] \in Status
    BY DEF InUse, Catalog
  <1>2. p \in Status /\ q \in Status
    BY <1>1 DEF Status
  <1>3. [c.status EXCEPT ![s].priority = c.status[t].priority,
                         ![t].priority = c.status[s].priority] = status
    BY <1>1 DEF Catalog
  <1> HIDE DEF p, q
  <1>4. status \in [Statuses -> Status \cup {Unused, Gone}]
    BY <1>1, <1>2 DEF Catalog
  <1>5. \A u \in Statuses :
            c.status[u] \in {Unused, Gone} <=> status[u] \in {Unused, Gone}
    BY <1>1, <1>2, NotNullStatus DEF Catalog
  <1> HIDE DEF status
  <1> QED
    BY <1>1, <1>3, <1>4, <1>5, RelabelledGood

LEMMA RemovedGood ==
    ASSUME NEW c \in Catalog, Sound(c), NEW s \in Statuses,
           \A i \in Live(c) : c.rules[i].status # s,
           \A k \in c.keys : k.status # s
    PROVE  Good(c, [c EXCEPT !.status[s] = Gone])
  <1> DEFINE d == [c EXCEPT !.status[s] = Gone]
  <1>1. /\ d.rules = c.rules /\ d.keys = c.keys
        /\ \A t \in Statuses : t # s => d.status[t] = c.status[t]
        /\ d \in Catalog
    BY DEF Catalog
  <1> HIDE DEF d
  <1>2. InUse(c) \ {s} \subseteq InUse(d) /\ Live(d) = Live(c)
    BY <1>1 DEF InUse, Live
  <1>3. Sound(d)
    BY <1>1, <1>2, SameKeysSound DEF Sound, Owners, Rules
  <1>4. Revised(c, d)
    BY <1>1 DEF Revised
  <1> QED
    BY <1>1, <1>3, <1>4 DEF Good, d

------------------------------------------------------------------------------
(* Imports                                                                 *)

LEMMA NumberedRows ==
    ASSUME NEW c, NEW rows, NEW num \in Numberings(c, rows)
    PROVE  /\ DOMAIN num \subseteq {i \in Ids : c.rules[i] = Unused}
           /\ \A i \in DOMAIN num : num[i] \in rows
           /\ \A i, j \in DOMAIN num : num[i] = num[j] => i = j
  BY DEF Numberings

LEMMA FileRows ==
    ASSUME NEW f \in Files
    PROVE  \A row \in f.rows : /\ row \in Row /\ row.label \in Labels
                               /\ row.value \in Values /\ row.note \in Notes
  BY RegulatoryAssumption DEF Row

\* What is protected is in the way of every row that would write it.
LEMMA ProtectedIsSpared ==
    ASSUME NEW c \in Catalog, Sound(c), NEW f \in Files, NEW i \in Live(c),
           c.rules[i].manual_protected
    PROVE  /\ i \notin Deleted(c, f)
           /\ {row \in Updated(c, f) : i \in Present(c, row)} = {}
  <1>1. i \notin Deleted(c, f)
    BY DEF Deleted
  <1>2. ASSUME NEW row \in Updated(c, f), i \in Present(c, row)
        PROVE  FALSE
    <2>1. PICK s \in Labelled(c, row.label) : i \in At(c, s, row.value)
      BY <1>2 DEF Present
    <2>2. i \in Protectors(c, row)
      BY <2>1 DEF Protectors
    <2> QED
      BY <2>2 DEF Updated
  <1> QED
    BY <1>1, <1>2

\* A row that is inserted finds no rule and no key at its place.
LEMMA InsertedIsFree ==
    ASSUME NEW c \in Catalog, NEW f \in Files, NEW row \in Inserted(c, f),
           NEW s \in Labelled(c, row.label)
    PROVE  /\ \A i \in Live(c) : ~(c.rules[i].status = s
                                   /\ c.rules[i].value = row.value)
           /\ \A k \in c.keys : ~(k.status = s /\ k.value = row.value)
  <1>1. Protectors(c, row) = {} /\ Present(c, row) = {}
    BY DEF Inserted
  <1>2. \A i \in Live(c) : ~(c.rules[i].status = s /\ c.rules[i].value = row.value)
    BY <1>1 DEF Present, At
  <1>3. ASSUME NEW k \in c.keys, k.status = s, k.value = row.value
        PROVE  FALSE
    <2>1. k \in Key /\ k = [rule |-> k.rule, status |-> s, value |-> row.value]
      BY <1>3 DEF Catalog, Key
    <2>2. k.rule \in Holders(c, s, row.value)
      BY <2>1 DEF Holders, Key
    <2> QED
      BY <1>1, <2>2 DEF Protectors
  <1> QED
    BY <1>2, <1>3

LEMMA RewrittenRule ==
    ASSUME NEW rule \in Rule, NEW note \in Notes
    PROVE  LET r == Bumped([rule EXCEPT !.note = note, !.is_active = TRUE])
           IN  /\ r \in Rule
               /\ r.revision = rule.revision + 1
               /\ r.status = rule.status /\ r.value = rule.value
               /\ r.manual_protected = rule.manual_protected
  <1> DEFINE new == [rule EXCEPT !.note = note, !.is_active = TRUE]
  <1>1. /\ new \in Rule /\ new.revision = rule.revision
        /\ new.status = rule.status /\ new.value = rule.value
        /\ new.manual_protected = rule.manual_protected
    BY DEF Rule
  <1> HIDE DEF new
  <1>2. /\ Bumped(new) \in Rule /\ Bumped(new).revision = rule.revision + 1
        /\ Bumped(new).status = rule.status /\ Bumped(new).value = rule.value
        /\ Bumped(new).manual_protected = rule.manual_protected
    BY <1>1, BumpedRule
  <1> QED
    BY <1>2 DEF new

LEMMA ImportedGood ==
    ASSUME NEW c \in Catalog, Sound(c), NEW f \in Files, Distinct(f),
           NEW new \in Additions(c, NewLabels(c, f)),
           NEW num \in Numberings(c, Inserted(c, f))
    PROVE  /\ Good(c, Imported(c, f, new, num))
           /\ Imported(c, f, new, num).keys = c.keys
           /\ \A i \in Live(c) : c.rules[i].manual_protected =>
                  Imported(c, f, new, num).rules[i] = c.rules[i]
  <1> DEFINE w == WithStatuses(c, new)
             NewRule(row) ==
                 [status |-> CHOOSE s \in Labelled(w, row.label) : TRUE,
                  value |-> row.value, note |-> row.note, is_active |-> TRUE,
                  manual_protected |-> FALSE, revision |-> 1]
             Rewritten(i) == {row \in Updated(c, f) : i \in Present(c, row)}
             Rewrite(i) == Bumped([c.rules[i] EXCEPT
                              !.note = (CHOOSE row \in Rewritten(i) : TRUE).note,
                              !.is_active = TRUE])
             d == Imported(c, f, new, num)
  <1>1. NewLabels(c, f) \in SUBSET Labels
    BY FileRows DEF NewLabels
  <1>2. /\ w \in Catalog /\ w.rules = c.rules /\ w.keys = c.keys
        /\ InUse(c) \subseteq InUse(w)
        /\ \A s \in InUse(c) : w.status[s] = c.status[s]
        /\ \A s \in DOMAIN new : /\ c.status[s] = Unused
                                 /\ w.status[s] = new[s]
                                 /\ s \in InUse(w)
        /\ InUse(w) \subseteq InUse(c) \cup DOMAIN new
        /\ NewLabels(c, f) = {new[s].label : s \in DOMAIN new}
        /\ \A s, t \in DOMAIN new : new[s].label = new[t].label => s = t
    BY <1>1, WithStatusesGood DEF Good
  <1>3. /\ DOMAIN num \subseteq {i \in Ids : c.rules[i] = Unused}
        /\ \A i \in DOMAIN num : num[i] \in Inserted(c, f)
        /\ \A i, j \in DOMAIN num : num[i] = num[j] => i = j
    BY NumberedRows
  <1>4. \A row \in Inserted(c, f) :
            row \in f.rows /\ row.label \in Labels /\ row.value \in Values
            /\ row.note \in Notes
    BY FileRows DEF Inserted
  <1> DEFINE R == [i \in Ids |->
                    IF i \in DOMAIN num THEN NewRule(num[i])
                    ELSE IF i \in Deleted(c, f) THEN Gone
                    ELSE IF i \in Live(c) /\ Rewritten(i) # {} THEN Rewrite(i)
                    ELSE c.rules[i]]
  <1>a. d = [w EXCEPT !.rules = R]
    BY DEF Imported
  <1>b. d.rules = R /\ d.status = w.status /\ d.keys = w.keys
        /\ d = [status |-> w.status, rules |-> d.rules, keys |-> w.keys]
    <2> HIDE DEF R, d, w
    <2> QED
      BY <1>2, <1>a DEF Catalog
  <1> HIDE DEF d
  <1>5. /\ d.status = w.status /\ d.keys = w.keys
        /\ d.rules = [i \in Ids |->
                IF i \in DOMAIN num THEN NewRule(num[i])
                ELSE IF i \in Deleted(c, f) THEN Gone
                ELSE IF i \in Live(c) /\ Rewritten(i) # {} THEN Rewrite(i)
                ELSE c.rules[i]]
    BY <1>b
  <1> HIDE DEF R
  <1> HIDE DEF d
  <1> HIDE DEF w
  <1>6. ASSUME NEW row \in Inserted(c, f)
        PROVE  /\ NewRule(row) \in Rule
               /\ NewRule(row).status \in Labelled(w, row.label)
               /\ NewRule(row).value = row.value
               /\ ~NewRule(row).manual_protected
    <2>1. Labelled(w, row.label) # {}
      <3>1. CASE row.label \in NewLabels(c, f)
        <4>1. PICK s \in DOMAIN new : new[s].label = row.label
          BY <1>2, <3>1
        <4> QED
          BY <1>2, <4>1 DEF Labelled
      <3>2. CASE row.label \notin NewLabels(c, f)
        <4>1. PICK s \in InUse(c) : c.status[s].label = row.label
          BY <1>4, <3>2 DEF NewLabels
        <4> QED
          BY <1>2, <4>1 DEF Labelled
      <3> QED
        BY <3>1, <3>2
    <2>2. NewRule(row).status \in Labelled(w, row.label)
      BY <2>1
    <2>3. Labelled(w, row.label) \subseteq Statuses
      BY DEF Labelled, InUse
    <2> QED
      BY <1>4, <2>2, <2>3 DEF Rule
  <1> HIDE DEF NewRule
  <1>7. ASSUME NEW i \in Live(c), Rewritten(i) # {}
        PROVE  /\ Rewrite(i) \in Rule
               /\ Rewrite(i).revision = c.rules[i].revision + 1
               /\ Rewrite(i).status = c.rules[i].status
               /\ Rewrite(i).value = c.rules[i].value
               /\ Rewrite(i).manual_protected = c.rules[i].manual_protected
    <2>1. (CHOOSE row \in Rewritten(i) : TRUE) \in f.rows
      BY <1>7 DEF Updated
    <2>2. (CHOOSE row \in Rewritten(i) : TRUE).note \in Notes
      BY <2>1, FileRows
    <2> QED
      BY <2>2, LiveRule, RewrittenRule
  <1> HIDE DEF Rewrite
  <1>8. \A i \in Live(c) : c.rules[i].manual_protected =>
            i \notin Deleted(c, f) /\ Rewritten(i) = {}
    BY ProtectedIsSpared
  <1>9. Deleted(c, f) \subseteq Live(c)
    BY DEF Deleted
  <1> HIDE DEF Rewritten
  <1>10. \A i \in Live(c) : i \in Ids /\ c.rules[i] # Unused /\ i \notin DOMAIN num
    BY <1>3 DEF Live
  <1>11. d \in Catalog
    <2>1. \A i \in Ids : d.rules[i] \in Rule \cup {Unused, Gone}
      BY <1>3, <1>5, <1>6, <1>7 DEF Catalog
    <2>2. d.rules = [i \in Ids |-> d.rules[i]]
      BY <1>5
    <2>3. d.rules \in [Ids -> Rule \cup {Unused, Gone}]
      BY <2>1, <2>2
    <2>4. d = [status |-> w.status, rules |-> d.rules, keys |-> w.keys]
      BY <1>b
    <2> QED
      BY <1>2, <2>3, <2>4 DEF Catalog
  <1>12. \A i \in Live(d) : \/ i \in DOMAIN num /\ d.rules[i] = NewRule(num[i])
                            \/ /\ i \in Live(c)
                               /\ \/ d.rules[i] = c.rules[i]
                                  \/ d.rules[i] = Rewrite(i) /\ Rewritten(i) # {}
    BY <1>5 DEF Live
  <1>13. \A i \in Live(c) : c.rules[i].manual_protected =>
             d.rules[i] = c.rules[i] /\ i \in Live(d)
    BY <1>5, <1>8, <1>10 DEF Live
  <1>14. InUse(d) = InUse(w) /\ d.keys = c.keys
    BY <1>2, <1>5 DEF InUse
  <1>15. ASSUME NEW k \in c.keys
         PROVE  /\ k.status \in InUse(d)
                /\ k.rule \in Live(d)
                /\ d.rules[k.rule].manual_protected
    <2>1. k.rule \in Live(c) /\ c.rules[k.rule].manual_protected
          /\ k.status \in InUse(c)
      BY DEF Sound, Owners
    <2> QED
      BY <1>2, <1>13, <1>14, <2>1
  <1>16. ASSUME NEW i \in Live(d), i \in Live(c)
         PROVE  /\ d.rules[i].status \in InUse(d)
                /\ d.rules[i].status = c.rules[i].status
                /\ d.rules[i].value = c.rules[i].value
                /\ d.rules[i].manual_protected = c.rules[i].manual_protected
    <2>1. c.rules[i].status \in InUse(d)
      BY <1>2, <1>14, <1>16 DEF Sound, Rules
    <2> QED
      BY <1>7, <1>10, <1>12, <1>16, <2>1
  <1>17. ASSUME NEW i \in Live(d), i \notin Live(c)
         PROVE  /\ d.rules[i].status \in InUse(d)
                /\ ~d.rules[i].manual_protected
                /\ \A k \in c.keys : ~(k.status = d.rules[i].status
                                       /\ k.value = d.rules[i].value)
                /\ \A j \in Live(d) : /\ d.rules[j].status = d.rules[i].status
                                      /\ d.rules[j].value = d.rules[i].value
                                      => j = i
    <2>1. i \in DOMAIN num /\ d.rules[i] = NewRule(num[i])
      BY <1>12, <1>17
    <2> DEFINE row == num[i]
               s == d.rules[i].status
    <2>2. row \in Inserted(c, f)
      BY <1>3, <2>1
    <2>3. /\ s \in Labelled(w, row.label) /\ s \in InUse(w)
          /\ d.rules[i].value = row.value /\ ~d.rules[i].manual_protected
      BY <1>6, <2>1, <2>2 DEF Labelled
    <2>5. /\ \A j \in Live(c) : ~(c.rules[j].status = s
                                  /\ c.rules[j].value = row.value)
          /\ \A k \in c.keys : ~(k.status = s /\ k.value = row.value)
      <3>1. CASE s \in InUse(c)
        <4>1. s \in Labelled(c, row.label)
          BY <1>2, <2>3, <3>1 DEF Labelled
        <4> QED
          BY <2>2, <4>1, InsertedIsFree
      <3>2. CASE s \notin InUse(c)
        BY <3>2 DEF Sound, Owners, Rules
      <3> QED
        BY <3>1, <3>2
    <2>6. ASSUME NEW j \in Live(d), d.rules[j].status = s,
                 d.rules[j].value = row.value
          PROVE  j = i
      <3>1. j \notin Live(c)
        BY <1>16, <2>5, <2>6
      <3>2. j \in DOMAIN num /\ d.rules[j] = NewRule(num[j])
        BY <1>12, <3>1
      <3>3. num[j] \in Inserted(c, f)
        BY <1>3, <3>2
      <3>4. s \in Labelled(w, num[j].label) /\ num[j].value = row.value
        BY <1>6, <2>6, <3>2, <3>3
      <3>5. num[j].label = row.label
        BY <2>3, <3>4 DEF Labelled
      <3>6. num[j] = row
        BY <1>4, <2>2, <3>3, <3>4, <3>5 DEF Distinct
      <3> QED
        BY <1>3, <2>1, <3>2, <3>6
    <2> QED
      BY <1>14, <2>3, <2>5, <2>6
  <1>18. Sound(d)
    BY <1>11, <1>14, <1>15, <1>16, <1>17, SameKeysSound
  <1>19. Revised(c, d)
    <2> SUFFICES ASSUME NEW i \in Ids, c.rules[i] # Unused,
                        d.rules[i] # c.rules[i], d.rules[i] # Gone
                 PROVE  /\ i \in Live(c)
                        /\ i \in Live(d)
                        /\ d.rules[i].revision = c.rules[i].revision + 1
      BY DEF Revised
    <2>1. i \in Live(c) /\ d.rules[i] = Rewrite(i) /\ Rewritten(i) # {}
      BY <1>3, <1>5
    <2>2. i \in Live(d)
      BY <1>7, <2>1, NotNull DEF Live
    <2> QED
      BY <1>7, <2>1, <2>2
  <1> QED
    BY <1>11, <1>13, <1>14, <1>18, <1>19 DEF Good, d

------------------------------------------------------------------------------
(* The inductive invariant                                                 *)

\* A page that shows a rule shows what it was or, if the revision has not
\* changed, what it is.
Shown(f) ==
    IF f.action = "create" THEN f.rule = NoId
    ELSE /\ f.rule \in Ids
         /\ f.shown \in Rule
         /\ catalog.rules[f.rule] # Unused
         /\ f.rule \in Live(catalog) =>
                /\ f.shown.revision <= catalog.rules[f.rule].revision
                /\ f.shown.revision = catalog.rules[f.rule].revision =>
                       f.shown = catalog.rules[f.rule]

PagesInv == \A r \in Requests : form[r] # NoForm => Shown(form[r])

\* A run has the job, and its transaction alone has the lock.
RunsInv ==
    /\ \A j \in Jobs : /\ run[j] # "none" => job[j].status = "running"
                       /\ job[j].status = "none" => job[j].phase = "preview"
    /\ \A j \in Jobs : run[j] = "begun" =>
           /\ base[j] = catalog
           /\ Distinct(job[j].file)
           /\ \A k \in Jobs : run[k] = "begun" => k = j

\* A job that is about to be applied has the preview that was agreed on.
AgreedInv ==
    \A j \in Jobs :
        /\ job[j].phase = "apply"
        /\ job[j].status \in {"queued", "running"}
        /\ ~job[j].cancel_requested
        => agreed[j] # NoCatalog /\ agreed[j] = job[j].preview

IInv == TypeOK /\ Sound(catalog) /\ PagesInv /\ RunsInv /\ AgreedInv

\* What pages show stays true of a catalogue that was changed.
LEMMA ShownAfter ==
    ASSUME TypeOK, NEW f \in Form, Shown(f), Good(catalog, catalog')
    PROVE  Shown(f)'
  <1> SUFFICES ASSUME f.action # "create"
               PROVE  /\ f.rule \in Ids
                      /\ f.shown \in Rule
                      /\ catalog'.rules[f.rule] # Unused
                      /\ f.rule \in Live(catalog') =>
                             /\ f.shown.revision <= catalog'.rules[f.rule].revision
                             /\ f.shown.revision = catalog'.rules[f.rule].revision =>
                                    f.shown = catalog'.rules[f.rule]
    BY DEF Shown
  <1>1. /\ f.rule \in Ids /\ f.shown \in Rule
        /\ catalog.rules[f.rule] # Unused
        /\ f.rule \in Live(catalog) =>
               /\ f.shown.revision <= catalog.rules[f.rule].revision
               /\ f.shown.revision = catalog.rules[f.rule].revision =>
                      f.shown = catalog.rules[f.rule]
    BY DEF Shown
  <1>2. \/ catalog'.rules[f.rule] = catalog.rules[f.rule]
        \/ catalog'.rules[f.rule] = Gone
        \/ /\ f.rule \in Live(catalog)
           /\ f.rule \in Live(catalog')
           /\ catalog'.rules[f.rule].revision = catalog.rules[f.rule].revision + 1
    BY <1>1 DEF Good, Revised
  <1>3. Unused # Gone
    BY NullAssumption
  <1>4. CASE catalog'.rules[f.rule] = catalog.rules[f.rule]
    BY <1>1, <1>4 DEF Live
  <1>5. CASE catalog'.rules[f.rule] = Gone
    BY <1>1, <1>3, <1>5 DEF Live
  <1>6. CASE /\ f.rule \in Live(catalog)
             /\ f.rule \in Live(catalog')
             /\ catalog'.rules[f.rule].revision = catalog.rules[f.rule].revision + 1
    <2>1. /\ f.shown.revision \in Nat
          /\ catalog.rules[f.rule] \in Rule
          /\ catalog.rules[f.rule].revision \in Nat
      BY <1>1, <1>6, LiveRule DEF TypeOK, Rule
    <2>2. catalog'.rules[f.rule] # Unused
      BY <1>6 DEF Live
    <2> QED
      BY <1>1, <1>6, <2>1, <2>2
  <1> QED
    BY <1>2, <1>4, <1>5, <1>6

LEMMA PagesAfter ==
    ASSUME TypeOK, PagesInv, Good(catalog, catalog'), form' = form
    PROVE  PagesInv'
  <1> SUFFICES ASSUME NEW r \in Requests, form[r] # NoForm
               PROVE  Shown(form[r])'
    BY DEF PagesInv
  <1>1. form[r] \in Form /\ Shown(form[r])
    BY DEF TypeOK, PagesInv
  <1>2. ASSUME NEW f \in Form, Shown(f)
        PROVE  Shown(f)'
    BY <1>2, ShownAfter
  <1>3. form'[r] = form[r]
    OBVIOUS
  <1> QED
    BY <1>1, <1>2, <1>3 DEF Shown

LEMMA SameCatalog ==
    ASSUME TypeOK, Sound(catalog), catalog' = catalog
    PROVE  Good(catalog, catalog')
  BY DEF Good, Revised, TypeOK

------------------------------------------------------------------------------
(* Each change of the catalogue is good                                    *)

LEMMA MutateGood ==
    ASSUME IInv, NEW r \in Requests, Mutate(r)
    PROVE  /\ Good(catalog, catalog')
           /\ \A i \in Live(catalog) : catalog'.rules[i] # catalog.rules[i] =>
                  /\ form[r].rule = i /\ form[r].shown = catalog.rules[i]
                  /\ KeyOf(catalog, i) \in catalog'.keys
  <1> DEFINE f == form[r]
  <1>1. catalog \in Catalog /\ Sound(catalog) /\ f \in Form /\ Shown(f)
    BY DEF IInv, TypeOK, PagesInv, Mutate
  <1> HIDE DEF f
  <1>2. /\ f.to \in Content /\ f.rule \in Ids \cup {NoId}
        /\ f.to.status \in Statuses /\ f.to.value \in Values /\ f.to.note \in Notes
    BY <1>1 DEF Form, Content
  <1>3. ASSUME NEW i \in Ids, Create(f, i)
        PROVE  /\ Good(catalog, catalog')
               /\ \A k \in Live(catalog) : catalog'.rules[k] = catalog.rules[k]
    <2> DEFINE rule == [status |-> f.to.status, value |-> f.to.value,
                        note |-> f.to.note, is_active |-> TRUE,
                        manual_protected |-> TRUE, revision |-> 1]
    <2>1. /\ f.to.status \in InUse(catalog)
          /\ ~Collides(catalog, f.to.status, f.to.value, NoId)
          /\ catalog.rules[i] = Unused
          /\ catalog' = Put(catalog, i, rule)
      BY <1>1, <1>3 DEF Create, Claims, Writes, Shown
    <2>2. Good(catalog, catalog')
      BY <1>1, <1>2, <2>1, Created
    <2>3. rule \in Rule
      BY <1>2 DEF Rule
    <2>4. \A l \in catalog.keys : l.status = rule.status /\ l.value = rule.value
                                  => l.rule = i
      <3>1. \A l \in catalog.keys : l.rule \in Ids
        BY <1>1 DEF Catalog, Key
      <3> QED
        BY <1>1, <1>2, <2>1, <3>1, Claimed, RegulatoryAssumption
    <2>5. catalog' = Entry(catalog, i, rule, {NewKey(i, rule)})
      <3> HIDE DEF rule
      <3> QED
        BY <1>1, <2>1, <2>3, <2>4, PutIs
    <2>6. \A k \in Live(catalog) : k \in Ids /\ k # i
      BY <2>1 DEF Live
    <2>7. \A k \in Live(catalog) : catalog'.rules[k] = catalog.rules[k]
      BY <1>1, <2>5, <2>6 DEF Entry, Catalog
    <2> QED
      BY <2>2, <2>7
  <1>4. ASSUME AsShown(f), f.action # "create", NEW rule \in Rule,
               rule.revision = catalog.rules[f.rule].revision,
               rule.status \in InUse(catalog),
               \A j \in Live(catalog) :
                   catalog.rules[j].status = rule.status
                   /\ catalog.rules[j].value = rule.value => j = f.rule,
               \A l \in catalog.keys :
                   l.status = rule.status /\ l.value = rule.value
                   => l.rule = f.rule,
               Edited(f, rule)
        PROVE  /\ Good(catalog, catalog')
               /\ \A i \in Live(catalog) : catalog'.rules[i] # catalog.rules[i] =>
                      /\ f.rule = i /\ f.shown = catalog.rules[i]
                      /\ KeyOf(catalog, i) \in catalog'.keys
    <2> DEFINE i == f.rule
               new == [rule EXCEPT !.manual_protected = TRUE]
    <2>1. i \in Live(catalog) /\ f.shown = catalog.rules[i]
      BY <1>1, <1>4 DEF AsShown, Shown
    <2>2. /\ new \in Rule /\ new.revision = rule.revision
          /\ new.status = rule.status /\ new.value = rule.value
          /\ new.manual_protected
      BY DEF Rule
    <2>3. catalog' = Put(Kept(catalog, i), i, Bumped(new))
      BY <1>4 DEF Edited, Writes
    <2> HIDE DEF new
    <2> DEFINE b == Bumped(new)
    <2>4. /\ b \in Rule /\ b.revision = catalog.rules[i].revision + 1
          /\ b.status = rule.status /\ b.value = rule.value
          /\ b.manual_protected
      BY <1>4, <2>2, BumpedRule
    <2> HIDE DEF b
    <2>5. /\ Good(catalog, Put(Kept(catalog, i), i, b))
          /\ KeyOf(catalog, i) \in Put(Kept(catalog, i), i, b).keys
          /\ \A j \in Ids : j # i =>
                 Put(Kept(catalog, i), i, b).rules[j] = catalog.rules[j]
      BY <1>1, <1>4, <2>1, <2>4, EditedGood
    <2>6. Live(catalog) \subseteq Ids
      BY DEF Live
    <2> QED
      BY <2>1, <2>3, <2>5, <2>6 DEF b
  <1>5. ASSUME Edit(f)
        PROVE  /\ Good(catalog, catalog')
               /\ \A i \in Live(catalog) : catalog'.rules[i] # catalog.rules[i] =>
                      /\ f.rule = i /\ f.shown = catalog.rules[i]
                      /\ KeyOf(catalog, i) \in catalog'.keys
    <2> DEFINE rule == [catalog.rules[f.rule] EXCEPT !.status = f.to.status,
                                                     !.value = f.to.value,
                                                     !.note = f.to.note]
    <2>1. f.rule \in Live(catalog) /\ catalog.rules[f.rule] \in Rule
      BY <1>1, <1>5, LiveRule DEF Edit, AsShown
    <2>2. /\ rule \in Rule /\ rule.revision = catalog.rules[f.rule].revision
          /\ rule.status = f.to.status /\ rule.value = f.to.value
      BY <1>2, <2>1 DEF Rule
    <2>3. AsShown(f) /\ f.action # "create" /\ Claims(f) /\ Edited(f, rule)
      BY <1>5 DEF Edit
    <2> HIDE DEF rule
    <2>4. /\ f.to.status \in InUse(catalog)
          /\ ~Collides(catalog, f.to.status, f.to.value, f.rule)
      BY <2>3 DEF Claims
    <2>5. /\ \A j \in Live(catalog) : catalog.rules[j].status = f.to.status
                 /\ catalog.rules[j].value = f.to.value => j = f.rule
          /\ \A l \in catalog.keys : l.status = f.to.status
                 /\ l.value = f.to.value => l.rule = f.rule
      BY <1>1, <1>2, <2>4, Claimed
    <2> QED
      BY <1>4, <2>2, <2>3, <2>4, <2>5
  <1>6. ASSUME Switch(f)
        PROVE  /\ Good(catalog, catalog')
               /\ \A i \in Live(catalog) : catalog'.rules[i] # catalog.rules[i] =>
                      /\ f.rule = i /\ f.shown = catalog.rules[i]
                      /\ KeyOf(catalog, i) \in catalog'.keys
    <2> DEFINE old == catalog.rules[f.rule]
               rule == [old EXCEPT !.is_active = ~@]
    <2>1. f.rule \in Live(catalog) /\ old \in Rule
      BY <1>1, <1>6, LiveRule DEF Switch, AsShown
    <2>2. /\ rule \in Rule /\ rule.revision = old.revision
          /\ rule.status = old.status /\ rule.value = old.value
      BY <2>1 DEF Rule
    <2>3. AsShown(f) /\ f.action # "create" /\ Edited(f, rule)
      BY <1>6 DEF Switch
    <2> HIDE DEF rule
    <2>4. old.status \in InUse(catalog)
      BY <1>1, <2>1 DEF Sound, Rules
    <2>5. \A j \in Live(catalog) : catalog.rules[j].status = old.status
              /\ catalog.rules[j].value = old.value => j = f.rule
      BY <1>1, <2>1 DEF Sound, UniqueRules
    <2>6. \A l \in catalog.keys : l.status = old.status /\ l.value = old.value
              => l.rule = f.rule
      BY <1>1, <2>1 DEF Sound, Owners, Free
    <2> QED
      BY <1>4, <2>2, <2>3, <2>4, <2>5, <2>6
  <1>7. (\E i \in Ids : Create(f, i)) \/ Edit(f) \/ Switch(f)
    BY DEF Mutate, f
  <1> QED
    BY <1>3, <1>5, <1>6, <1>7 DEF f

LEMMA ManagingGood ==
    ASSUME IInv, Managing
    PROVE  /\ Good(catalog, catalog') /\ Administered
           /\ \/ catalog'.rules = catalog.rules
              \/ catalog'.status # catalog.status
  <1> DEFINE Goal == /\ Good(catalog, catalog') /\ Administered
                     /\ \/ catalog'.rules = catalog.rules
                        \/ catalog'.status # catalog.status
  <1>1. catalog \in Catalog /\ Sound(catalog)
    BY DEF IInv, TypeOK
  <1>2. ASSUME NEW l \in Labels, AddStatus(l)
        PROVE  Goal
    <2>1. PICK new \in Additions(catalog, {l}) :
              catalog' = WithStatuses(catalog, new)
      BY <1>2 DEF AddStatus, Writes
    <2>2. Good(catalog, catalog') /\ catalog'.rules = catalog.rules
      BY <1>1, <2>1, WithStatusesGood
    <2> QED
      BY <1>2, <2>2 DEF AddStatus
  <1>3. ASSUME NEW l \in Labels, NEW s \in Statuses, RenameStatus(s, l)
        PROVE  Goal
    <2> DEFINE status == [catalog.status EXCEPT ![s].label = l]
    <2>1. /\ s \in InUse(catalog) /\ Labelled(catalog, l) = {} /\ Administered
          /\ catalog' = WithChanged(catalog, status, {s})
      BY <1>3 DEF RenameStatus, Writes
    <2>2. Good(catalog, catalog')
      BY <1>1, <2>1, RenamedGood
    <2>3. catalog.status[s] \in Status /\ catalog.status[s].label # l
      BY <1>1, <2>1 DEF Labelled, InUse, Catalog
    <2>4. status[s].label = l
      BY <1>1, <2>3 DEF Catalog, Status
    <2>5. catalog'.status = status
      BY <2>1 DEF WithChanged
    <2> HIDE DEF status
    <2> QED
      BY <2>1, <2>2, <2>3, <2>4, <2>5
  <1>4. ASSUME NEW s \in Statuses, NEW t \in Statuses, SwapPriorities(s, t)
        PROVE  Goal
    <2> DEFINE status ==
                   [catalog.status EXCEPT ![s].priority = catalog.status[t].priority,
                                          ![t].priority = catalog.status[s].priority]
    <2>1. /\ s \in InUse(catalog) /\ t \in InUse(catalog) /\ Administered
          /\ catalog.status[s].priority < catalog.status[t].priority
          /\ catalog' = WithChanged(catalog, status, {s, t})
      BY <1>4 DEF SwapPriorities, Writes
    <2>2. /\ catalog.status[s] \in Status /\ catalog.status[t] \in Status
          /\ catalog.status[s].priority \in Nat
          /\ catalog.status[t].priority \in Nat
      BY <1>1, <2>1 DEF InUse, Catalog, Status
    <2>3. s # t
      BY <2>1, <2>2
    <2>4. Good(catalog, catalog')
      BY <1>1, <2>1, <2>3, SwappedGood
    <2>5. status[s].priority = catalog.status[t].priority
      BY <1>1, <2>2, <2>3 DEF Catalog, Status
    <2>6. catalog'.status = status
      BY <2>1 DEF WithChanged
    <2> HIDE DEF status
    <2> QED
      BY <2>1, <2>2, <2>4, <2>5, <2>6
  <1>5. ASSUME NEW s \in Statuses, RemoveStatus(s)
        PROVE  Goal
    <2>1. /\ \A i \in Live(catalog) : catalog.rules[i].status # s
          /\ \A k \in catalog.keys : k.status # s
          /\ catalog' = [catalog EXCEPT !.status[s] = Gone]
          /\ Administered
      BY <1>5 DEF RemoveStatus, Writes
    <2>2. Good(catalog, catalog')
      BY <1>1, <2>1, RemovedGood
    <2>3. catalog'.rules = catalog.rules
      BY <1>1, <2>1 DEF Catalog
    <2> QED
      BY <2>1, <2>2, <2>3
  <1> QED
    BY <1>2, <1>3, <1>4, <1>5 DEF Managing

LEMMA FinishApplyGood ==
    ASSUME IInv, NEW j \in Jobs, FinishApply(j)
    PROVE  /\ Good(catalog, catalog')
           /\ catalog'.keys = catalog.keys
           /\ \A i \in Live(catalog) : catalog.rules[i].manual_protected =>
                  catalog'.rules[i] = catalog.rules[i]
  <1>1. /\ catalog \in Catalog /\ Sound(catalog) /\ job[j].file \in Files
        /\ base[j] = catalog /\ Distinct(job[j].file)
    BY DEF IInv, TypeOK, Job, RunsInv, FinishApply, MayFinish
  <1>2. catalog' \in Outcomes(catalog, job[j].file)
    BY <1>1 DEF FinishApply, Writes
  <1>3. PICK new \in Additions(catalog, NewLabels(catalog, job[j].file)),
             num \in Numberings(catalog, Inserted(catalog, job[j].file)) :
            catalog' = Imported(catalog, job[j].file, new, num)
    BY <1>2 DEF Outcomes
  <1> QED
    BY <1>1, <1>3, ImportedGood

------------------------------------------------------------------------------
(* The invariant holds                                                     *)

\* One job gets this row, and its worker is here with this catalogue.
Update(j, row, at, read, plan) ==
    /\ job' = [job EXCEPT ![j] = row]
    /\ run' = [run EXCEPT ![j] = at]
    /\ base' = [base EXCEPT ![j] = read]
    /\ agreed' = [agreed EXCEPT ![j] = plan]
    /\ UNCHANGED <<page, form, receipts, changes>>

Fine(j, row, at, read, plan) ==
    /\ row \in Job /\ row.file = job[j].file
    /\ at \in {"none", "claimed", "begun"}
    /\ read \in Catalog \cup {NoCatalog}
    /\ plan \in Catalog \cup {NoCatalog}
    /\ at # "none" => row.status = "running"
    /\ row.status = "none" => row.phase = "preview"
    /\ at = "begun" =>
           /\ read = catalog
           /\ Distinct(job[j].file)
           /\ \A k \in Jobs : run[k] = "begun" => k = j
    /\ (row.phase = "apply" /\ row.status \in {"queued", "running"}
          /\ ~row.cancel_requested)
       => plan # NoCatalog /\ plan = row.preview

LEMMA UpdateInv ==
    ASSUME IInv, NEW j \in Jobs, NEW row, NEW at, NEW read, NEW plan,
           Update(j, row, at, read, plan), Fine(j, row, at, read, plan),
           Good(catalog, catalog'),
           \/ catalog' = catalog
           \/ at # "begun" /\ \A k \in Jobs : run[k] = "begun" => k = j
    PROVE  IInv'
  <1>1. TypeOK'
    BY DEF IInv, TypeOK, Update, Fine, Good
  <1>2. Sound(catalog')
    BY DEF Good
  <1>3. PagesInv'
    BY PagesAfter DEF IInv, Update
  <1>4. /\ \A k \in Jobs : k # j => /\ job'[k] = job[k] /\ run'[k] = run[k]
                                    /\ base'[k] = base[k]
                                    /\ agreed'[k] = agreed[k]
        /\ job'[j] = row /\ run'[j] = at /\ base'[j] = read /\ agreed'[j] = plan
    BY DEF IInv, TypeOK, Update
  <1>5. RunsInv'
    <2>1. ASSUME NEW k \in Jobs
          PROVE  /\ run'[k] # "none" => job'[k].status = "running"
                 /\ job'[k].status = "none" => job'[k].phase = "preview"
      BY <1>4 DEF Fine, IInv, RunsInv
    <2>2. ASSUME NEW k \in Jobs, run'[k] = "begun"
          PROVE  /\ base'[k] = catalog'
                 /\ Distinct(job'[k].file)
                 /\ \A l \in Jobs : run'[l] = "begun" => l = k
      BY <1>4, <2>2 DEF Fine, IInv, RunsInv
    <2> QED
      BY <2>1, <2>2 DEF RunsInv
  <1>6. AgreedInv'
    <2> SUFFICES ASSUME NEW k \in Jobs,
                        job'[k].phase = "apply",
                        job'[k].status \in {"queued", "running"},
                        ~job'[k].cancel_requested
                 PROVE  agreed'[k] # NoCatalog /\ agreed'[k] = job'[k].preview
      BY DEF AgreedInv
    <2> QED
      BY <1>4 DEF Fine, IInv, AgreedInv
  <1> QED
    BY <1>1, <1>2, <1>3, <1>5, <1>6 DEF IInv

\* An action on one job that leaves the catalogue alone.
LEMMA JobStepInv ==
    ASSUME IInv, NEW j \in Jobs, NEW row, NEW at, NEW read, NEW plan,
           Update(j, row, at, read, plan), Fine(j, row, at, read, plan),
           catalog' = catalog
    PROVE  IInv'
  BY UpdateInv, SameCatalog DEF IInv

\* What the invariant says of one job.
LEMMA OneJob ==
    ASSUME IInv, NEW j \in Jobs
    PROVE  /\ job[j] \in Job /\ run[j] \in {"none", "claimed", "begun"}
           /\ job = [job EXCEPT ![j] = job[j]]
           /\ run = [run EXCEPT ![j] = run[j]]
           /\ base = [base EXCEPT ![j] = base[j]]
           /\ agreed = [agreed EXCEPT ![j] = agreed[j]]
           /\ base[j] \in Catalog \cup {NoCatalog}
           /\ agreed[j] \in Catalog \cup {NoCatalog}
           /\ page[j] \in Catalog \cup {NoCatalog}
           /\ job[j].preview \in Catalog \cup {NoCatalog}
           /\ Fine(j, job[j], run[j], base[j], agreed[j])
  <1>1. /\ job \in [Jobs -> Job] /\ run \in [Jobs -> {"none", "claimed", "begun"}]
        /\ base \in [Jobs -> Catalog \cup {NoCatalog}]
        /\ page \in [Jobs -> Catalog \cup {NoCatalog}]
        /\ agreed \in [Jobs -> Catalog \cup {NoCatalog}]
    BY DEF IInv, TypeOK
  <1>2. job[j].preview \in Catalog \cup {NoCatalog}
    BY <1>1 DEF Job
  <1>3. Fine(j, job[j], run[j], base[j], agreed[j])
    BY <1>1 DEF Fine, IInv, RunsInv, AgreedInv
  <1> QED
    BY <1>1, <1>2, <1>3

LEMMA SubmitInv ==
    ASSUME IInv, NEW j \in Jobs, Submit(j)
    PROVE  IInv'
  <1> DEFINE row == [job[j] EXCEPT !.status = "queued"]
  <1>1. row \in Job /\ row.file = job[j].file
    BY OneJob DEF Job
  <1>2. Fine(j, row, run[j], base[j], agreed[j])
    BY <1>1, OneJob DEF Fine, Job, Idle, IInv, RunsInv, LockFree, Submit, NotYet
  <1>3. Update(j, row, run[j], base[j], agreed[j]) /\ catalog' = catalog
    BY OneJob DEF Update, Submit, NotYet
  <1> HIDE DEF row
  <1> QED
    BY <1>2, <1>3, JobStepInv

LEMMA CancelInv ==
    ASSUME IInv, NEW j \in Jobs, Cancel(j)
    PROVE  IInv'
  <1> DEFINE row == [job[j] EXCEPT !.cancel_requested = TRUE,
                           !.status = IF @ = "queued" THEN "cancelled" ELSE @]
  <1>1. row \in Job /\ row.file = job[j].file
    BY OneJob DEF Job
  <1>2. Fine(j, row, run[j], base[j], NoCatalog)
    BY <1>1, OneJob DEF Fine, Job, Idle, IInv, RunsInv, LockFree, Cancel
  <1>3. Update(j, row, run[j], base[j], NoCatalog) /\ catalog' = catalog
    BY OneJob DEF Update, Cancel
  <1> HIDE DEF row
  <1> QED
    BY <1>2, <1>3, JobStepInv

LEMMA ConfirmInv ==
    ASSUME IInv, NEW j \in Jobs, Confirm(j)
    PROVE  IInv'
  <1> DEFINE row == [job[j] EXCEPT !.status = "queued", !.phase = "apply",
                           !.preview_ready = FALSE]
  <1>1. row \in Job /\ row.file = job[j].file
    BY OneJob DEF Job
  <1>2. Fine(j, row, run[j], base[j], page[j])
    BY <1>1, OneJob DEF Fine, Job, Idle, IInv, RunsInv, LockFree, Confirm, Confirmable
  <1>3. Update(j, row, run[j], base[j], page[j]) /\ catalog' = catalog
    BY OneJob DEF Update, Confirm, Confirmable
  <1> HIDE DEF row
  <1> QED
    BY <1>2, <1>3, JobStepInv

LEMMA RetryInv ==
    ASSUME IInv, NEW j \in Jobs, Retry(j)
    PROVE  IInv'
  <1> DEFINE row == [job[j] EXCEPT !.status = "queued", !.phase = "preview",
                           !.preview_ready = FALSE, !.preview = NoCatalog,
                           !.cancel_requested = FALSE]
  <1>1. row \in Job /\ row.file = job[j].file
    BY OneJob DEF Job, Retry
  <1>2. Fine(j, row, run[j], base[j], NoCatalog)
    BY <1>1, OneJob DEF Fine, Job, Idle, IInv, RunsInv, LockFree, Retry
  <1>3. Update(j, row, run[j], base[j], NoCatalog) /\ catalog' = catalog
    BY OneJob DEF Update, Retry
  <1> HIDE DEF row
  <1> QED
    BY <1>2, <1>3, JobStepInv

LEMMA ClaimInterruptedInv ==
    ASSUME IInv, NEW j \in Jobs, ClaimInterrupted(j)
    PROVE  IInv'
  <1> DEFINE row == [job[j] EXCEPT !.status = "failed", !.preview_ready = FALSE]
  <1>1. row \in Job /\ row.file = job[j].file
    BY OneJob DEF Job
  <1>2. Fine(j, row, run[j], base[j], agreed[j])
    BY <1>1, OneJob DEF Fine, Job, Idle, IInv, RunsInv, LockFree, ClaimInterrupted
  <1>3. Update(j, row, run[j], base[j], agreed[j]) /\ catalog' = catalog
    BY OneJob DEF Update, ClaimInterrupted
  <1> HIDE DEF row
  <1> QED
    BY <1>2, <1>3, JobStepInv

LEMMA BeginInv ==
    ASSUME IInv, NEW j \in Jobs, Begin(j)
    PROVE  IInv'
  <1>1. /\ \A k \in Jobs : run[k] # "begun"
        /\ run[j] = "claimed" /\ Distinct(job[j].file)
    BY DEF Begin, LockFree
  <1>2. Fine(j, job[j], run[j], base[j], agreed[j])
    BY OneJob
  <1>3. catalog \in Catalog
    BY DEF IInv, TypeOK
  <1>4. Fine(j, job[j], "begun", catalog, agreed[j])
    BY <1>1, <1>2, <1>3 DEF Fine
  <1>5. Update(j, job[j], "begun", catalog, agreed[j]) /\ catalog' = catalog
    BY OneJob DEF Update, Begin
  <1> QED
    BY <1>4, <1>5, JobStepInv

LEMMA FinishPreviewInv ==
    ASSUME IInv, NEW j \in Jobs, FinishPreview(j)
    PROVE  IInv'
  <1> DEFINE row == [job[j] EXCEPT !.status = "completed", !.preview_ready = TRUE,
                           !.preview = base[j]]
  <1>1. row \in Job /\ row.file = job[j].file
    BY OneJob DEF Job, FinishPreview, Completed, MayFinish
  <1>2. Fine(j, row, "none", NoCatalog, agreed[j])
    BY <1>1, OneJob DEF Fine, Job, Idle, IInv, RunsInv, LockFree, FinishPreview, Completed, MayFinish
  <1>3. Update(j, row, "none", NoCatalog, agreed[j]) /\ catalog' = catalog
    BY OneJob DEF Update, FinishPreview, Completed, MayFinish
  <1> HIDE DEF row
  <1> QED
    BY <1>2, <1>3, JobStepInv

LEMMA FailInv ==
    ASSUME IInv, NEW j \in Jobs, Fail(j)
    PROVE  IInv'
  <1> DEFINE row == [job[j] EXCEPT !.status = IF job[j].cancel_requested
                                     THEN "cancelled" ELSE "failed",
                           !.preview_ready = FALSE]
  <1>1. row \in Job /\ row.file = job[j].file
    BY OneJob DEF Job
  <1>2. Fine(j, row, "none", NoCatalog, agreed[j])
    BY <1>1, OneJob DEF Fine, Job, Idle, IInv, RunsInv, LockFree, Fail
  <1>3. Update(j, row, "none", NoCatalog, agreed[j]) /\ catalog' = catalog
    BY OneJob DEF Update, Fail
  <1> HIDE DEF row
  <1> QED
    BY <1>2, <1>3, JobStepInv

LEMMA CrashInv ==
    ASSUME IInv, NEW j \in Jobs, Crash(j)
    PROVE  IInv'
  <1> DEFINE row == job[j]
  <1>1. row \in Job /\ row.file = job[j].file
    BY OneJob DEF Job
  <1>2. Fine(j, row, "none", NoCatalog, agreed[j])
    BY <1>1, OneJob DEF Fine, Job, Idle, IInv, RunsInv, LockFree, Crash
  <1>3. Update(j, row, "none", NoCatalog, agreed[j]) /\ catalog' = catalog
    BY OneJob DEF Update, Crash
  <1> HIDE DEF row
  <1> QED
    BY <1>2, <1>3, JobStepInv

LEMMA ExpireInv ==
    ASSUME IInv, NEW j \in Jobs, Expire(j)
    PROVE  IInv'
  <1> DEFINE row == [job[j] EXCEPT !.expired = TRUE]
  <1>1. row \in Job /\ row.file = job[j].file
    BY OneJob DEF Job
  <1>2. Fine(j, row, run[j], base[j], agreed[j])
    BY <1>1, OneJob DEF Fine, Job, Idle, IInv, RunsInv, LockFree, Expire
  <1>3. Update(j, row, run[j], base[j], agreed[j]) /\ catalog' = catalog
    BY OneJob DEF Update, Expire
  <1> HIDE DEF row
  <1> QED
    BY <1>2, <1>3, JobStepInv

LEMMA RequestEndInv ==
    ASSUME IInv, NEW j \in Jobs, RequestEnd(j)
    PROVE  IInv'
  <1> DEFINE row == [job[j] EXCEPT !.cancel_requested = TRUE]
  <1>1. row \in Job /\ row.file = job[j].file
    BY OneJob DEF Job
  <1>2. Fine(j, row, run[j], base[j], NoCatalog)
    BY <1>1, OneJob DEF Fine, Job, Idle, IInv, RunsInv, LockFree, RequestEnd, Due
  <1>3. Update(j, row, run[j], base[j], NoCatalog) /\ catalog' = catalog
    BY OneJob DEF Update, RequestEnd, Due
  <1> HIDE DEF row
  <1> QED
    BY <1>2, <1>3, JobStepInv

LEMMA PurgeInv ==
    ASSUME IInv, NEW j \in Jobs, Purge(j)
    PROVE  IInv'
  <1> DEFINE ended == job[j].status \in {"queued", "running"}
             asked == job[j].cancel_requested \/ ended
             status == IF ended THEN "cancelled" ELSE job[j].status
             row == [job[j] EXCEPT !.purged = TRUE, !.preview = NoCatalog,
                                   !.preview_ready = FALSE,
                                   !.cancel_requested = asked,
                                   !.status = status]
  <1>1. asked \in BOOLEAN /\ status \in {"none", "queued", "running", "completed",
                                         "failed", "cancelled"}
    BY OneJob DEF Job
  <1>2. status \notin {"queued", "running"}
    OBVIOUS
  <1>3. status = "none" => job[j].status = "none"
    OBVIOUS
  <1>4. Update(j, row, run[j], base[j], NoCatalog) /\ catalog' = catalog
    BY OneJob DEF Update, Purge
  <1> HIDE DEF asked, status
  <1>5. /\ row \in Job /\ row.file = job[j].file /\ row.status = status
        /\ row.phase = job[j].phase
    BY <1>1, OneJob DEF Job
  <1> HIDE DEF row
  <1>6. Fine(j, row, run[j], base[j], NoCatalog)
    BY <1>2, <1>3, <1>5, OneJob DEF Fine, Idle, Purge
  <1> QED
    BY <1>4, <1>6, JobStepInv

LEMMA ClaimQueuedInv ==
    ASSUME IInv, NEW j \in Jobs, ClaimQueued(j)
    PROVE  IInv'
  <1> DEFINE dead == [job[j] EXCEPT !.status = "cancelled"]
             alive == [job[j] EXCEPT !.status = "running", !.attempts = @ + 1]
  <1>1. dead \in Job /\ dead.file = job[j].file
    BY OneJob DEF Job
  <1>2. Fine(j, dead, run[j], base[j], agreed[j])
    BY <1>1, OneJob DEF Fine, Job, Idle, ClaimQueued
  <1>3. CASE \/ job[j].cancel_requested \/ job[j].expired
             \/ job[j].attempts >= MaxAttempts
    <2>1. Update(j, dead, run[j], base[j], agreed[j]) /\ catalog' = catalog
      BY <1>3, OneJob DEF Update, ClaimQueued
    <2> HIDE DEF dead
    <2> QED
      BY <1>2, <2>1, JobStepInv
  <1>4. CASE ~(\/ job[j].cancel_requested \/ job[j].expired
               \/ job[j].attempts >= MaxAttempts)
    <2>1. job[j] \in Job /\ job[j].attempts + 1 \in 0..MaxAttempts
      BY <1>4, OneJob, RegulatoryAssumption DEF Job
    <2>2. alive \in Job /\ alive.file = job[j].file
      BY <2>1 DEF Job
    <2>3. Fine(j, alive, "claimed", base[j], agreed[j])
      BY <1>4, <2>1, <2>2, OneJob DEF Fine, Job, ClaimQueued
    <2>4. Update(j, alive, "claimed", base[j], agreed[j]) /\ catalog' = catalog
      BY <1>4, OneJob DEF Update, ClaimQueued
    <2> HIDE DEF alive
    <2> QED
      BY <2>3, <2>4, JobStepInv
  <1> QED
    BY <1>3, <1>4

LEMMA FinishApplyInv ==
    ASSUME IInv, NEW j \in Jobs, FinishApply(j)
    PROVE  IInv'
  <1> DEFINE row == [job[j] EXCEPT !.status = "completed", !.preview_ready = FALSE,
                                   !.preview = base[j]]
  <1>1. row \in Job /\ row.file = job[j].file
    BY OneJob DEF Job
  <1>2. Fine(j, row, "none", NoCatalog, NoCatalog)
    BY <1>1 DEF Fine
  <1>3. Update(j, row, "none", NoCatalog, NoCatalog)
    BY DEF Update, FinishApply, Completed
  <1>4. \A k \in Jobs : run[k] = "begun" => k = j
    BY DEF IInv, RunsInv, FinishApply, MayFinish
  <1> HIDE DEF row
  <1> QED
    BY <1>2, <1>3, <1>4, FinishApplyGood, UpdateInv

\* Changes by hand happen while no transaction of a run has the lock.
LEMMA LockFreeInv ==
    ASSUME IInv, LockFree, Good(catalog, catalog'), form' = form,
           UNCHANGED <<job, run, base, page, agreed>>,
           receipts' \in SUBSET {r \in Requests : form[r] # NoForm},
           changes' \in 0..MaxChanges
    PROVE  IInv'
  <1>1. TypeOK'
    BY DEF IInv, TypeOK, Good
  <1>2. Sound(catalog') /\ PagesInv'
    BY PagesAfter DEF Good, IInv
  <1>3. RunsInv' /\ AgreedInv'
    BY DEF IInv, RunsInv, AgreedInv, LockFree
  <1> QED
    BY <1>1, <1>2, <1>3 DEF IInv

\* A page that is filled in shows the rule as it is.
LEMMA TakeInv ==
    ASSUME IInv, NEW r \in Requests, NEW f \in Form, Shown(f), Take(r, f)
    PROVE  IInv'
  <1>1. /\ form' = [form EXCEPT ![r] = f] /\ r \notin receipts
        /\ UNCHANGED <<catalog, job, run, base, page, receipts, changes, agreed>>
    BY DEF Take
  <1>2. TypeOK'
    BY <1>1, NullAssumption DEF IInv, TypeOK
  <1>3. PagesInv'
    BY <1>1 DEF IInv, TypeOK, PagesInv, Shown, Live
  <1>4. Sound(catalog)' /\ RunsInv' /\ AgreedInv'
    BY <1>1 DEF IInv, RunsInv, AgreedInv
  <1> QED
    BY <1>2, <1>3, <1>4 DEF IInv

LEMMA EditingInv ==
    ASSUME IInv, Editing
    PROVE  IInv'
  <1>1. ASSUME NEW r \in Requests, Mutate(r)
        PROVE  IInv'
    <2>1. Good(catalog, catalog')
      BY <1>1, MutateGood
    <2>2. /\ LockFree /\ form' = form /\ changes' = changes
          /\ UNCHANGED <<job, run, base, page, agreed>>
          /\ receipts' = receipts \cup {r} /\ form[r] # NoForm
      BY <1>1 DEF Mutate
    <2>3. receipts' \in SUBSET {x \in Requests : form[x] # NoForm}
      BY <2>2 DEF IInv, TypeOK
    <2>4. changes' \in 0..MaxChanges
      BY <2>2 DEF IInv, TypeOK
    <2> QED
      BY <2>1, <2>2, <2>3, <2>4, LockFreeInv
  <1>2. ASSUME NEW r \in Requests, Resend(r)
        PROVE  IInv'
    BY <1>2 DEF Resend, vars, IInv, TypeOK, PagesInv, Shown, Live, RunsInv,
                AgreedInv
  <1>3. ASSUME NEW r \in Requests, NEW to \in Contents, FillNew(r, to)
        PROVE  IInv'
    <2> DEFINE f == [action |-> "create", rule |-> NoId, shown |-> Unused,
                     to |-> to]
    <2>1. f \in Form /\ Shown(f)
      BY RegulatoryAssumption DEF Form, Shown
    <2>2. Take(r, f)
      BY <1>3 DEF FillNew
    <2> HIDE DEF f
    <2> QED
      BY <2>1, <2>2, TakeInv
  <1>4. ASSUME NEW r \in Requests, NEW i \in Live(catalog), FillSwitch(r, i)
        PROVE  IInv'
    <2> DEFINE f == [action |-> "switch", rule |-> i, shown |-> catalog.rules[i],
                     to |-> ContentOf(catalog.rules[i])]
    <2>1. i \in Ids /\ catalog.rules[i] \in Rule /\ catalog.rules[i] # Unused
      BY LiveRule, NotNull DEF IInv, TypeOK
    <2>2. f \in Form /\ Shown(f)
      BY <2>1 DEF Form, Shown, ContentOf, Content, Rule
    <2>3. Take(r, f)
      BY <1>4 DEF FillSwitch
    <2> HIDE DEF f
    <2> QED
      BY <2>2, <2>3, TakeInv
  <1>5. ASSUME NEW r \in Requests, NEW i \in Live(catalog), NEW to \in Contents,
               FillEdit(r, i, to)
        PROVE  IInv'
    <2> DEFINE f == [action |-> "edit", rule |-> i, shown |-> catalog.rules[i],
                     to |-> to]
    <2>1. i \in Ids /\ catalog.rules[i] \in Rule /\ catalog.rules[i] # Unused
      BY LiveRule, NotNull DEF IInv, TypeOK
    <2>2. f \in Form /\ Shown(f)
      BY <2>1, RegulatoryAssumption DEF Form, Shown, Rule
    <2>3. Take(r, f)
      BY <1>5 DEF FillEdit
    <2> HIDE DEF f
    <2> QED
      BY <2>2, <2>3, TakeInv
  <1> QED
    BY <1>1, <1>2, <1>3, <1>4, <1>5 DEF Editing

LEMMA ManagingInv ==
    ASSUME IInv, Managing
    PROVE  IInv'
  <1>1. Good(catalog, catalog') /\ Administered
    BY ManagingGood
  <1>2. receipts' \in SUBSET {r \in Requests : form[r] # NoForm}
    BY <1>1 DEF Administered, IInv, TypeOK
  <1>3. changes' \in 0..MaxChanges
    <2>1. Counted \/ UNCHANGED changes
      BY DEF Managing, AddStatus, RenameStatus, SwapPriorities, RemoveStatus
    <2>2. changes \in 0..MaxChanges /\ MaxChanges \in Nat
      BY RegulatoryAssumption DEF IInv, TypeOK
    <2> QED
      BY <2>1, <2>2 DEF Counted
  <1> QED
    BY <1>1, <1>2, <1>3, LockFreeInv DEF Administered

LEMMA OpenPageInv ==
    ASSUME IInv, NEW j \in Jobs, OpenPage(j)
    PROVE  IInv'
  <1>1. /\ page' = [page EXCEPT ![j] = job[j].preview]
        /\ UNCHANGED <<catalog, job, run, base, form, receipts, changes, agreed>>
    BY DEF OpenPage
  <1>2. TypeOK'
    BY <1>1, OneJob DEF IInv, TypeOK
  <1>3. PagesInv' /\ Sound(catalog)' /\ RunsInv' /\ AgreedInv'
    BY <1>1 DEF IInv, PagesInv, Shown, Live, RunsInv, AgreedInv
  <1> QED
    BY <1>2, <1>3 DEF IInv

LEMMA NextInv ==
    ASSUME IInv, Next
    PROVE  IInv'
  <1>1. ASSUME NEW j \in Jobs, Deciding(j)
        PROVE  IInv'
    BY <1>1, SubmitInv, OpenPageInv, CancelInv, ConfirmInv, RetryInv DEF Deciding
  <1>2. ASSUME NEW j \in Jobs, Working(j)
        PROVE  IInv'
    BY <1>2, ClaimQueuedInv, ClaimInterruptedInv, BeginInv, FinishPreviewInv,
       FinishApplyInv, FailInv, CrashInv DEF Working
  <1>3. ASSUME NEW j \in Jobs, Cleaning(j)
        PROVE  IInv'
    BY <1>3, ExpireInv, RequestEndInv, PurgeInv DEF Cleaning
  <1> QED
    BY <1>1, <1>2, <1>3, EditingInv, ManagingInv DEF Next

LEMMA OldRulesType == OldRules \subseteq Rule
  <1> SUFFICES ASSUME NEW to \in Contents, NEW active \in BOOLEAN
               PROVE  [status |-> to.status, value |-> to.value,
                       note |-> to.note, is_active |-> active,
                       manual_protected |-> ~active, revision |-> 1] \in Rule
    BY DEF OldRules
  <1>1. to.status \in Statuses /\ to.value \in Values /\ to.note \in Notes
    BY RegulatoryAssumption DEF Content
  <1>2. (~active) \in BOOLEAN
    OBVIOUS
  <1> QED
    BY <1>1, <1>2 DEF Rule

LEMMA InitInv ==
    ASSUME Init
    PROVE  IInv
  <1>1. PICK status \in [OldStatuses -> Status], old \in [OldIds -> OldRules] :
            /\ catalog = Migrated(status, old)
            /\ \A i \in OldIds :
                   /\ old[i].status \in OldStatuses
                   /\ At(catalog, old[i].status, old[i].value) = {i}
    BY DEF Init
  <1>2. /\ \A i \in OldIds : old[i] \in Rule
        /\ DOMAIN old = OldIds
    BY OldRulesType
  <1>3. /\ catalog.status = [s \in Statuses |->
               IF s \in OldStatuses THEN status[s] ELSE Unused]
        /\ catalog.rules = [i \in Ids |-> IF i \in OldIds THEN old[i] ELSE Unused]
        /\ catalog.keys =
               {[rule |-> i, status |-> old[i].status, value |-> old[i].value] :
                   i \in {k \in OldIds : old[k].manual_protected}}
    BY <1>1 DEF Migrated
  <1>4. OldIds \subseteq Ids /\ OldStatuses \subseteq Statuses
    BY RegulatoryAssumption
  <1>5. catalog.keys \subseteq Key
    BY <1>2, <1>3, <1>4 DEF Key, Rule
  <1>6. catalog \in Catalog
    <2>1. /\ catalog.status \in [Statuses -> Status \cup {Unused, Gone}]
          /\ catalog.rules \in [Ids -> Rule \cup {Unused, Gone}]
      BY <1>2, <1>3
    <2>2. catalog = [status |-> catalog.status, rules |-> catalog.rules,
                     keys |-> catalog.keys]
      BY <1>1 DEF Migrated
    <2> QED
      BY <1>5, <2>1, <2>2 DEF Catalog
  <1>7. Live(catalog) = OldIds /\ OldStatuses \subseteq InUse(catalog)
    BY <1>2, <1>3, <1>4, NotNull, NotNullStatus DEF Live, InUse
  <1>8. \A i \in OldIds : catalog.rules[i] = old[i]
    BY <1>3, <1>4
  <1>9. \A i, j \in OldIds : old[i].status = old[j].status
                             /\ old[i].value = old[j].value => i = j
    <2> TAKE i, j \in OldIds
    <2>1. i \in At(catalog, old[i].status, old[i].value)
          /\ j \in At(catalog, old[j].status, old[j].value)
      BY <1>7, <1>8 DEF At
    <2> QED
      BY <1>1, <2>1
  <1>10. \A k \in catalog.keys : \E i \in OldIds :
            /\ old[i].manual_protected
            /\ k = [rule |-> i, status |-> old[i].status, value |-> old[i].value]
    BY <1>3
  <1>11. Sound(catalog)
    <2>1. UniqueRules(catalog)
      BY <1>7, <1>8, <1>9 DEF UniqueRules
    <2>2. UniqueKeys(catalog)
      BY <1>9, <1>10 DEF UniqueKeys
    <2>3. Owners(catalog)
      <3> SUFFICES ASSUME NEW k \in catalog.keys
                   PROVE  /\ k.rule \in Live(catalog)
                          /\ catalog.rules[k.rule].manual_protected
                          /\ Free(catalog, k)
                          /\ k.status \in InUse(catalog)
        BY DEF Owners
      <3>1. PICK i \in OldIds :
                /\ old[i].manual_protected
                /\ k = [rule |-> i, status |-> old[i].status,
                        value |-> old[i].value]
        BY <1>10
      <3>2. k.rule = i /\ k.status = old[i].status /\ k.value = old[i].value
        BY <3>1
      <3> QED
        BY <1>1, <1>7, <1>8, <1>9, <3>1, <3>2 DEF Free
    <2>4. Rules(catalog)
      <3> SUFFICES ASSUME NEW i \in OldIds
                   PROVE  /\ catalog.rules[i].status \in InUse(catalog)
                          /\ catalog.rules[i].manual_protected =>
                                 KeyOf(catalog, i) \in catalog.keys
        BY <1>7 DEF Rules
      <3> QED
        BY <1>1, <1>3, <1>7, <1>8 DEF KeyOf
    <2> QED
      BY <2>1, <2>2, <2>3, <2>4 DEF Sound
  <1>12. job \in [Jobs -> Job] /\ \A j \in Jobs : job[j].status = "none"
                               /\ job[j].phase = "preview"
    <2> DEFINE First == [status: {"none"}, phase: {"preview"},
                         cancel_requested: {FALSE}, expired: {FALSE},
                         purged: {FALSE}, preview_ready: {FALSE},
                         attempts: {0}, preview: {NoCatalog}, file: Files]
    <2>1. job \in [Jobs -> First]
      BY DEF Init
    <2>2. 0 \in 0..MaxAttempts
      BY RegulatoryAssumption
    <2>3. ASSUME NEW row \in First
          PROVE  row \in Job /\ row.status = "none" /\ row.phase = "preview"
      BY <2>2 DEF Job
    <2> HIDE DEF First
    <2> QED
      BY <2>1, <2>3
  <1>13. TypeOK
    BY <1>6, <1>12, RegulatoryAssumption DEF Init, TypeOK
  <1>14. PagesInv /\ RunsInv /\ AgreedInv
    BY <1>12 DEF Init, PagesInv, RunsInv, AgreedInv
  <1> QED
    BY <1>11, <1>13, <1>14 DEF IInv

LEMMA StutterInv ==
    ASSUME IInv, UNCHANGED vars
    PROVE  IInv'
  BY DEF vars, IInv, TypeOK, PagesInv, Shown, Live, RunsInv, AgreedInv

\* The catalogue is sound, pages show no more than the revision says, and a job
\* that is about to be applied has the preview that was agreed on.
THEOREM InductiveInvariant == Spec => []IInv
  <1>1. Init => IInv
    BY InitInv
  <1>2. IInv /\ [Next]_vars => IInv'
    BY NextInv, StutterInv
  <1> QED
    BY <1>1, <1>2, PTL DEF Spec

\* Every variable keeps its type; in particular no job is tried more often than
\* MAX_ATTEMPTS, and a request_id with an event has been filled in.
THEOREM TypeCorrect == Spec => []TypeOK
  <1>1. IInv => TypeOK
    BY DEF IInv
  <1> QED
    BY <1>1, InductiveInvariant, PTL

\* No import and no edit gives a key to a rule that does not own it.
THEOREM KeysStay == Spec => []KeysStayWithOwner
  <1>1. IInv => KeysStayWithOwner
    BY SoundKeys DEF IInv
  <1> QED
    BY <1>1, InductiveInvariant, PTL

------------------------------------------------------------------------------
(* What a step may do                                                      *)

LEMMA ApplyingStep ==
    ASSUME IInv, Next, NEW j \in Jobs, Applying(j)
    PROVE  FinishApply(j)
  <1>1. job[j] \in Job /\ job \in [Jobs -> Job]
    BY DEF IInv, TypeOK
  <1>2. job' # job
    BY DEF Applying
  <1>3. \E k \in Jobs : Deciding(k) \/ Working(k) \/ Cleaning(k)
    BY <1>2, ManagingGood DEF Next, Editing, Mutate, Resend, FillNew, FillEdit,
       FillSwitch, Take, Administered, vars
  <1>4. PICK k \in Jobs : Deciding(k) \/ Working(k) \/ Cleaning(k)
    BY <1>3
  <1>5. ~(Submit(k) \/ OpenPage(k) \/ Retry(k) \/ Expire(k) \/ RequestEnd(k))
    BY <1>1 DEF Applying, Submit, NotYet, OpenPage, Retry, Expire, RequestEnd, Job
  <1>6. ~Cancel(k)
    BY <1>1 DEF Applying, Cancel, Job
  <1>7. ~Confirm(k)
    BY <1>1 DEF Applying, Confirm, Confirmable, Job
  <1>8. ~Purge(k)
    <2> SUFFICES ASSUME Purge(k)
                 PROVE  FALSE
      OBVIOUS
    <2> DEFINE asked == job[k].cancel_requested
                            \/ job[k].status \in {"queued", "running"}
               status == IF job[k].status \in {"queued", "running"}
                         THEN "cancelled" ELSE job[k].status
               row == [job[k] EXCEPT !.purged = TRUE, !.preview = NoCatalog,
                                     !.preview_ready = FALSE,
                                     !.cancel_requested = asked,
                                     !.status = status]
    <2>1. job' = [job EXCEPT ![k] = row]
      BY DEF Purge
    <2>2. job[k].status = "running" => status # "completed"
      OBVIOUS
    <2> HIDE DEF asked, status
    <2>3. row.status = status
      BY <1>1 DEF Job
    <2> HIDE DEF row
    <2> QED
      BY <1>1, <2>1, <2>2, <2>3 DEF Applying
  <1>9. ~(ClaimQueued(k) \/ ClaimInterrupted(k) \/ Begin(k) \/ Crash(k))
    BY <1>1 DEF Applying, ClaimQueued, ClaimInterrupted, Begin, Crash, Job
  <1>10. ~Fail(k)
    <2> SUFFICES ASSUME Fail(k)
                 PROVE  FALSE
      OBVIOUS
    <2> DEFINE status == IF job[k].cancel_requested THEN "cancelled" ELSE "failed"
               row == [job[k] EXCEPT !.status = status, !.preview_ready = FALSE]
    <2>1. job' = [job EXCEPT ![k] = row]
      BY DEF Fail
    <2>2. status # "completed"
      OBVIOUS
    <2> HIDE DEF status
    <2>3. row.status = status
      BY <1>1 DEF Job
    <2> HIDE DEF row
    <2> QED
      BY <1>1, <2>1, <2>2, <2>3 DEF Applying
  <1>11. ~FinishPreview(k)
    <2> SUFFICES ASSUME FinishPreview(k)
                 PROVE  FALSE
      OBVIOUS
    <2>1. job[k].phase = "preview"
      BY DEF FinishPreview
    <2>2. \A l \in Jobs : l # k => job'[l] = job[l]
      BY <1>1 DEF FinishPreview, Completed
    <2> QED
      BY <2>1, <2>2 DEF Applying
  <1>12. FinishApply(k) => j = k
    BY <1>1 DEF Applying, FinishApply, Completed
  <1> QED
    BY <1>4, <1>5, <1>6, <1>7, <1>8, <1>9, <1>10, <1>11, <1>12
       DEF Deciding, Working, Cleaning

\* An import makes of the catalogue what the page showed that was confirmed.
THEOREM WritesConfirmed == Spec => WritesWhatWasConfirmed
  <1> DEFINE A == \A j \in Jobs : Applying(j) =>
                      /\ agreed[j] # NoCatalog
                      /\ catalog = agreed[j]
                      /\ catalog' \in Outcomes(agreed[j], job[j].file)
  <1>1. IInv /\ [Next]_vars => [A]_vars
    <2> SUFFICES ASSUME IInv, Next, NEW j \in Jobs, Applying(j)
                 PROVE  /\ agreed[j] # NoCatalog
                        /\ catalog = agreed[j]
                        /\ catalog' \in Outcomes(agreed[j], job[j].file)
      OBVIOUS
    <2>1. FinishApply(j)
      BY ApplyingStep
    <2>2. /\ run[j] = "begun" /\ ~job[j].cancel_requested
          /\ base[j] = job[j].preview
          /\ catalog' \in Outcomes(base[j], job[j].file)
      BY <2>1 DEF FinishApply, MayFinish, SamePlan, Writes
    <2>3. base[j] = catalog
      BY <2>2 DEF IInv, RunsInv
    <2>4. agreed[j] # NoCatalog /\ agreed[j] = job[j].preview
      BY <2>2 DEF Applying, IInv, AgreedInv
    <2> QED
      BY <2>2, <2>3, <2>4
  <1> QED
    BY <1>1, InductiveInvariant, PTL DEF Spec, WritesWhatWasConfirmed

\* An import leaves the rules that were edited by hand, and all keys, alone.
THEOREM ImportsSpare == Spec => ImportsSpareEdits
  <1> DEFINE A == (\E j \in Jobs : Applying(j)) =>
                      /\ catalog'.keys = catalog.keys
                      /\ \A i \in Live(catalog) :
                             catalog.rules[i].manual_protected =>
                                 catalog'.rules[i] = catalog.rules[i]
  <1>1. IInv /\ [Next]_vars => [A]_vars
    BY ApplyingStep, FinishApplyGood
  <1> QED
    BY <1>1, InductiveInvariant, PTL DEF Spec, ImportsSpareEdits

\* An edit by hand finds the rule as its page showed it and keeps its key.
THEOREM EditsShown == Spec => EditsWhatIsShown
  <1> DEFINE A == \A i \in Live(catalog) :
                      (catalog'.rules[i] # catalog.rules[i] /\ job' = job
                         /\ catalog'.status = catalog.status) =>
                          \E r \in Requests :
                              /\ r \in receipts' \ receipts
                              /\ form[r].rule = i /\ form[r].shown = catalog.rules[i]
                              /\ KeyOf(catalog, i) \in catalog'.keys
  <1>1. IInv /\ [Next]_vars => [A]_vars
    <2> SUFFICES ASSUME IInv, Next, NEW i \in Live(catalog),
                        catalog'.rules[i] # catalog.rules[i], job' = job,
                        catalog'.status = catalog.status
                 PROVE  \E r \in Requests :
                            /\ r \in receipts' \ receipts
                            /\ form[r].rule = i
                            /\ form[r].shown = catalog.rules[i]
                            /\ KeyOf(catalog, i) \in catalog'.keys
      OBVIOUS
    <2>1. catalog' # catalog
      OBVIOUS
    <2>2. ASSUME NEW j \in Jobs, FinishApply(j)
          PROVE  FALSE
      <3>1. job[j].status = "running"
        BY <2>2 DEF IInv, RunsInv, FinishApply, MayFinish
      <3>2. job'[j].status = "completed"
        <4>1. job \in [Jobs -> Job]
          BY DEF IInv, TypeOK
        <4> QED
          BY <2>2, <4>1 DEF FinishApply, Completed, Job
      <3> QED
        BY <3>1, <3>2
    <2>3. ~Managing
      BY ManagingGood
    <2>4. PICK r \in Requests : Mutate(r)
      BY <2>1, <2>2, <2>3 DEF Next, Editing, Resend, FillNew, FillEdit, FillSwitch,
         Take, vars, Deciding, Submit, OpenPage, Cancel, Confirm, Retry, Working,
         ClaimQueued, ClaimInterrupted, Begin, FinishPreview, Fail, Crash,
         Cleaning, Expire, RequestEnd, Purge
    <2>5. r \in receipts' \ receipts
      BY <2>4 DEF Mutate, New
    <2> QED
      BY <2>4, <2>5, MutateGood
  <1> QED
    BY <1>1, InductiveInvariant, PTL DEF Spec, EditsWhatIsShown

=============================================================================
