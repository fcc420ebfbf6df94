-------------------------- MODULE SelectionProofs --------------------------
(***************************************************************************)
(* What the folds over include lists, exclude lists and presets compute,   *)
(* for any lists and any number of presets.                                *)
(***************************************************************************)
EXTENDS Selection, WellFoundedInduction, TLAPS

-----------------------------------------------------------------------------
(* The principle all inductions here rest on: a set of numbers has a least. *)

LEMMA LeastNumber == ASSUME NEW S \in SUBSET Nat, S # {} PROVE \E n \in S : \A m \in S : n <= m
<1> DEFINE Less == {pair \in Nat \X Nat : pair[1] < pair[2]}
<1>1. IsWellFoundedOn(Less, Nat)
  BY NatLessThanWellFounded, Zenon DEF OpToRel
<1>2. \A m, n \in Nat : m < n => <<m, n>> \in Less
  OBVIOUS
<1> HIDE DEF Less
<1>3. PICK n \in S : \A m \in S : ~(<<m, n>> \in Less)
  BY <1>1, WFMin, Zenon
<1>4. \A m \in S : ~(m < n)
  BY <1>2, <1>3
<1>5. \A m \in S : n <= m
  BY <1>4
<1> QED BY <1>5

-----------------------------------------------------------------------------
(* Type lists. *)

\* Some pattern of the list matches the type.
Named(list, t) == \E p \in list : t \in p.matches

LEMMA NamedIsExpanded ==
  ASSUME NEW types, NEW list, NamesItself(list, types), NEW t \in types
  PROVE  t \in Expand(list, types) <=> Named(list, t)
BY DEF Expand, Named, NamesItself

LEMMA IncludedOnly ==
  ASSUME NEW types, NEW list, NamesItself(list, types)
  PROVE  IncludeOnly(types, list) = {t \in types : list = {} \/ Named(list, t)}
BY NamedIsExpanded DEF IncludeOnly

LEMMA ExcludedAll ==
  ASSUME NEW types, NEW list, NamesItself(list, types)
  PROVE  Exclude(types, list) = {t \in types : ~Named(list, t)}
BY NamedIsExpanded DEF Exclude

LEMMA NamesItselfStill ==
  ASSUME NEW types, NEW fewer \in SUBSET types, NEW list, NamesItself(list, types)
  PROVE  NamesItself(list, fewer)
BY DEF NamesItself

\* The order in which the lists are applied makes no difference, nor does a list that expands to
\* nothing that is left (ResolveResourceTypes): a type is scanned exactly if every include list
\* that is not empty names it and no exclude list does.
LEMMA Resolved ==
  ASSUME NEW base, NEW includes, NEW excludes,
         \A i \in 1..3 : NamesItself(includes[i], base) /\ NamesItself(excludes[i], base)
  PROVE  ResolveResourceTypes(base, includes, excludes) =
           {t \in base : \A i \in 1..3 : /\ includes[i] = {} \/ Named(includes[i], t)
                                         /\ ~Named(excludes[i], t)}
<1> DEFINE i1 == IncludeOnly(base, includes[1])
           i2 == IncludeOnly(i1, includes[2])
           i3 == IncludeOnly(i2, includes[3])
           e1 == Exclude(i3, excludes[1])
           e2 == Exclude(e1, excludes[2])
           e3 == Exclude(e2, excludes[3])
<1>1. ResolveResourceTypes(base, includes, excludes) = e3
  BY DEF ResolveResourceTypes
<1>2. i1 = {t \in base : includes[1] = {} \/ Named(includes[1], t)}
  BY IncludedOnly
<1> HIDE DEF i1
<1>3. i2 = {t \in i1 : includes[2] = {} \/ Named(includes[2], t)}
  BY IncludedOnly, NamesItselfStill, <1>2
<1> HIDE DEF i2
<1>4. i3 = {t \in i2 : includes[3] = {} \/ Named(includes[3], t)}
  BY IncludedOnly, NamesItselfStill, <1>2, <1>3
<1> HIDE DEF i3
<1>5. e1 = {t \in i3 : ~Named(excludes[1], t)}
  BY ExcludedAll, NamesItselfStill, <1>2, <1>3, <1>4
<1> HIDE DEF e1
<1>6. e2 = {t \in e1 : ~Named(excludes[2], t)}
  BY ExcludedAll, NamesItselfStill, <1>2, <1>3, <1>4, <1>5
<1> HIDE DEF e2
<1>7. e3 = {t \in e2 : ~Named(excludes[3], t)}
  BY ExcludedAll, NamesItselfStill, <1>2, <1>3, <1>4, <1>5, <1>6
<1> HIDE DEF e3
<1>8. \A t : t \in e3 <=> /\ t \in base
                          /\ \A i \in 1..3 : /\ includes[i] = {} \/ Named(includes[i], t)
                                             /\ ~Named(excludes[i], t)
  BY <1>2, <1>3, <1>4, <1>5, <1>6, <1>7
<1> QED BY <1>1, <1>8

\* ResolveResourceTypes: what is scanned is what some pattern of every include list names, of
\* those lists that are not empty, and no pattern of an exclude list; the order in which the
\* command line's, the configuration's and the account's lists are taken makes no difference.
THEOREM TypesScanned ==
  ASSUME NEW base, NEW c,
         \A list \in {c.includes, c.excludes, GetIncludes(c.config.types), c.config.types.excludes,
                      GetIncludes(c.config.accounts[c.target].types),
                      c.config.accounts[c.target].types.excludes} : NamesItself(list, base)
  PROVE  TypesToScan(base, c) =
           {t \in base :
              /\ \A list \in {c.includes, GetIncludes(c.config.types),
                              GetIncludes(c.config.accounts[c.target].types)} :
                   list = {} \/ Named(list, t)
              /\ \A list \in {c.excludes, c.config.types.excludes,
                              c.config.accounts[c.target].types.excludes} : ~Named(list, t)}
<1> DEFINE includes == <<c.includes, GetIncludes(c.config.types), GetIncludes(c.config.accounts[c.target].types)>>
           excludes == <<c.excludes, c.config.types.excludes, c.config.accounts[c.target].types.excludes>>
<1>1. TypesToScan(base, c) = ResolveResourceTypes(base, includes, excludes)
  BY DEF TypesToScan
<1>2. \A i \in 1..3 : i = 1 \/ i = 2 \/ i = 3
  OBVIOUS
<1>3. /\ includes[1] = c.includes /\ includes[2] = GetIncludes(c.config.types)
      /\ includes[3] = GetIncludes(c.config.accounts[c.target].types)
      /\ excludes[1] = c.excludes /\ excludes[2] = c.config.types.excludes
      /\ excludes[3] = c.config.accounts[c.target].types.excludes
  OBVIOUS
<1> HIDE DEF includes, excludes
<1>4. \A i \in 1..3 : NamesItself(includes[i], base) /\ NamesItself(excludes[i], base)
  BY <1>2, <1>3
<1>5. ResolveResourceTypes(base, includes, excludes) =
        {t \in base : \A i \in 1..3 : /\ includes[i] = {} \/ Named(includes[i], t)
                                      /\ ~Named(excludes[i], t)}
  BY <1>4, Resolved
<1>6. \A t : (\A i \in 1..3 : /\ includes[i] = {} \/ Named(includes[i], t)
                              /\ ~Named(excludes[i], t)) <=>
              /\ \A list \in {c.includes, GetIncludes(c.config.types),
                              GetIncludes(c.config.accounts[c.target].types)} :
                   list = {} \/ Named(list, t)
              /\ \A list \in {c.excludes, c.config.types.excludes,
                              c.config.accounts[c.target].types.excludes} : ~Named(list, t)
  BY <1>2, <1>3
<1> QED BY <1>1, <1>5, <1>6

-----------------------------------------------------------------------------
(* Filters. *)

\* The filters under a key, and that they are a list.
Entries(filters, key) == Elements(Under(filters, key))
IsListed(filters, key) == IsList(Under(filters, key))

\* A filter keeps the resource or cannot be matched with it.
Speaks(f, properties) == Answer(f, GetProperty(properties, f.property)) # "no"

LEMMA ListsAppended ==
  ASSUME NEW s, NEW t, IsList(s), IsList(t)
  PROVE  /\ IsList(s \o t)
         /\ Elements(s \o t) = Elements(s) \cup Elements(t)
<1>1. s \in Seq(Elements(s) \cup Elements(t)) /\ t \in Seq(Elements(s) \cup Elements(t))
  BY DEF IsList
<1>2. s \o t \in Seq(Elements(s) \cup Elements(t)) /\ Len(s \o t) = Len(s) + Len(t)
  BY <1>1
<1>3. DOMAIN s = 1..Len(s) /\ DOMAIN t = 1..Len(t) /\ DOMAIN (s \o t) = 1..(Len(s) + Len(t))
      /\ Len(s) \in Nat /\ Len(t) \in Nat
  BY <1>1, <1>2
<1>4. \A i \in 1..Len(s) : (s \o t)[i] = s[i] /\ i \in 1..(Len(s) + Len(t))
  BY <1>1, <1>3
<1>5. \A i \in 1..Len(t) : (s \o t)[Len(s) + i] = t[i] /\ Len(s) + i \in 1..(Len(s) + Len(t))
  BY <1>1, <1>3
<1>6. \A i \in 1..(Len(s) + Len(t)) : i \in 1..Len(s) \/ (i - Len(s) \in 1..Len(t) /\ Len(s) + (i - Len(s)) = i)
  BY <1>3
<1>7. \A f : (\E i \in DOMAIN (s \o t) : (s \o t)[i] = f) <=>
               (\E i \in DOMAIN s : s[i] = f) \/ (\E i \in DOMAIN t : t[i] = f)
  <2> TAKE f
  <2>1. ASSUME NEW i \in DOMAIN (s \o t), (s \o t)[i] = f
        PROVE  (\E j \in DOMAIN s : s[j] = f) \/ (\E j \in DOMAIN t : t[j] = f)
    <3>1. CASE i \in 1..Len(s)
      BY <2>1, <3>1, <1>3, <1>4
    <3>2. CASE i - Len(s) \in 1..Len(t) /\ Len(s) + (i - Len(s)) = i
      BY <2>1, <3>2, <1>3, <1>5
    <3> QED BY <2>1, <3>1, <3>2, <1>3, <1>6
  <2>2. ASSUME NEW j \in DOMAIN s, s[j] = f PROVE \E i \in DOMAIN (s \o t) : (s \o t)[i] = f
    BY <2>2, <1>3, <1>4
  <2>3. ASSUME NEW j \in DOMAIN t, t[j] = f PROVE \E i \in DOMAIN (s \o t) : (s \o t)[i] = f
    BY <2>3, <1>3, <1>5
  <2> QED BY <2>1, <2>2, <2>3
<1>8. Elements(s \o t) = Elements(s) \cup Elements(t)
  BY <1>7 DEF Elements
<1> QED BY <1>2, <1>8 DEF IsList

LEMMA EntriesAppended ==
  ASSUME NEW filters, NEW more, NEW key, IsListed(filters, key), IsListed(more, key)
  PROVE  /\ IsListed(Appended(filters, more), key)
         /\ Entries(Appended(filters, more), key) = Entries(filters, key) \cup Entries(more, key)
<1>1. CASE key \in DOMAIN filters \cup DOMAIN more
  <2>1. Under(Appended(filters, more), key) = Under(filters, key) \o Under(more, key)
    BY <1>1 DEF Under, Appended
  <2> QED BY <2>1, ListsAppended DEF IsListed, Entries
<1>2. CASE key \notin DOMAIN filters \cup DOMAIN more
  <2>1. /\ Under(Appended(filters, more), key) = << >>
        /\ Under(filters, key) = << >> /\ Under(more, key) = << >>
    BY <1>2 DEF Under, Appended
  <2> QED BY <2>1 DEF IsListed, Entries, Elements, IsList
<1> QED BY <1>1, <1>2

\* Config.Filters loses no filter of the account or of a preset and adds none, however many
\* presets there are and whatever keys they share.
THEOREM FiltersTogether ==
  ASSUME NEW config, NEW target, NEW key,
         LET account == config.accounts[target]
             lists == {account.filters}
                        \cup {config.presets[name].filters : name \in Elements(account.presets)}
         IN  /\ IsList(account.presets)
             /\ \A filters \in lists : IsListed(filters, key)
  PROVE  LET account == config.accounts[target]
             lists == {account.filters}
                        \cup {config.presets[name].filters : name \in Elements(account.presets)}
         IN  /\ IsListed(FiltersOf(config, target), key)
             /\ Entries(FiltersOf(config, target), key) = UNION {Entries(filters, key) : filters \in lists}
<1> DEFINE account == config.accounts[target]
           size == Len(account.presets)
           preset(n) == config.presets[account.presets[n]].filters
           Step(filters, n) == Appended(filters, preset(n))
           Good(f, m) == f = [n \in 0..m |-> IF n = 0 THEN account.filters ELSE Step(f[n - 1], n)]
           Bad == {m \in Nat : ~\E f : Good(f, m)}
<1>a. size \in Nat /\ DOMAIN account.presets = 1..size
  BY DEF IsList
<1>1. \E f : Good(f, 0)
  <2>1. Good([n \in 0..0 |-> account.filters], 0)
    OBVIOUS
  <2> QED BY <2>1
<1>2. ASSUME NEW m \in Nat, NEW f, Good(f, m) PROVE \E g : Good(g, m + 1)
  <2> HIDE DEF Step, account
  <2> DEFINE g == [n \in 0..(m + 1) |-> IF n = m + 1 THEN Step(f[m], n) ELSE f[n]]
  <2>1. f = [n \in 0..m |-> IF n = 0 THEN account.filters ELSE Step(f[n - 1], n)]
    BY <1>2
  <2>2. \A n \in 0..(m + 1) : g[n] = IF n = 0 THEN account.filters ELSE Step(g[n - 1], n)
    <3> TAKE n \in 0..(m + 1)
    <3>1. CASE n = m + 1
      <4>1. g[n] = Step(f[m], n) /\ g[m] = f[m] /\ n - 1 = m /\ n # 0
        BY <3>1
      <4> QED BY <4>1
    <3>2. CASE n # m + 1
      <4>1. n \in 0..m /\ g[n] = f[n] /\ (n # 0 => n - 1 \in 0..(m + 1) /\ n - 1 # m + 1)
        BY <3>2
      <4>2. n # 0 => g[n - 1] = f[n - 1]
        BY <4>1
      <4>3. f[n] = IF n = 0 THEN account.filters ELSE Step(f[n - 1], n)
        BY <4>1, <2>1
      <4> QED BY <4>1, <4>2, <4>3
    <3> QED BY <3>1, <3>2
  <2>3. Good(g, m + 1)
    <3> DEFINE r == [n \in 0..(m + 1) |-> IF n = 0 THEN account.filters ELSE Step(g[n - 1], n)]
    <3>1. g = r
      BY <2>2
    <3> QED BY <3>1
  <2> QED BY <2>3
<1>3. \E f : Good(f, size)
  <2> SUFFICES ASSUME Bad # {} PROVE FALSE
    BY <1>a
  <2> HIDE DEF Good
  <2>1. PICK m \in Bad : \A j \in Bad : m <= j
    BY LeastNumber
  <2>2. m # 0 /\ m \in Nat
    BY <1>1
  <2>3. m - 1 \notin Bad /\ m - 1 \in Nat /\ (m - 1) + 1 = m
    BY <2>1, <2>2
  <2>4. PICK f : Good(f, m - 1)
    BY <2>3
  <2> QED BY <1>2, <2>1, <2>3, <2>4
<1> DEFINE after == CHOOSE f : Good(f, size)
<1>4. FiltersOf(config, target) = after[size]
  BY DEF FiltersOf
<1>5. Good(after, size)
  BY <1>3
<1>6. \A n \in 0..size : after[n] = IF n = 0 THEN account.filters ELSE Step(after[n - 1], n)
  <2> HIDE DEF after, Step, account, size
  <2> QED BY <1>5
<1> DEFINE Kept(n) ==
             /\ IsListed(after[n], key)
             /\ Entries(after[n], key) =
                  Entries(account.filters, key) \cup UNION {Entries(preset(i), key) : i \in 1..n}
           Lost == {n \in Nat : n \in 0..size /\ ~Kept(n)}
<1>b. IsListed(account.filters, key) /\ \A i \in 1..size : IsListed(preset(i), key)
  BY <1>a DEF Elements
<1> HIDE DEF after, Good, Bad, account, size, preset
<1>7. Kept(0)
  <2>1. after[0] = account.filters
    BY <1>a, <1>6
  <2> QED BY <2>1, <1>b
<1>8. ASSUME NEW n \in 1..size, Kept(n - 1) PROVE Kept(n)
  <2>1. after[n] = Appended(after[n - 1], preset(n))
    BY <1>6, <1>a
  <2>2. IsListed(after[n], key) /\ Entries(after[n], key) = Entries(after[n - 1], key) \cup Entries(preset(n), key)
    BY <1>8, <1>b, <2>1, EntriesAppended
  <2>3. 1..n = 1..(n - 1) \cup {n}
    BY <1>a
  <2> QED BY <1>8, <2>2, <2>3
<1>9. Kept(size)
  <2> SUFFICES ASSUME Lost # {} PROVE FALSE
    BY <1>a
  <2> HIDE DEF Kept
  <2>1. PICK n \in Lost : \A j \in Lost : n <= j
    BY LeastNumber
  <2>2. n # 0 /\ n \in 1..size
    BY <1>7, <1>a
  <2>3. n - 1 \notin Lost /\ n - 1 \in Nat /\ n - 1 \in 0..size
    BY <2>1, <2>2, <1>a
  <2> QED BY <1>8, <2>1, <2>2, <2>3
<1>10. /\ IsListed(FiltersOf(config, target), key)
       /\ Entries(FiltersOf(config, target), key) =
            Entries(account.filters, key) \cup UNION {Entries(preset(i), key) : i \in 1..size}
  BY <1>4, <1>9
<1> QED BY <1>10, <1>a DEF account, size, preset, Elements

\* The first filter that does not say no decides, so that an item is left in exactly if none
\* speaks, of those under its type or under all (filterWithoutGroups).
THEOREM FilterSaysNo ==
  ASSUME NEW filters, NEW type, NEW properties, IsListed(filters, Global), IsListed(filters, type)
  PROVE  /\ Filter(filters, type, properties) = "no" <=>
              \A f \in Entries(filters, Global) \cup Entries(filters, type) : ~Speaks(f, properties)
         /\ Filter(filters, type, properties) \in {"yes", "no", "error"}
<1> DEFINE list == Get(filters, type)
           answer == [i \in DOMAIN list |-> Answer(list[i], GetProperty(properties, list[i].property))]
           speaking == {i \in DOMAIN list : answer[i] # "no"}
           first == CHOOSE i \in speaking : \A j \in speaking : i <= j
<1>1. IsList(list) /\ Elements(list) = Entries(filters, Global) \cup Entries(filters, type)
  BY ListsAppended DEF Get, IsListed, Entries
<1>2. Filter(filters, type, properties) = IF speaking = {} THEN "no" ELSE answer[first]
  BY DEF Filter
<1> HIDE DEF list
<1>3. speaking # {} => first \in speaking
  <2> SUFFICES ASSUME speaking # {} PROVE first \in speaking
    OBVIOUS
  <2>1. speaking \in SUBSET Nat
    BY <1>1 DEF IsList
  <2> HIDE DEF speaking
  <2>2. \E i \in speaking : \A j \in speaking : i <= j
    BY <2>1, LeastNumber
  <2> QED BY <2>2
<1>4. speaking # {} => answer[first] # "no"
  BY <1>3
<1>5. Filter(filters, type, properties) = "no" <=> speaking = {}
  BY <1>2, <1>4
<1>6. speaking = {} <=> \A i \in DOMAIN list : ~Speaks(list[i], properties)
  BY DEF Speaks
<1>7. \A f, value : Answer(f, value) \in {"yes", "no", "error"}
  BY DEF Answer, Match
<1>8. speaking # {} => answer[first] \in {"yes", "no", "error"}
  BY <1>3, <1>7
<1> QED BY <1>1, <1>2, <1>5, <1>6, <1>8 DEF Elements
=============================================================================
