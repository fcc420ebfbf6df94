------------------------------ MODULE Selection ------------------------------
(***************************************************************************)
(* What a run is told to take and to keep: the include and exclude lists   *)
(* of the command line and the configuration, which choose the types to    *)
(* scan, and the filters, which keep single resources.  A configuration is *)
(* a record:                                                               *)
(*   accounts  compartment -> [filters, presets, types]                    *)
(*   presets   name -> [filters]                                           *)
(*   types     [targets, includes, excludes]                               *)
(* An account declared as null counts as not declared.                     *)
(***************************************************************************)
EXTENDS Naturals, Sequences

Elements(s) == {s[i] : i \in DOMAIN s}
IsList(s) == s \in Seq(Elements(s))

(* Type lists. *)

\* A pattern is what was written, and the type names it matches as a glob.
Matching(names) == [text |-> "a glob", matches |-> names]
Typo(text) == [text |-> text, matches |-> {}]

\* The name of a type matches that type: a name has no special characters.
NamesItself(list, types) == \A p \in list : p.text \in types => p.text \in p.matches

\* Collection.Expand: a pattern that matches nothing stays what it is.
Expand(list, base) ==
  UNION {IF p.matches \cap base = {} THEN {p.text} ELSE p.matches \cap base : p \in list}

IncludeOnly(types, list) == IF list = {} THEN types ELSE types \cap Expand(list, types)
Exclude(types, list) == types \ Expand(list, types)

GetIncludes(types) == types.targets \cup types.includes

\* There are three lists of either kind: the command line's, the configuration's, the account's.
ResolveResourceTypes(base, includes, excludes) ==
  LET included == IncludeOnly(IncludeOnly(IncludeOnly(base, includes[1]), includes[2]), includes[3])
  IN  Exclude(Exclude(Exclude(included, excludes[1]), excludes[2]), excludes[3])

TypesToScan(base, cmd) ==
  LET config  == cmd.config.types
      account == cmd.config.accounts[cmd.target].types
  IN  ResolveResourceTypes(base,
        <<cmd.includes, GetIncludes(config), GetIncludes(account)>>,
        <<cmd.excludes, config.excludes, account.excludes>>)

-----------------------------------------------------------------------------
(* Filters. *)

Global == "__global__"

\* A filter's type is "exact", "In", "NotIn", "pattern" or unknown.  A pattern (a glob, a
\* regular expression, a prefix, a date...) accepts the values in values, and cannot be
\* matched with those in breaks.
Match(f, value) ==
  CASE f.type = "exact"   -> IF value = f.value THEN "yes" ELSE "no"
    [] f.type = "In"      -> IF value \in f.values THEN "yes" ELSE "no"
    [] f.type = "NotIn"   -> IF value \notin f.values THEN "yes" ELSE "no"
    [] f.type = "pattern" -> IF value \in f.breaks THEN "error"
                             ELSE IF value \in f.values THEN "yes" ELSE "no"
    [] OTHER              -> "error"

Answer(f, value) ==
  LET match == Match(f, value)
  IN  CASE match = "error" -> "error"
        [] f.invert        -> IF match = "yes" THEN "no" ELSE "yes"
        [] OTHER           -> match

\* A filter needs a property or a value: one of the lists of In and NotIn is neither.
Valid(f) == f.property # "" \/ f.value # ""
Validate(filters) == \A key \in DOMAIN filters : \A i \in DOMAIN filters[key] : Valid(filters[key][i])

Under(filters, key) == IF key \in DOMAIN filters THEN filters[key] ELSE <<>>

Appended(filters, more) ==
  [key \in DOMAIN filters \cup DOMAIN more |-> Under(filters, key) \o Under(more, key)]

ConfigError(config, target) ==
  \/ target \notin DOMAIN config.accounts
  \/ \E name \in Elements(config.accounts[target].presets) : name \notin DOMAIN config.presets

\* Config.Filters: the account's own, and those of its presets one after the other.
FiltersOf(config, target) ==
  LET account == config.accounts[target]
      after[n \in 0..Len(account.presets)] ==
        IF n = 0 THEN account.filters
        ELSE Appended(after[n - 1], config.presets[account.presets[n]].filters)
  IN  after[Len(account.presets)]

\* Filters.Get: the filters for every type come first.
Get(filters, type) == Under(filters, Global) \o Under(filters, type)

\* Item.GetProperty: without a property's name it is the resource's own, and a property the
\* resource does not have is the empty string.
GetProperty(properties, name) == IF name \in DOMAIN properties THEN properties[name] ELSE ""

\* filterWithoutGroups: the first filter that matches keeps the resource, and one that cannot
\* be matched ends the scan, whichever comes first.
Filter(filters, type, properties) ==
  LET list     == Get(filters, type)
      answer   == [i \in DOMAIN list |-> Answer(list[i], GetProperty(properties, list[i].property))]
      speaking == {i \in DOMAIN list : answer[i] # "no"}
      first    == CHOOSE i \in speaking : \A j \in speaking : i <= j
  IN  IF speaking = {} THEN "no" ELSE answer[first]
=============================================================================
