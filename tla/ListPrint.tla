----------------------------- MODULE ListPrint -----------------------------
(***************************************************************************)
(* What B2M keeps of a shopping list that is printed: the order and the    *)
(* other names of its sections, entries that are only printed, and other   *)
(* names of single rows (app/services/shopping_print.py,                   *)
(* shopping_print_overrides.py), and the requests that change them         *)
(* (app/routers/shopping_print.py, v30_fixes.py).                          *)
(*                                                                         *)
(* Each of these is one document for all lists. A request reads the        *)
(* document, changes the part of its list and stores the whole again, and  *)
(* most ask Mealie for the list in between; requests run in threads and    *)
(* nothing keeps them apart. The rows of the list itself are Mealie's and  *)
(* change whenever they like.                                              *)
(*                                                                         *)
(* Of an entry only its id and its section are told apart, of a stored     *)
(* order the places of the keys, and of the names of a section that differ *)
(* in case none: where the code takes the first of them, any may be taken. *)
(***************************************************************************)
EXTENDS Integers, Sequences, FiniteSets, Functions

CONSTANTS
    Lists,
    Names,         \* names of sections
    KeyOf,         \* [Names -> keys]: a name without case
    Rows,          \* rows of Mealie's lists
    RowOf,         \* [Rows -> [list, food, category]]
    Orders,        \* sequences of names that a page sends
    Aliases,       \* sequences of [of, as] that a page sends
    MaxEntries,    \* most entries of a list (100)
    Slots,         \* requests that are handled at a time
    MaxRequests,   \* bound: requests
    MaxCrossing,   \* bound: those after the first so many come alone
    MaxChanges     \* bound: changes of the lists at Mealie

VARIABLES
    open,      \* rows of Mealie that are not checked
    doc,       \* the four documents, each per list
    parts,     \* the three settings, and which request stored each
    req,       \* per slot: the request
    count, changes,
    meant,     \* the entries and row names as the requests meant them (history)
    torn       \* the settings are what is left of a request that was refused
               \* halfway, or of several at a time (history)

vars == <<open, doc, parts, req, count, changes, meant, torn>>

Docs == {"orders", "aliases", "local", "overrides"}
Kept == {"local", "overrides"}
Parts == {"main", "margin", "marker"}
Ops == {"order", "content", "add", "remove", "override", "reset", "settings"}

Numbers == 1..MaxRequests
KeySet == {KeyOf[n] : n \in Names}
Foods == {RowOf[x].food : x \in Rows}

\* An override is stored for a row, by an old release for a Food.
Keys == Rows \cup Foods

\* The entries of a list by their ids.
Entries == UNION {[ids -> Names] : ids \in SUBSET Numbers}
Alias == [of : Names, as : Names]

\* A Food and a row are told apart by a prefix of the key.
ASSUME PrintAssumption ==
    /\ Lists # {} /\ IsFiniteSet(Names) /\ IsFiniteSet(Rows)
    /\ KeyOf \in [Names -> Int]
    /\ \A x \in Rows : RowOf[x].list \in Lists /\ RowOf[x].category \in Names
    /\ Rows \cap Foods = {}
    /\ Orders \subseteq Seq(Names) /\ Aliases \subseteq Seq(Alias)
    /\ MaxEntries \in Nat /\ MaxRequests \in Nat /\ MaxChanges \in Nat

\* save_category_aliases: a name that is the same but for case is none.
Renaming(aka) == Restrict(aka, {i \in DOMAIN aka : KeyOf[aka[i].as] # KeyOf[aka[i].of]})

\* The places of keys: no two share one.
Placing(c) ==
    /\ DOMAIN c \subseteq KeySet /\ c \in [DOMAIN c -> Nat \ {0}]
    /\ \A j, k \in DOMAIN c : c[j] = c[k] => j = k

\* What is left of aliases that a page has sent.
LeftOf(c) ==
    \E aka \in Aliases \cup {<<>>} :
        \E places \in SUBSET DOMAIN Renaming(aka) : c = Restrict(aka, places)

Contents(d, c) ==
    CASE d = "orders" -> Placing(c)
      [] d = "aliases" -> LeftOf(c)
      [] d = "local" -> c \in Entries /\ Cardinality(DOMAIN c) <= MaxEntries
      [] d = "overrides" -> c \subseteq Keys

Empty(d) == IF d = "overrides" THEN {} ELSE <<>>

\* What is meant by a part of a document: the ids, or the keys.
Holding(d, c) == IF d = "local" THEN DOMAIN c ELSE c

-----------------------------------------------------------------------------
(* Sections                                                                *)

OpenOn(l) == {x \in open : RowOf[x].list = l}

Official(l) == {RowOf[x].category : x \in OpenOn(l)}

OfKey(ns, k) == {n \in ns : KeyOf[n] = k}

Sources(aka) == {aka[i].of : i \in DOMAIN aka}

Pick(first, second, default) ==
    IF first # {} THEN CHOOSE n \in first : TRUE
    ELSE IF second # {} THEN CHOOSE n \in second : TRUE
    ELSE default

Canonical(l, aka, n) ==
    Pick(OfKey(Official(l), KeyOf[n]), OfKey(Sources(aka), KeyOf[n]), n)

Last(places) == CHOOSE i \in places : \A j \in places : j <= i

\* The aliases with that text; the last one counts.
Called(aka, k) == {i \in DOMAIN aka : KeyOf[aka[i].as] = k}

\* The section of an entry as far as Mealie and the aliases tell.
Resolved(l, aka, n) ==
    LET called == Called(aka, KeyOf[n])
    IN Canonical(l, aka, IF called = {} THEN n ELSE aka[Last(called)].of)

Normalized(l, aka, es) == [i \in DOMAIN es |-> Resolved(l, aka, es[i])]

\* The sections of shopping_list_payload, and those after
\* _normalize_payload_categories.
Named(l, es) == Official(l) \cup {es[i] : i \in DOMAIN es}

Sections(l, aka, es) == Named(l, Normalized(l, aka, es))

\* What an alias stands for when entries are filed: its source, unless an
\* earlier alias gives that name to another.
StandsFor(aka) ==
    LET to[i \in DOMAIN aka] ==
            LET earlier == {j \in Called(aka, KeyOf[aka[i].of]) : j < i}
            IN IF earlier = {} THEN aka[i].of ELSE to[Last(earlier)]
    IN to

\* _canonicalize_local_entries: one name, before it is stored; an alias goes
\* before a section of that name.
Filed(l, aka, es, n) ==
    LET called == Called(aka, KeyOf[n])
        source == IF called = {} THEN n ELSE StandsFor(aka)[Last(called)]
    IN Pick(OfKey(Sections(l, aka, es), KeyOf[source]),
            OfKey(Sources(aka), KeyOf[source]), source)

\* Those with a place go before the others, which are sorted.
Before(order, j, k) ==
    IF k \in DOMAIN order THEN j \in DOMAIN order /\ order[j] < order[k]
                          ELSE j \in DOMAIN order \/ j < k

\* Mutant: the order that was stored is forgotten.
OrderedByName(keys, order) ==
    [k \in keys |-> 1 + Cardinality({j \in keys : j < k})]

\* ordered_categories
Ordered(keys, order) ==
    [k \in keys |-> 1 + Cardinality({j \in keys : Before(order, j, k)})]

\* save_category_order: where each key is for the first time.
Places(ns) == [k \in {KeyOf[ns[i]] : i \in DOMAIN ns} |->
                  CHOOSE i \in DOMAIN ns : /\ KeyOf[ns[i]] = k
                      /\ \A j \in 1..(i - 1) : KeyOf[ns[j]] # k]

-----------------------------------------------------------------------------
(* Overrides                                                               *)

\* apply_item_overrides: the key of the override of a row, or none.
OverrideOf(keys, shown, x) ==
    IF x \in keys THEN {x}
    ELSE IF Cardinality({y \in shown : RowOf[y].food = RowOf[x].food}) = 1
    THEN {RowOf[x].food} \cap keys
    ELSE {}

-----------------------------------------------------------------------------
(* Requests                                                                *)

\* Read a document, store it, ask Mealie for the list before the entries are
\* stored, or for the answer.
Get(d) == [do |-> "get", doc |-> d]
Put(d) == [do |-> "put", doc |-> d]
Do(what) == [do |-> what, doc |-> "local"]

\* The end of requests that change the entries (_saved_local_response): what
\* is left of the order and the aliases is stored.
Response == <<Do("show"), Get("orders"), Put("orders"), Get("aliases"),
              Put("aliases"), Do("answer")>>

OrderSteps == <<Get("orders"), Put("orders"), Get("aliases"), Put("aliases")>>
ContentSteps == <<Do("file"), Get("local"), Put("local")>> \o Response
AddSteps == <<Do("look"), Do("file"), Get("local"), Put("local")>> \o Response
RemoveSteps == <<Do("look"), Get("local"), Put("local")>> \o Response
OverrideSteps == <<Get("overrides"), Put("overrides"), Do("answer")>>
ResetSteps == <<Get("orders"), Put("orders"), Get("aliases"), Put("aliases"),
                Get("local"), Put("local"), Get("overrides"), Put("overrides"),
                Do("answer")>>
SettingsSteps == <<Put("main"), Put("margin"), Put("marker")>>

\* What each handler does, in order.
Program(op) ==
    CASE op = "order" -> OrderSteps
      [] op = "content" -> ContentSteps
      [] op = "add" -> AddSteps
      [] op = "remove" -> RemoveSteps
      [] op = "override" -> OverrideSteps
      [] op = "reset" -> ResetSteps
      [] op = "settings" -> SettingsSteps

SomeList == CHOOSE l \in Lists : TRUE

\* at: the step that is next, none when the slot is free.
Free == [op |-> "settings", list |-> SomeList, at |-> 0, number |-> 0,
         arg |-> <<>>, read |-> <<>>, entries |-> <<>>, order |-> <<>>,
         sections |-> {}, named |-> {}, holds |-> {}, stale |-> {}]

Busy(r) == req[r].at # 0

NextStep(m) == Program(m.op)[m.at]

Does(r, what) == Busy(r) /\ NextStep(req[r]).do = what

Stage(r) == NextStep(req[r]).doc

TypeOK ==
    /\ open \subseteq Rows
    /\ \A d \in Docs, l \in Lists : Contents(d, doc[d][l])
    /\ parts \in [Parts -> 0..MaxRequests]
    /\ \A r \in Slots :
           /\ req[r].op \in Ops /\ req[r].list \in Lists
           /\ req[r].at \in 0..Len(Program(req[r].op))
           /\ req[r].number \in 0..count
           /\ req[r].holds \subseteq Docs \cup Parts
           /\ req[r].stale \subseteq req[r].holds
    /\ count \in 0..MaxRequests /\ changes \in 0..MaxChanges
    /\ torn \in BOOLEAN
    /\ \A l \in Lists : /\ meant["local"][l] \subseteq Numbers
                        /\ meant["overrides"][l] \subseteq Keys

Ends(r) == req' = [req EXCEPT ![r] = Free]

Onward(m) == IF m.at = Len(Program(m.op)) THEN Free ELSE [m EXCEPT !.at = @ + 1]

\* The request goes on as m, and is over after its last step.
Goes(r, m) == req' = [req EXCEPT ![r] = Onward(m)]

\* What each request may bring along. A page sends the entries it shows, or a
\* new one instead.
Args(op, l, number) ==
    CASE op = "order" -> Orders \X Aliases
      [] op = "content" -> {doc["local"][l]} \cup [{number} -> Names]
      [] op = "add" -> Names
      [] op = "remove" -> 1..number
      [] op = "override" -> Keys \X BOOLEAN
      [] op = "reset" -> {<<>>}
      [] op = "settings" -> SUBSET Parts    \* those that are valid

Arrives(r, op, l) ==
    /\ ~Busy(r) /\ count < MaxRequests
    /\ count >= MaxCrossing => \A q \in Slots : ~Busy(q)
    /\ count' = count + 1
    /\ \E arg \in Args(op, l, count + 1) :
           /\ op = "override" =>
                  IF arg[1] \in Rows THEN RowOf[arg[1]].list = l ELSE ~arg[2]
           /\ req' = [req EXCEPT ![r] =
                  [Free EXCEPT !.op = op, !.list = l, !.at = 1,
                               !.number = count + 1, !.arg = arg,
                               !.entries = IF op = "content" THEN arg ELSE <<>>]]
    /\ UNCHANGED <<open, doc, parts, changes, meant, torn>>

Still == UNCHANGED <<open, doc, parts, count, changes, meant, torn>>

\* The entries the list has now, and what is to become of them.
Look(r) ==
    LET m == req[r]
        now == doc["local"][m.list]
        ids == DOMAIN now
        With(es) == [m EXCEPT !.entries = es, !.holds = @ \cup {"local"}]
    IN
    /\ Does(r, "look")
    /\ IF m.op = "add"
       THEN Goes(r, With([i \in ids \cup {m.number} |->
                             IF i = m.number THEN m.arg ELSE now[i]]))
       ELSE IF m.arg \notin ids THEN Ends(r)   \* 404
       ELSE Goes(r, With(Restrict(now, ids \ {m.arg})))
    /\ Still

\* Mealie is asked, and the entries get the names of the sections.
File(r) ==
    LET m == req[r]
        es == m.entries
        FiledNow(n) == Filed(m.list, doc["aliases"][m.list],
                             doc["local"][m.list], n)
    IN
    /\ Does(r, "file")
    /\ \/ Ends(r)                                   \* 502, or 400
       \/ /\ Cardinality(DOMAIN es) <= MaxEntries
          /\ Goes(r, [m EXCEPT !.entries = [i \in DOMAIN es |-> FiledNow(es[i])]])
    /\ Still

\* The whole document, as it is now.
Reads(r) ==
    LET m == req[r]
        d == Stage(r)
    IN
    /\ Does(r, "get")
    /\ Goes(r, [m EXCEPT !.read = doc[d], !.holds = @ \cup {d}])
    /\ Still

KeysOf(ns) == {KeyOf[n] : n \in ns}

\* The sections for _prune_category_state, in order.
Show(r) ==
    LET m == req[r]
        es == doc["local"][m.list]
        named == KeysOf(Named(m.list, es))
        sections == KeysOf(Sections(m.list, doc["aliases"][m.list], es))
    IN
    /\ Does(r, "show")
    /\ \/ Ends(r)                                   \* 502
       \/ Goes(r, [m EXCEPT
              !.holds = @ \cup {"orders"},
              !.sections = sections,
              !.named = named,
              !.order = Ordered(sections, Ordered(named, doc["orders"][m.list]))])
    /\ Still

\* Mealie is asked for the answer: 502 when it fails.
Answers(r) == Does(r, "answer") /\ Ends(r) /\ Still

\* What the request stores in each document for its list.
NewOrder(m) ==
    IF m.op = "order" THEN Places(m.arg[1])
    ELSE IF m.op = "reset" THEN <<>> ELSE m.order

NewAliases(m) ==
    LET old == m.read[m.list]
    IN IF m.op = "order" THEN Renaming(m.arg[2])
       ELSE IF m.op = "reset" THEN <<>>
       ELSE Restrict(old, {i \in DOMAIN old : KeyOf[old[i].of] \in m.sections})

NewOverrides(m) ==
    IF m.op = "reset" THEN {}
    ELSE IF m.arg[2] THEN m.read[m.list] \cup {m.arg[1]}
    ELSE m.read[m.list] \ {m.arg[1]}

New(m, d) ==
    CASE d = "orders" -> NewOrder(m)
      [] d = "aliases" -> NewAliases(m)
      [] d = "local" -> m.entries
      [] d = "overrides" -> NewOverrides(m)

\* The entries or keys the request leaves a list with that has the old ones,
\* whatever it read.
Meant(m, old) ==
    CASE m.op = "content" -> DOMAIN m.arg
      [] m.op = "add" -> old \cup {m.number}
      [] m.op = "remove" -> old \ {m.arg}
      [] m.op = "reset" -> {}
      [] m.op = "override" -> IF m.arg[2] THEN old \cup {m.arg[1]}
                                          ELSE old \ {m.arg[1]}

\* The request after it has stored d, without what it has no more use for.
AfterPut(m, d) ==
    [m EXCEPT !.holds = @ \ {d}, !.stale = @ \ {d}, !.read = <<>>,
              !.entries = IF d = "local" THEN <<>> ELSE @,
              !.order = IF d = "orders" THEN <<>> ELSE @,
              !.named = IF d = "orders" THEN {} ELSE @,
              !.sections = IF d = "aliases" THEN {} ELSE @,
              !.arg = IF d \in Kept THEN <<>> ELSE @]

\* Those that have read what is stored now hold an old copy.
Outdates(r, d) ==
    req' = [q \in Slots |->
        IF q = r THEN Onward(AfterPut(req[r], d))
        ELSE IF d \in req[q].holds
             THEN [req[q] EXCEPT !.stale = @ \cup {d}] ELSE req[q]]

\* Mutant: only the part of the list is stored.
WithPartOnly(all, l, d, new) == [[x \in Lists |-> Empty(d)] EXCEPT ![l] = new]

WithPart(all, l, d, new) == [all EXCEPT ![l] = new]

\* _save_state_json
Stores(r) ==
    LET m == req[r]
        d == Stage(r)
        new == WithPart(m.read, m.list, d, New(m, d))
    IN
    /\ Does(r, "put") /\ d \in Docs
    /\ doc' = [doc EXCEPT ![d] = new]
    /\ Outdates(r, d)
    /\ meant' =
           IF d \notin Kept THEN meant
           ELSE IF d \in m.stale
           THEN [meant EXCEPT ![d] = [l \in Lists |-> Holding(d, new[l])]]
           ELSE [meant EXCEPT ![d][m.list] = Meant(m, @)]
    /\ UNCHANGED <<open, parts, count, changes, torn>>

\* Another request's settings are half stored.
Crosses(r, part) ==
    req' = [q \in Slots |->
        IF q = r THEN Onward([req[r] EXCEPT !.holds = @ \cup {part}])
        ELSE IF req[q].holds \cap Parts # {}
             THEN [req[q] EXCEPT !.stale = @ \cup (req[q].holds \cap Parts)] ELSE req[q]]

Stored(m, part) == part \in m.arg /\ parts' = [parts EXCEPT ![part] = m.number]

\* shopping_print_save_settings: one transaction each, and 400 at the first
\* that is not valid.
StoresPart(r) ==
    LET m == req[r]
        part == Stage(r)
    IN
    /\ Does(r, "put") /\ part \in Parts
    /\ \/ /\ Stored(m, part)
          /\ Crosses(r, part)
          /\ torn' = IF part = "marker" THEN m.stale # {} ELSE torn
       \/ /\ part \notin m.arg
          /\ Ends(r) /\ UNCHANGED parts
          /\ torn' = (torn \/ m.holds # {})
    /\ UNCHANGED <<open, doc, count, changes, meant>>

\* Two requests that store a document or a setting for the first time add the
\* same key of system_state: the later one fails.
AddsTwice(r) ==
    LET m == req[r]
        d == Stage(r)
    IN
    /\ Does(r, "put")
    /\ IF d \in Docs
       THEN d \in m.stale /\ m.read = [l \in Lists |-> Empty(d)]
       ELSE \E q \in Slots \ {r} : Busy(q) /\ parts[d] = req[q].number
    /\ Ends(r)
    /\ torn' = (torn \/ m.holds \cap Parts # {})
    /\ UNCHANGED <<open, doc, parts, count, changes, meant>>

\* A row is checked off or brought back at Mealie.
MealieChanges ==
    /\ changes < MaxChanges
    /\ changes' = changes + 1
    /\ \E x \in Rows : open' = IF x \in open THEN open \ {x} ELSE open \cup {x}
    /\ UNCHANGED <<doc, parts, req, count, meant, torn>>

FoodsOf(l) == {RowOf[x].food : x \in {y \in Rows : RowOf[y].list = l}}

\* What an old release has left.
OldOverrides == {o \in [Lists -> SUBSET Foods] : \A l \in Lists : o[l] \subseteq FoodsOf(l)}

Init ==
    /\ open = Rows
    /\ \E o \in OldOverrides :
           /\ doc = [d \in Docs |-> IF d = "overrides" THEN o ELSE [l \in Lists |-> <<>>]]
           /\ meant = [d \in Kept |-> IF d = "overrides" THEN o ELSE [l \in Lists |-> {}]]
    /\ parts = [p \in Parts |-> 0]
    /\ req = [r \in Slots |-> Free]
    /\ count \in 0..MaxRequests      \* what is left of the bounds
    /\ changes \in 0..MaxChanges
    /\ torn = FALSE

Next ==
    \/ \E r \in Slots :
           \/ \E op \in Ops, l \in Lists : Arrives(r, op, l)
           \/ Look(r) \/ File(r) \/ Reads(r) \/ Show(r) \/ Answers(r)
           \/ Stores(r) \/ StoresPart(r) \/ AddsTwice(r)
    \/ MealieChanges

Spec == Init /\ [][Next]_vars

-----------------------------------------------------------------------------
\* Every list has the print-only entries and row names that its requests
\* gave it, those of other lists being none of their business, except what a
\* request undoes that stores a copy another one has outdated.
StoredAsMeant ==
    \A d \in Kept, l \in Lists : Holding(d, doc[d][l]) = meant[d][l]

\* As long as no alias is the name of a source, a name typed for an entry is
\* stored as the section in which the next page shows the entry, and entries
\* are not moved when they are stored again.
FiledWhereShown ==
    (\A r \in Slots : ~Busy(r)) => \A l \in Lists :
        LET aka == doc["aliases"][l]
            es == doc["local"][l]
            apart == \A i, j \in DOMAIN aka : KeyOf[aka[i].as] # KeyOf[aka[j].of]
        IN apart =>
              /\ \A n \in Names :
                     LET stored == Filed(l, aka, es, n)
                     IN KeyOf[Resolved(l, aka, stored)] = KeyOf[stored]
              /\ \A i \in DOMAIN es :
                     KeyOf[Filed(l, aka, es, es[i])] = KeyOf[Normalized(l, aka, es)[i]]

\* "Food-level keys therefore cause one override to affect several rows"
\* (shopping_print_overrides.py:52): no override goes to two rows.
OneRowPerOverride ==
    \A l \in Lists, k \in Keys :
        Cardinality({x \in OpenOn(l) : OverrideOf(doc["overrides"][l], OpenOn(l), x)
                                           = {k}}) <= 1

\* What a request that saves entries does to the order of the sections that a
\* row or an entry has the name of.
KeepsOrder(r) ==
    LET m == req[r] IN
    /\ Does(r, "put") /\ Stage(r) = "orders"
    /\ m.op \notin {"order", "reset"} /\ "orders" \notin m.stale
    /\ req'[r].at # m.at
    => LET old == doc["orders"][m.list]
           new == doc'["orders"][m.list]
       IN \A j, k \in DOMAIN old \cap DOMAIN new \cap m.named :
              old[j] < old[k] => new[j] < new[k]

\* Sections the user put in order keep that order when print-only entries are
\* saved, whatever has become of the rows at Mealie, as long as a row or an
\* entry still has the name of the section.
OrderKept == [][\A r \in Slots : KeepsOrder(r)]_vars

\* The settings that are stored, which the page shows as one form, come from
\* one request, unless a request was refused halfway or two overlapped.
SettingsOfOneRequest ==
    ~torn /\ (\A r \in Slots : ~Busy(r) \/ req[r].op # "settings")
        => \A p, q \in Parts : parts[p] = parts[q]

\* The list a page prints is the one the user edited (shopping_print_save_local_content,
\* shopping_print_save_item_override, shopping_print_save_settings).
ListsCorrect ==
    /\ TypeOK /\ StoredAsMeant /\ FiledWhereShown /\ OneRowPerOverride
    /\ SettingsOfOneRequest

-----------------------------------------------------------------------------
(* What the sources say and the code does not keep (README, Divergences).  *)

\* "supports_atomic_entry_routes" (tests/test_frontend_v29.py:60): an entry is
\* gone only by a request that removes it, replaces the entries of its list
\* or resets the list.
EntriesAtomic ==
    [][\A l \in Lists :
           \A id \in DOMAIN doc["local"][l] \ DOMAIN doc'["local"][l] :
               \E r \in Slots :
                   /\ req'[r] # req[r] /\ req[r].list = l
                   /\ \/ req[r].op \in {"content", "reset"}
                      \/ req[r].op = "remove" /\ req[r].arg = id]_vars
=============================================================================
