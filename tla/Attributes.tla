------------------------------ MODULE Attributes ------------------------------
(***************************************************************************)
(* What #[derive(Queues)] and #[derive(Job)] make of the attributes on an  *)
(* item (macros/src/attrs.rs, duration.rs, queues.rs, job.rs).             *)
(*                                                                         *)
(* The lists of an attribute are sequences of items [key, lit]; several    *)
(* attributes on one place are one longer sequence, and a bare #[queue]    *)
(* adds nothing.  A literal carries its kind and the one field that kind   *)
(* has.  Where the code returns a syn::Result or an Option, an operator    *)
(* here returns the set of what it accepted: one element, or none.         *)
(***************************************************************************)
EXTENDS Retry, Sequences, FiniteSets

CONSTANTS
  U64_MAX,            \* of a duration in milliseconds
  U32_MAX,            \* of max_attempts
  MAX_MESSAGE_TTL_MS  \* u32::MAX milliseconds

ASSUME AttributesAssumption ==
  /\ U64_MAX \in Nat /\ U32_MAX \in Nat /\ MAX_MESSAGE_TTL_MS \in Nat
  /\ 0 < U32_MAX /\ MAX_MESSAGE_TTL_MS <= U64_MAX

U16_MAX == 65535
U8_MAX  == 255

-----------------------------------------------------------------------------
(***************************************************************************)
(* Literals.                                                               *)
(***************************************************************************)
Item(key, lit) == [key |-> key, lit |-> lit]
IntLit(n)      == [kind |-> "int", n |-> n]
Bool(b)        == [kind |-> "bool", b |-> b]
Float(fr)      == [kind |-> "float", factor |-> fr]
Str(text)      == [kind |-> "str", text |-> text]
Path(path)     == [kind |-> "path", path |-> path]
List(items)    == [kind |-> "list", items |-> items]

\* A string that is read as a duration: its leading digits (NoDigits when there are
\* none) and what follows them, trimmed (NoUnit when nothing does).
NoDigits == -1
NoUnit   == "none"
Timed(digits, unit) == [kind |-> "str", digits |-> digits, unit |-> unit]

\* A string that is read as a keyword.
Word(word) == [kind |-> "str", word |-> word]

\* What may be written; lists of keys are nested once.
Literals ==
  [kind : {"int"}, n : Int] \cup [kind : {"bool"}, b : BOOLEAN]
    \cup [kind : {"float"}, factor : Int \X Int]
    \cup [kind : {"str"}, text : Seq(STRING)] \cup [kind : {"str"}, word : STRING]
    \cup [kind : {"str"}, digits : Nat \cup {NoDigits}, unit : STRING]
    \cup [kind : {"path"}, path : Seq(STRING)]

PlainItems == [key : STRING, lit : Literals]
Items == [key : STRING, lit : Literals \cup [kind : {"list"}, items : Seq(PlainItems)]]

lit_str(lit)  == IF "text" \in DOMAIN lit THEN {lit.text} ELSE {}
lit_word(lit) == IF "word" \in DOMAIN lit THEN {lit.word} ELSE {}
lit_bool(lit) == IF lit.kind = "bool" THEN {lit.b} ELSE {}
lit_int(lit, max) ==
  IF lit.kind = "int" /\ lit.n >= 0 /\ lit.n <= max THEN {lit.n} ELSE {}

\* An integer is taken for a float; the sign is an operator in front of either.
lit_f64(lit) == IF lit.kind = "float" THEN {lit.factor}
                ELSE IF lit.kind = "int" THEN {<<lit.n, 1>>} ELSE {}

\* Nothing but whitespace, the empty string included.
Space == " "
Blank(text) == \A i \in DOMAIN text : text[i] = Space

reject_blank(lit) == {text \in lit_str(lit) : ~Blank(text)}

MillisPer(unit) ==
  CASE unit = "ms" -> 1
    [] unit \in {NoUnit, "s"} -> 1000
    [] unit = "m" -> 60000
    [] unit = "h" -> 3600000
    [] unit = "d" -> 86400000

Units == {NoUnit, "ms", "s", "m", "h", "d"}

\* checked_mul refuses what does not fit.
parse_millis(lit) ==
  IF \/ lit.digits = NoDigits
     \/ lit.unit \notin Units
     \/ lit.digits > U64_MAX \div MillisPer(lit.unit)
  THEN {} ELSE {lit.digits * MillisPer(lit.unit)}

\* A zero delay or TTL is refused.
parse_lit(lit) == IF "digits" \in DOMAIN lit THEN parse_millis(lit) \ {0} ELSE {}

-----------------------------------------------------------------------------
(***************************************************************************)
(* Lists of keys.  values[n] is what the grammar accepts for items[n];     *)
(* slots map the keys seen so far to their values.                         *)
(***************************************************************************)
NoSlots == [key \in {} |-> {}]

\* HashMap::insert, and a field of slots that is set.
Insert(map, key, value) ==
  [k \in DOMAIN map \cup {key} |-> IF k = key THEN value ELSE map[k]]

\* Faulty variant: the last one of several wins.
SetAgain(slots, key, value) == {Insert(slots, key, value)}

\* Record a key exactly once.
set_once(slots, key, value) ==
  IF key \in DOMAIN slots THEN {} ELSE {Insert(slots, key, value)}

ParseItems(items, values) ==
  LET parsed[n \in 0..Len(items)] ==
        IF n = 0 THEN {NoSlots}
        ELSE UNION {UNION {set_once(slots, items[n].key, v) : v \in values[n]} :
                      slots \in parsed[n - 1]}
  IN  parsed[Len(items)]

Written(slots, key) == key \in DOMAIN slots
Slot(slots, key, default) == IF Written(slots, key) THEN slots[key] ELSE default

-----------------------------------------------------------------------------
(***************************************************************************)
(* retry(...)                                                              *)
(***************************************************************************)
RetryValue(item) ==
  CASE item.key = "max_attempts"             -> lit_int(item.lit, U32_MAX)
    [] item.key = "backoff"                  -> lit_word(item.lit)
    [] item.key \in {"delay", "base", "max"} -> parse_lit(item.lit)
    [] item.key = "factor"                   -> lit_f64(item.lit)
    [] item.key = "jitter"                   -> lit_bool(item.lit)
    [] OTHER                                 -> {}

\* Faulty variant: only an exponential backoff rejects what it cannot honour.
ForeignIgnored(kind) == IF kind = "exponential" THEN {"delay"} ELSE {}

\* The knobs of the kinds a backoff is not.
Foreign(kind) ==
  CASE kind = "none"        -> {"delay", "base", "factor", "max", "jitter"}
    [] kind = "fixed"       -> {"base", "factor", "max", "jitter"}
    [] kind = "exponential" -> {"delay"}

Backoffs(raw, kind) ==
  LET factor == Slot(raw, "factor", <<2, 1>>)
      base   == Slot(raw, "base", 1000)
      max    == Slot(raw, "max", 300000)
  IN  CASE kind = "none"  -> {NoBackoff}
        [] kind = "fixed" -> IF Written(raw, "delay") THEN {Fixed(raw["delay"])} ELSE {}
        [] kind = "exponential" ->
             IF Usable(factor) /\ base <= max
             THEN {exponential_with(base, factor, max, Slot(raw, "jitter", TRUE))} ELSE {}

\* RetryRaw::finish: the policy, with every default applied.
finish(raw) ==
  LET attempts == Slot(raw, "max_attempts", 3)
      kind     == Slot(raw, "backoff", "exponential")
  IN  IF \/ attempts = 0
         \/ kind \notin {"none", "fixed", "exponential"}
         \/ \E key \in Foreign(kind) : Written(raw, key)
      THEN {} ELSE {RetryPolicy(attempts, b) : b \in Backoffs(raw, kind)}

RetryValues(items) == [i \in DOMAIN items |-> RetryValue(items[i])]

\* parse_nested_meta: only a list has keys inside.
parse_retry(lit) ==
  IF lit.kind # "list" THEN {}
  ELSE UNION {finish(raw) : raw \in ParseItems(lit.items, RetryValues(lit.items))}

-----------------------------------------------------------------------------
(***************************************************************************)
(* Where the generated code finds the core crate.                          *)
(***************************************************************************)
Relative == {"crate", "self", "super"}

parse_crate_path(path) ==
  IF path[1] \in Relative \cup {"::"} THEN path ELSE <<"::">> \o path

\* What the manifest says of a package: Itself, Absent, NoManifest, or the name it
\* is linked under.
choose_crate_path(facade, core) ==
  LET Named(lookup) == lookup \notin {"Itself", "Absent", "NoManifest"}
  IN  CASE facade = "Itself" -> {<<"::", "queuey", "__core">>}
        [] facade # "Itself" /\ core = "Itself" -> {<<"crate">>}
        [] facade # "Itself" /\ Named(core) -> {<<"::", core>>}
        [] Named(facade) /\ core \in {"Absent", "NoManifest"} -> {<<"::", facade, "__core">>}
        [] OTHER -> IF "NoManifest" \in {facade, core} THEN {<<"::", "queuey_core">>} ELSE {}

\* An explicit crate = "..." never consults the manifest.
core_path(slots, facade, core) ==
  IF Written(slots, "crate") THEN {slots["crate"]} ELSE choose_crate_path(facade, core)

-----------------------------------------------------------------------------
(***************************************************************************)
(* #[derive(Queues)]                                                       *)
(***************************************************************************)

Separator == "."

\* A prefix must not end in the separator that qualify adds.
ContainerValue(item) ==
  CASE item.key = "prefix" -> {text \in reject_blank(item.lit) : text[Len(text)] # Separator}
    [] item.key = "crate"  -> {parse_crate_path(p) : p \in lit_str(item.lit)}
    [] OTHER               -> {}

ContainerValues(items) == [i \in DOMAIN items |-> ContainerValue(items[i])]

QueueValue(item) ==
  CASE item.key = "name"         -> reject_blank(item.lit)
    [] item.key = "prefetch"     -> lit_int(item.lit, U16_MAX) \ {0}
    [] item.key = "durable"      -> lit_bool(item.lit)
    [] item.key = "message_ttl"  -> {ms \in parse_lit(item.lit) : ms <= MAX_MESSAGE_TTL_MS}
    [] item.key = "max_priority" -> lit_int(item.lit, U8_MAX)
    [] item.key = "retry"        -> parse_retry(item.lit)
    [] OTHER                     -> {}

qualify(container, name) ==
  IF Written(container, "prefix") THEN container["prefix"] \o <<Separator>> \o name ELSE name

\* Characters are one-letter strings; Lower maps the capitals among them.
Underscore == "_"
Lower == [A |-> "a", H |-> "h", M |-> "m", T |-> "t"]
IsUpper(c) == c \in DOMAIN Lower
IsDigit(c) == c \in {"0", "1", "2"}
IsLower(c) == c # Underscore /\ ~IsUpper(c) /\ ~IsDigit(c)

\* A capital starts a word after a small letter or a digit, and as the last capital
\* of a run when a small letter follows; underscores separate, but never lead or
\* come twice.
snake_case(ident) ==
  LET Boundary(i) ==
        /\ i > 1
        /\ ident[i - 1] # Underscore
        /\ \/ IsLower(ident[i - 1]) \/ IsDigit(ident[i - 1])
           \/ i < Len(ident) /\ IsLower(ident[i + 1])
      Separated(out) == out = <<>> \/ out[Len(out)] = Underscore
      Step(out, i) ==
        IF ident[i] = Underscore   THEN IF Separated(out) THEN out ELSE Append(out, Underscore)
        ELSE IF ~IsUpper(ident[i]) THEN Append(out, ident[i])
        ELSE Append(IF Boundary(i) /\ out[Len(out)] # Underscore THEN Append(out, Underscore) ELSE out,
                    Lower[ident[i]])
      name[n \in 0..Len(ident)] == IF n = 0 THEN <<>> ELSE Step(name[n - 1], n)
  IN  name[Len(ident)]

QueueValues(items) == [i \in DOMAIN items |-> QueueValue(items[i])]

\* resolve_variant: the slots and the qualified name of one variant.
resolve_variant(variant, container) ==
  IF variant.fields \/ variant.misplaced THEN {}
  ELSE {[slots |-> slots,
         name  |-> qualify(container, Slot(slots, "name", snake_case(variant.ident)))] :
          slots \in {s \in ParseItems(variant.items, QueueValues(variant.items)) :
                       Slot(s, "name", snake_case(variant.ident)) # <<>>}}

-----------------------------------------------------------------------------
(***************************************************************************)
(* QueueConfig and its builders (core/src/queue.rs); 0 for None.           *)
(***************************************************************************)
NoPriority == 0
NoTtl      == 0

NewQueueConfig(name) ==
  [name |-> name, prefetch |-> 16, retry |-> NoRetries, durable |-> TRUE,
   message_ttl |-> NoTtl, max_priority |-> 10]

\* The builder calls of the generated config(): one per key that was written.
config_expr(queue) ==
  LET new == NewQueueConfig(queue.name)
  IN  [field \in DOMAIN new |->
         IF field = "name" THEN new.name ELSE Slot(queue.slots, field, new[field])]

\* One resolved queue for each variant, in declaration order.
ResolveAll(variants, container) ==
  LET resolved == [i \in DOMAIN variants |-> resolve_variant(variants[i], container)]
  IN  {queues \in [DOMAIN variants -> UNION {resolved[i] : i \in DOMAIN variants}] :
         \A i \in DOMAIN variants : queues[i] \in resolved[i]}

\* Faulty variant: names that were written are compared, derived ones are not.
WrittenDuplicates(queues) ==
  \E i, j \in DOMAIN queues :
    /\ i # j /\ queues[i].name = queues[j].name
    /\ Written(queues[i].slots, "name") /\ Written(queues[j].slots, "name")

\* Two variants with one name would share a broker queue.
Duplicates(queues) ==
  \E i, j \in DOMAIN queues : i # j /\ queues[i].name = queues[j].name

\* The derived QueueSet: the configs in declaration order, and the crate path.
DeriveQueues(input, facade, core) ==
  IF input.item # "enum" \/ input.generics \/ input.variants = <<>> \/ input.misplaced
  THEN {}
  ELSE UNION {{[configs |-> [i \in DOMAIN queues |-> config_expr(queues[i])], core |-> path] :
                 queues \in {qs \in ResolveAll(input.variants, container) : ~Duplicates(qs)},
                 path \in core_path(container, facade, core)} :
                container \in ParseItems(input.items, ContainerValues(input.items))}

-----------------------------------------------------------------------------
(***************************************************************************)
(* #[derive(Job)]                                                          *)
(***************************************************************************)
JobValue(item) ==
  CASE item.key = "queue" -> IF item.lit.kind = "path" THEN {item.lit.path} ELSE {}
    [] item.key = "name"  -> reject_blank(item.lit)
    [] item.key = "retry" -> parse_retry(item.lit)
    [] item.key = "crate" -> {parse_crate_path(p) : p \in lit_str(item.lit)}
    [] OTHER              -> {}

JobValues(items) == [i \in DOMAIN items |-> JobValue(items[i])]

\* The queue set is the path without its last segment; there must be one.
queue_set_of(path) == IF Len(path) < 2 THEN {} ELSE {SubSeq(path, 1, Len(path) - 1)}

\* The derived Job: its queue, its name (the module path and the identifier unless
\* one was written), and retry_policy(), an Option.
DeriveJob(input, facade, core) ==
  IF input.generics THEN {}
  ELSE UNION {{[set   |-> set,
                queue |-> slots["queue"],
                name  |-> Slot(slots, "name", input.ident),
                retry |-> IF Written(slots, "retry") THEN {slots["retry"]} ELSE {},
                core  |-> path] :
                 set \in queue_set_of(slots["queue"]), path \in core_path(slots, facade, core)} :
                slots \in {s \in ParseItems(input.items, JobValues(input.items)) :
                             Written(s, "queue")}}
=============================================================================
