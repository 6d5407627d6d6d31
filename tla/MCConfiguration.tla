--------------------------- MODULE MCConfiguration ---------------------------
(* A small instance of Configuration: enums of two variants whose names may  *)
(* collide, one correct and one mistaken literal for most keys.              *)
EXTENDS Configuration

Variant(ident) == [ident |-> ident, fields |-> FALSE, misplaced |-> FALSE, items |-> <<>>]

HTa  == <<"H", "T", "a">>
H_Ta == <<"H", "_", "T", "a">>
Ma   == <<"M", "a">>

Enum(variants) ==
  [item |-> "enum", generics |-> FALSE, misplaced |-> FALSE, items |-> <<>>,
   variants |-> variants]

QueueKey == Item("queue", Path(<<"AppQueues", "First">>))
Job(items) == [generics |-> FALSE, ident |-> <<"J">>, items |-> items]

Sound == [enum |-> Enum(<<Variant(HTa), Variant(Ma)>>), job |-> Job(<<QueueKey>>)]

MCInputs ==
  {Sound,
   [Sound EXCEPT !.enum = Enum(<<Variant(HTa), Variant(H_Ta)>>)],
   [Sound EXCEPT !.enum = Enum(<<Variant(<<"_">>), Variant(Ma)>>)],
   [Sound EXCEPT !.enum = Enum(<<>>)],
   [Sound EXCEPT !.enum.item = "struct"],
   [Sound EXCEPT !.enum.variants[2].fields = TRUE],
   [Sound EXCEPT !.enum.misplaced = TRUE],
   [Sound EXCEPT !.job = Job(<<>>)],
   [Sound EXCEPT !.job = Job(<<Item("queue", Path(<<"First">>))>>)]}

Retrying == Item("retry", List(<<>>))

MCContainerItems ==
  {Item("prefix", Str(<<"p">>)), Item("prefix", Str(<<"p", ".">>)),
   Item("crate", Str(<<"super", "q">>))}

MCQueueItems ==
  {Item("name", Str(Ma)), Item("name", Str(<<"m", "a">>)), Item("name", Str(<<" ">>)),
   Item("prefetch", IntLit(5)), Item("prefetch", IntLit(0)), Item("prefetch", Bool(TRUE)),
   Item("durable", Bool(FALSE)),
   Item("message_ttl", Timed(2, NoUnit)),
   Item("message_ttl", Timed(20, "m")),
   Item("max_priority", IntLit(0)), Item("max_priority", IntLit(256)),
   Retrying, Item("colour", IntLit(1))}

MCJobItems ==
  {Item("name", Str(<<"j">>)), Item("queue", Path(<<"AppQueues", "Second">>)), Retrying}

MCRetryItems ==
  {Item("max_attempts", IntLit(0)), Item("max_attempts", IntLit(2)),
   Item("backoff", Word("none")), Item("backoff", Word("fixed")), Item("backoff", Word("linear")),
   Item("delay", Timed(5, "s")), Item("delay", Timed(NoDigits, "s")),
   Item("base", Timed(2, "m")), Item("base", Timed(9, "d")),
   Item("max", Timed(1, "m")),
   Item("factor", Float(<<3, 2>>)), Item("factor", IntLit(0)),
   Item("jitter", Bool(FALSE))}

MCManifests ==
  {<<"Itself", "queuey_core">>, <<"Absent", "Itself">>, <<"q", "Absent">>,
   <<"Absent", "NoManifest">>, <<"Absent", "Absent">>}

MCPolicies ==
  {NoRetries, RetryPolicy(3, exponential_with(4000, <<2, 1>>, 6000, FALSE))}
=============================================================================
