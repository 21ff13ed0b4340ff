----------------------------- MODULE MCToolchain ----------------------------
EXTENDS Toolchain

Fn(name, insts, calls) ==
    [name |-> name, declaration |-> FALSE, insts |-> insts, calls |-> calls]
External(name) == [name |-> name, declaration |-> TRUE, insts |-> 0, calls |-> <<>>]

\* server_sim.ll of the repository: its functions, their instructions and
\* their direct calls, with two of its external functions.
ServerSim == <<
    Fn("make_request_text", 52, <<"xorshift64", "xorshift64", "xorshift64", "snprintf">>),
    Fn("xorshift64", 26, <<>>),
    External("snprintf"),
    Fn("enqueue_request", 17, <<>>),
    Fn("dequeue_request", 23, <<>>),
    Fn("parse_request_text", 180, <<>>),
    Fn("business_logic_sim", 62, <<>>),
    Fn("db_lookup_update", 73, <<"malloc">>),
    External("malloc"),
    Fn("fake_compress", 90, <<>>),
    Fn("server_log", 18, <<>>),
    Fn("worker_fn", 100, <<"dequeue_request", "make_request_text", "parse_request_text",
                           "server_log", "business_logic_sim", "db_lookup_update",
                           "snprintf", "fake_compress", "server_log">>),
    Fn("generator_fn", 35, <<"enqueue_request", "xorshift64">>),
    Fn("db_init", 58, <<"malloc">>),
    Fn("main", 59, <<"db_init">>) >>

\* The labels of the repository's server_sim, whose compiler inlined five
\* functions of the module and split fake_compress.
ServerSimLabels == <<
    <<4800, "main">>, <<5008, "_start">>, <<5056, "deregister_tm_clones">>,
    <<5104, "register_tm_clones">>, <<5168, "__do_global_dtors_aux">>, <<5232, "frame_dummy">>,
    <<5248, "fake_compress.part.0">>, <<5392, "make_request_text">>, <<5744, "enqueue_request">>,
    <<5872, "generator_fn">>, <<6080, "dequeue_request">>, <<6272, "parse_request_text">>,
    <<6688, "business_logic_sim">>, <<6944, "db_lookup_update">>, <<7120, "worker_fn">>,
    <<7712, "fake_compress">>, <<7744, "server_log">>, <<7904, "db_init">>, <<8024, "_fini">> >>

\* Small modules: sizes around the threshold, every pattern of two calls of
\* two functions, an external and a recursive call among them.
CallLists == {<<>>} \cup {<<a, b>> : a, b \in {"db_init", "main", "malloc"}}
SmallModules ==
    {<<Fn("main", m, c), External("malloc"), Fn("db_init", n, d)>> :
        m, n \in {1, 25, 50}, c, d \in CallLists}

\* Every module, with one binary that has all its functions; one module of two
\* bundles with labels in any order (objdump prints section by section), names
\* repeated (static functions of two files), addresses shared and functions
\* inlined; and the server.
OneBinary == <<<<0, "main">>, <<3, "db_init">>, <<8, "_fini">>>>
TwoBundles == <<Fn("main", 60, <<>>), External("malloc"), Fn("db_init", 50, <<"main">>)>>
LabelLists ==
    UNION {[1 .. n -> {0, 3, 8} \X {"main", "db_init", "_fini"}] : n \in 0 .. 2}
    \cup {<<<<8, "main">>, <<0, "db_init">>, <<3, "_fini">>>>,
          <<<<3, "_fini">>, <<3, "main">>, <<0, "db_init">>>>}

MCModules == SmallModules \cup {TwoBundles, ServerSim}
MCDisassemblies == (SmallModules \X {OneBinary})
                   \cup ({TwoBundles} \X LabelLists)
                   \cup {<<ServerSim, ServerSimLabels>>}

\* The names in alphabetical order.
MCNames == <<"__do_global_dtors_aux", "_fini", "_start",
             "business_logic_sim", "db_init", "db_lookup_update", "dequeue_request",
             "deregister_tm_clones", "enqueue_request", "fake_compress",
             "fake_compress.part.0", "frame_dummy", "generator_fn", "main",
             "make_request_text", "malloc", "parse_request_text", "register_tm_clones",
             "server_log", "snprintf", "worker_fn", "xorshift64">>

\* For server_sim.ll and server_sim the model produces the bundles.json and the
\* bundles_pc.json of the repository: <<size, numbers, addresses>> of each.
ServerSimBundles ==
    [business_logic_sim |-> <<62, 298, 359, 6688, 6943>>,
     db_init            |-> <<58, 676, 733, 7904, 8023>>,
     db_lookup_update   |-> <<73, 360, 432, 6944, 7119>>,
     fake_compress      |-> <<90, 433, 522, 7712, 7743>>,
     generator_fn       |-> <<78, 641, 675, 5872, 6079>>,
     main               |-> <<117, 734, 792, 4800, 5007>>,
     make_request_text  |-> <<130, 0, 51, 5392, 5743>>,
     parse_request_text |-> <<180, 118, 297, 6272, 6687>>,
     worker_fn          |-> <<616, 541, 640, 7120, 7711>>]
ServerSimFile(start, end) ==
    LET functions == SelectSeq(MCNames, LAMBDA f : f \in DOMAIN ServerSimBundles)
        Entry(f)  == [function |-> f, reachable_size |-> ServerSimBundles[f][1],
                      start_pc |-> ServerSimBundles[f][start], end_pc |-> ServerSimBundles[f][end]]
    IN  [n \in DOMAIN functions |-> Entry(functions[n])]

AgreesWithRepository ==
    mod = ServerSim =>
        /\ phase = "done" => bundles = ServerSimFile(2, 3)
        /\ mapPhase = "done" => [n \in DOMAIN out |-> out[n].values] = ServerSimFile(4, 5)
=============================================================================
