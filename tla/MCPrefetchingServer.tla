------------------------ MODULE MCPrefetchingServer ------------------------
EXTENDS PrefetchingServer, Bitwise

MCXor(a, b) == a ^^ b

\* Clients 1 and 3 of the four main creates: 1 XOR 9 = 3 XOR 11 and
\* 1 XOR 11 = 3 XOR 9, so they share both entries.
MCCreation == <<<<"w1", 1>>, <<"w2", 3>>>>
MCPaths == {"/api/item", "/api/search"}
MCPathLength == [p \in MCPaths |-> IF p = "/api/item" THEN 9 ELSE 11]

\* The functions of the server in the order of the binary, with their labels.
MCLabel == [f \in {"generator_fn", "make_request_text", "parse_request_text", "worker_fn",
                   "business_logic_sim", "db_lookup_update", "fake_compress", "server_log",
                   "db_init"} |->
    CASE f = "make_request_text" -> 2 [] f = "generator_fn" -> 5
      [] f = "parse_request_text" -> 9 [] f = "business_logic_sim" -> 13
      [] f = "db_lookup_update" -> 17 [] f = "worker_fn" -> 21
      [] f = "fake_compress" -> 27 [] f = "server_log" -> 29 [] f = "db_init" -> 31]

\* The order of the keys in bundles_pc.json.
SortedKeys == <<"end_pc", "function", "start_pc">>
Entry(start, end) == [k \in {"end_pc", "function", "start_pc"} |->
                         CASE k = "start_pc" -> start [] k = "end_pc" -> end
                           [] OTHER -> Unreadable]
MCFiles == {<<Entry(12, 15), Entry(30, 33), Entry(16, 19)>>}
=============================================================================
