------------------------- MODULE PrefetchingServer -------------------------
(***************************************************************************)
(* server_sim_prefetch.c as a whole: the server of the module Server, whose *)
(* main first loads the bundle file and whose functions ask for hints when *)
(* they are entered.  The table of bundles is that of BundleReplay.        *)
(*                                                                         *)
(* A call of bundles_prefetch_for_pc only reads the table, so it is one    *)
(* step with the first step of the function that makes it.                 *)
(***************************************************************************)
EXTENDS Server

CONSTANTS Files, KeyOrder, Unreadable, AddrSpace, PageSize, FirstCapacity,
          Lines, CacheLine,  \* of BundleReplay
          Label              \* function -> the address of its entry label

ASSUME HintAssumption == FirstCapacity \in Nat \ {0}

VARIABLES boot,                       \* where main is: "access", "loading", "loaded"
          g_bundles, g_capacity, allocated, g_addr_base, file, line, have_start, cur_start,
          phase, last,                \* of BundleReplay
          answers                     \* <<function, bundle found>> of every call

Replay == INSTANCE BundleReplay WITH AddrBases <- {0}, Pcs <- {Label[f] : f \in DOMAIN Label}

bundles == <<g_bundles, g_capacity, allocated, g_addr_base, file, line, have_start, cur_start,
             phase, last>>
prefetchVars == <<vars, boot, bundles, answers>>

PrefetchInit ==
    /\ Init
    /\ Replay!Init
    /\ boot = "access"
    /\ answers = {}

-----------------------------------------------------------------------------
(* main, before db_init *)

\* access(bundle_path, R_OK) fails: a warning.
BundleFileMissing ==
    /\ boot = "access"
    /\ boot' = "loaded"
    /\ UNCHANGED <<vars, bundles, answers>>

LoadBundles(f) ==
    /\ boot = "access"
    /\ boot' = "loading"
    /\ Replay!BundlesInit(f, 0)
    /\ UNCHANGED <<vars, answers>>

ParseBundles ==
    /\ boot = "loading"
    /\ \/ Replay!FileMissing \/ Replay!ReadStart \/ Replay!SkipLine
       \/ Replay!StoreBundle \/ Replay!StoreFails \/ Replay!EndOfFile
    /\ UNCHANGED <<vars, boot, answers>>

\* Fault: main gives up when bundles_init does.
BundlesInitSucceeds ==
    /\ boot = "loading"
    /\ phase = "ready"
    /\ boot' = "loaded"
    /\ UNCHANGED <<vars, bundles, answers>>

\* bundles_init returns; its failure is a warning.
BundlesInitReturns ==
    /\ boot = "loading"
    /\ phase \in {"ready", "failed"}
    /\ boot' = "loaded"
    /\ UNCHANGED <<vars, bundles, answers>>

-----------------------------------------------------------------------------
(* The server of server_sim.c, with hints *)

\* Fault: the server starts while its bundles are being loaded.
LoadedOrLoading == boot # "access"

\* main goes on to db_init and the threads.
Loaded == boot = "loaded"

\* A step that enters the given functions.
Entering(functions) ==
    /\ Loaded
    /\ answers' = answers \cup {<<f, Replay!FindBundle(Label[f])>> : f \in functions}
    /\ UNCHANGED <<boot, bundles>>

PrefetchMain ==
    \/ DbInit /\ Entering(IF i = 0 THEN {"db_init"} ELSE {})
    \/ (DbInitReturns \/ CreateThread) /\ Entering({})

\* A thread of generator_fn asks once, when it starts.
PrefetchGenerate(c) ==
    Generate(c) /\ Entering(IF made[c] = 0 THEN {"generator_fn"} ELSE {})

\* worker_fn asks after each dequeue_request, for its own code.
PrefetchWork(w) ==
    \/ TakeRequest(w) /\ Entering({"worker_fn"})
    \/ \E p \in Paths :
          ParseRequest(w, p) /\ Entering({"make_request_text", "parse_request_text"})
    \/ Lookup(w) /\ Entering({"business_logic_sim", "db_lookup_update"})
    \/ LookupActs(w) /\ Entering({})
    \/ Respond(w) /\ Entering({"fake_compress", "server_log"})

-----------------------------------------------------------------------------
Boot ==
    \/ BundleFileMissing
    \/ \E f \in Files : LoadBundles(f)
    \/ ParseBundles \/ BundlesInitReturns

PrefetchNext ==
    \/ Boot
    \/ PrefetchMain
    \/ \E c \in Clients : PrefetchGenerate(c)
    \/ \E w \in Workers : PrefetchWork(w)

PrefetchSpec == PrefetchInit /\ [][PrefetchNext]_prefetchVars

\* As in Server; the table is loaded by main, which runs on.
PrefetchFairSpec ==
    /\ PrefetchSpec
    /\ WF_prefetchVars(Boot)
    /\ WF_prefetchVars(PrefetchMain)
    /\ \A w \in Workers : WF_prefetchVars(PrefetchWork(w))
-----------------------------------------------------------------------------
(* Properties *)

\* Workers and generators read the table without a lock.  That is safe because
\* it is complete before the first of them runs: whoever enters a function, and
\* whenever, gets the answer everybody gets.
EveryThreadSeesOneTable ==
    \A a, b \in answers : a[1] = b[1] => a[2] = b[2]

\* main goes on when bundles_init fails, even after it has stored bundles.  A
\* thread nevertheless finds a bundle only in a table that was loaded to the end
\* of its file, and searches no entry behind the array, freed or not.
HintsComeFromALoadedTable ==
    /\ \A a \in answers : a[2] # 0 => phase = "ready"
    /\ answers # {} => Len(g_bundles) <= allocated
=============================================================================
