------------------------------ MODULE Startup ------------------------------
(***************************************************************************)
(* The start of the process and its keys.  main reads keys.json with       *)
(* ServerKeys::get_keys (config.rs), which generates and writes a key if   *)
(* the file does not open, for whatever reason, broadcasts the metadata    *)
(* events the file does not list yet, writes the file again, and serves.   *)
(* ServerKeys::write truncates the file before it fills it, and the process*)
(* may die between any two steps.  A file that opens and cannot be parsed  *)
(* ends the process.                                                       *)
(***************************************************************************)
EXTENDS Naturals, FiniteSets

CONSTANTS
    Key,        \* keys Keys::generate may return, each of them once
    NoKey,      \* of a process that is down
    MaxRestarts \* bound on crashes and orderly stops

ASSUME StartupAssumption == NoKey \notin Key /\ Key # {} /\ MaxRestarts \in Nat

\* The events of an account's metadata and of the service it offers.
Metadata == {"kind0", "kind31990"}

VARIABLES
    file,       \* keys.json: whether it is complete, and what it lists
    phase,      \* where main is
    key,        \* server_key in memory
    kinds,      \* the metadata events in memory
    published,  \* <<key, kind>> of the metadata events on the relays
    generated,  \* keys generated so far
    abandoned,  \* history: those made before a file there was did not open
    restarts    \* crashes and orderly stops so far

memory == <<phase, key, kinds>>
startVars == <<file, memory, published, generated, abandoned, restarts>>

Complete(k, ks) == [state |-> "complete", key |-> k, kinds |-> ks]
Blank(state) == [state |-> state, key |-> NoKey, kinds |-> {}]

\* Keys::generate; which of the keys it is makes no difference.
NewKey == CHOOSE k \in Key \ generated : TRUE

-----------------------------------------------------------------------------
(* ServerKeys::get_keys.                                                    *)

\* Variant: a file that opens and cannot be parsed is taken for none.
GenerateAnyway ==
    /\ phase = "down"
    /\ file.state # "complete"
    /\ generated # Key
    /\ key' = NewKey
    /\ generated' = generated \cup {key'}
    /\ kinds' = {}
    /\ file' = Blank("truncated")
    /\ phase' = "generated"
    /\ UNCHANGED <<published, abandoned, restarts>>

\* Err(_) of File::open: there is no file, or it was moved or lost with what it
\* held, or it is there and the process may not open it or has no descriptor
\* left.  ServerKeys::generate, then File::create, which empties what is there.
GenerateKey ==
    /\ phase = "down"
    /\ generated # Key
    /\ key' = NewKey
    /\ generated' = generated \cup {key'}
    /\ abandoned' = IF file.state = "absent" THEN abandoned ELSE generated
    /\ kinds' = {}
    /\ file' = Blank("truncated")
    /\ phase' = "generated"
    /\ UNCHANGED <<published, restarts>>

\* The file is read.  One that is truncated cannot be parsed: expect panics.
LoadKeys ==
    /\ phase = "down"
    /\ file.state = "complete"
    /\ key' = file.key
    /\ kinds' = file.kinds
    /\ phase' = "loaded"
    /\ UNCHANGED <<file, published, generated, abandoned, restarts>>

\* write_all, the second half of write.
Fill ==
    /\ phase \in {"generated", "rewriting"}
    /\ file' = Complete(key, kinds)
    /\ phase' = IF phase = "generated" THEN "loaded" ELSE "stored"
    /\ UNCHANGED <<key, kinds, published, generated, abandoned, restarts>>

-----------------------------------------------------------------------------
(* The metadata events.                                                     *)

Missing == {key} \X (Metadata \ kinds)

\* Variant: the events are stored as done before they are sent.
TruncateFirst ==
    /\ phase = "loaded" /\ kinds # Metadata
    /\ kinds' = Metadata
    /\ file' = Blank("truncated")
    /\ phase' = "rewriting"
    /\ UNCHANGED <<key, published, generated, abandoned, restarts>>

\* batch_event succeeds.
Broadcast ==
    /\ phase = "loaded"
    /\ kinds # Metadata
    /\ published' = published \cup Missing
    /\ kinds' = Metadata
    /\ phase' = "broadcast"
    /\ UNCHANGED <<file, key, generated, abandoned, restarts>>

\* File::create in server_keys.write(&keys_path).
Truncate ==
    /\ phase = "broadcast"
    /\ file' = Blank("truncated")
    /\ phase' = "rewriting"
    /\ UNCHANGED <<key, kinds, published, generated, abandoned, restarts>>

\* Connected to the node, with the storage of the oracle open; if the file
\* listed every event, nothing was broadcast.
Serve ==
    /\ \/ phase = "stored"
       \/ phase = "loaded" /\ kinds = Metadata
    /\ phase' = "serving"
    /\ UNCHANGED <<file, key, kinds, published, generated, abandoned,
                   restarts>>

-----------------------------------------------------------------------------
(* The end of the process.                                                  *)

Down ==
    /\ phase' = "down"
    /\ key' = NoKey
    /\ kinds' = {}
    /\ UNCHANGED <<file, generated, abandoned>>

\* The process dies: killed, by a panic of main (a file that cannot be
\* written, no answer of the node), or as an error of main, such as that of a
\* broadcast, which some of the events may still have reached the relays with.
Crash ==
    /\ phase # "down"
    /\ restarts < MaxRestarts
    /\ restarts' = restarts + 1
    /\ \/ UNCHANGED published
       \/ /\ phase = "loaded"
          /\ \E some \in SUBSET Missing : published' = published \cup some
    /\ Down

\* A signal ends the web server, then main returns (graceful.await).
Terminate ==
    /\ phase = "serving"
    /\ restarts < MaxRestarts
    /\ restarts' = restarts + 1
    /\ phase' = "draining"
    /\ UNCHANGED <<file, key, kinds, published, generated, abandoned>>

ReturnFromMain ==
    /\ phase = "draining"
    /\ phase' = "stopping"
    /\ UNCHANGED <<file, key, kinds, published, generated, abandoned,
                   restarts>>

Exit ==
    /\ phase = "stopping"
    /\ Down
    /\ UNCHANGED <<published, restarts>>

-----------------------------------------------------------------------------

FirstKey == CHOOSE k \in Key : TRUE

\* A new installation, or the file of an earlier version that knew kind 0 only.
StartupInit ==
    /\ \/ file = Blank("absent") /\ generated = {} /\ published = {}
       \/ /\ file = Complete(FirstKey, {"kind0"})
          /\ generated = {FirstKey}
          /\ published = {<<FirstKey, "kind0">>}
    /\ phase = "down" /\ key = NoKey /\ kinds = {}
    /\ abandoned = {}
    /\ restarts = 0

StartupNext ==
    \/ GenerateKey \/ LoadKeys \/ Fill \/ Broadcast \/ Truncate \/ Serve
    \/ Crash \/ Terminate \/ ReturnFromMain \/ Exit

StartupSpec == StartupInit /\ [][StartupNext]_startVars

-----------------------------------------------------------------------------
(* Properties.                                                              *)

Phase == {"down", "generated", "loaded", "broadcast", "rewriting", "stored",
          "serving", "draining", "stopping"}

\* The type of every variable.
StartupTypeOK ==
    /\ file \in {Blank("absent"), Blank("truncated")}
                \cup {Complete(k, ks) : k \in Key, ks \in SUBSET Metadata}
    /\ phase \in Phase
    /\ key \in Key \cup {NoKey}
    /\ kinds \subseteq Metadata
    /\ published \subseteq Key \X Metadata
    /\ generated \subseteq Key
    /\ abandoned \subseteq generated
    /\ restarts \in 0..MaxRestarts

Up == {"serving", "draining", "stopping"}

\* The keys that the relays, the memory and the file show, but for those given
\* up.
Identity == ({p[1] : p \in published} \ abandoned)
            \cup ({key, file.key} \ {NoKey})

\* The identity of the service outlives every crash, wherever it meets the two
\* writes of keys.json: the relays, the memory and the file show one key, never
\* one that was replaced, but for keys whose file was lost or did not open at a
\* start.  A file that opens and cannot be parsed is never replaced
\* (ServerKeys::get_keys, ServerKeys::write).
OneIdentity ==
    /\ \A k, l \in Identity : k = l
    /\ Identity \cap abandoned = {}

\* A process that serves has both of its metadata events on the relays, sent
\* now or in an earlier life, and lists them in keys.json so that the next life
\* does not send them again (main.rs).
ServedIsPublished ==
    phase \in Up => /\ {key} \X Metadata \subseteq published
                    /\ file = Complete(key, Metadata)

=============================================================================
