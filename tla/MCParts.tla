------------------------------- MODULE MCParts -------------------------------
(* The parts of the system that share no state with the others, one at a time: *)
(* a bounded command of the runner, the bundle of an upload, the figures of    *)
(* the dashboards and the use of API keys. The part is chosen at the start.    *)
EXTENDS BoundedCommand, Bundles, Metrics, Access, TLC

CONSTANTS yaml, dotYaml, code, codeWeights, outside

VARIABLE part

Parts == {"command", "bundle", "metrics", "access"}
vars  == <<part, commandVars, bundleVars, logs, accessVars>>

Init == part \in Parts /\ CommandInit /\ BundleInit /\ MetricsInit /\ AccessInit
        /\ (part # "bundle" => archive = <<>>)

Next ==
    /\ UNCHANGED part
    /\ \/ part = "command" /\ CommandNext /\ UNCHANGED <<bundleVars, logs, accessVars>>
       \/ part = "bundle" /\ BundleNext /\ UNCHANGED <<commandVars, logs, accessVars>>
       \/ part = "metrics" /\ MetricsNext /\ UNCHANGED <<commandVars, bundleVars, accessVars>>
       \/ part = "access" /\ AccessNext /\ UNCHANGED <<commandVars, bundleVars, logs>>

\* The runner's thread runs, and so does a command that plays its part.
Spec == /\ Init /\ [][Next]_vars
        /\ WF_commandVars(part = "command" /\ Runner)
        /\ WF_commandVars(part = "command" /\ CooperativeCommand)
----------------------------------------------------------------------------
\* A directory, files of allowed and of forbidden sizes that hold as much as they
\* declare or not, another spelling of model.yaml, a file below another file, a
\* path that leaves the bundle, a link, and a file that expands too much.
MCPaths  == {yaml, code, codeWeights}
MCParent == (yaml :> Top) @@ (code :> Top) @@ (codeWeights :> code)
MCNormal == (yaml :> yaml) @@ (dotYaml :> yaml) @@ (code :> code)
              @@ (codeWeights :> codeWeights) @@ (outside :> Rejected)

ZipEntry(name, declared, bytes) ==
    [name |-> name, dir |-> FALSE, special |-> FALSE, declared |-> declared,
     packed |-> 1, bytes |-> bytes]

MCEntries ==
    {ZipEntry(n, d, b) : n \in {yaml, dotYaml, code, codeWeights}, d \in 0..2, b \in 1..3}
      \cup {[ZipEntry(n, 0, 0) EXCEPT !.dir = TRUE] : n \in {yaml, code}}
      \cup {ZipEntry(outside, 1, 1), ZipEntry(code, 3, 1),
            [ZipEntry(code, 1, 1) EXCEPT !.special = TRUE],
            [ZipEntry(code, 1, 1) EXCEPT !.packed = 0]}

MCArchives == {<<>>} \cup {<<e>> : e \in MCEntries} \cup {<<e, f>> : e, f \in MCEntries}
                \cup {<<e, e, e>> : e \in MCEntries}

MCManifests ==
    [wellFormed : BOOLEAN, requirements : {yaml, code}, artifact : {code, codeWeights, Rejected},
     stateDict : BOOLEAN, classFile : {yaml, code, Rejected}, schema : {"valid", "invalid"}]

\* Hits, misses and errors of today's gateway, and rows from before it.
MCLogKinds ==
    {[gateway |-> g, latency |-> g, compute |-> c, hit |-> FALSE, status |-> s] :
        g \in {0, 2, 5}, c \in {Null, 1, 3}, s \in {"SUCCESS", "ERROR"}}
      \cup {[gateway |-> g, latency |-> g, compute |-> Null, hit |-> TRUE, status |-> "SUCCESS"] :
              g \in {0, 2}}
      \cup {[gateway |-> Null, latency |-> l, compute |-> Null, hit |-> FALSE,
             status |-> "SUCCESS"] : l \in {Null, 4}}
=============================================================================
