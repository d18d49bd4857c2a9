------------------------------- MODULE Compose -------------------------------
(***************************************************************************)
(* core/compose/parser.go, core/deployment/variables.go and                *)
(* buildContainerSpec of the orchestrator: the way from the compose file   *)
(* of a template to the specification of a container.                      *)
(*                                                                         *)
(* A value of the environment is a sequence of parts: <<"text", t>>, or    *)
(* <<"var", name, default>> for ${name} (default <<>>) and                 *)
(* ${name:-default}.  A published port is the sequence of its numbers:     *)
(* none, one, or the two ends of a range.                                  *)
(***************************************************************************)
EXTENDS Integers, Sequences, SequencesExt, FiniteSets

MaxPort == 65535

----------------------------------------------------------------------------
(***************************************************************************)
(* compose-go interpolates the file while it loads it, with an empty       *)
(* environment (loader.Options.SkipInterpolation is FALSE).                *)
(***************************************************************************)
interpolate(value) ==
    [i \in DOMAIN value |->
        IF value[i][1] = "text" THEN value[i]
        ELSE <<"text", IF value[i][3] = <<>> THEN "" ELSE value[i][3][1]>>]

loadComposeSpec(file) ==
    [file EXCEPT !.services =
        [i \in DOMAIN file.services |->
            [file.services[i] EXCEPT !.env = [k \in DOMAIN @ |-> interpolate(@[k])]]]]

\* A range of ports does not parse as one number and counts as none.
convertPort(p) ==
    [target |-> p.target, published |-> IF Len(p.published) = 1 THEN p.published[1] ELSE 0,
     proto |-> p.proto, ip |-> p.ip]

convertMount(v) ==
    [source |-> v.source, absolute |-> v.path = "absolute", readOnly |-> v.readOnly,
     type |-> IF v.type \in {"bind", "volume", "tmpfs"} THEN v.type
              ELSE IF v.path \in {"absolute", "relative", "home"} THEN "bind" ELSE "volume"]

convertService(svc) ==
    [name |-> svc.name, image |-> svc.image, env |-> svc.env, dependsOn |-> svc.dependsOn,
     ports |-> [i \in DOMAIN svc.ports |-> convertPort(svc.ports[i])],
     volumes |-> [i \in DOMAIN svc.volumes |-> convertMount(svc.volumes[i])],
     restart |-> svc.restart, labels |-> svc.labels,
     health |-> IF svc.health = <<>> \/ svc.health[1].disable THEN <<>>
                ELSE <<svc.health[1].test>>,
     cpu |-> IF svc.limits = <<>> THEN 0 ELSE svc.limits[1].cpu,
     memory |-> IF svc.limits = <<>> THEN 0 ELSE svc.limits[1].memory]

validatePorts(services) ==
    \A s \in ToSet(services) : \A p \in ToSet(s.ports) :
        p.target \in 1 .. MaxPort /\ p.published <= MaxPort

----------------------------------------------------------------------------
(***************************************************************************)
(* The depth-first search for a cycle; deps[s] is a sequence, in the order *)
(* of a Go map.                                                            *)
(***************************************************************************)
RECURSIVE hasCycle(_, _, _)

visitDeps(deps, node, dfs) ==
    LET visit(st, dep) ==
            IF st.cycle THEN st
            ELSE IF dep = node THEN [st EXCEPT !.cycle = TRUE]
            ELSE IF dep \notin st.visited THEN hasCycle(deps, dep, st)
            ELSE [st EXCEPT !.cycle = dep \in st.stack]
    IN  FoldLeft(visit, [dfs EXCEPT !.visited = @ \cup {node}, !.stack = @ \cup {node}], deps[node])

\* Mutant: a service stays on the stack of the search.
hasCycleNoPop(deps, node, dfs) == visitDeps(deps, node, dfs)

hasCycle(deps, node, dfs) ==
    LET last == visitDeps(deps, node, dfs)
    IN  IF last.cycle THEN last ELSE [last EXCEPT !.stack = @ \ {node}]

detectCircularDependencies(services, deps) ==
    LET visit(st, s) == IF st.cycle \/ s \in st.visited THEN st ELSE hasCycle(deps, s, st)
    IN  FoldLeft(visit, [visited |-> {}, stack |-> {}, cycle |-> FALSE], services).cycle

\* Secrets, configs and extends are refused; compose-go refuses cycles, too.
ParseComposeSpec(file) ==
    LET services == [i \in DOMAIN loadComposeSpec(file).services |->
                        convertService(loadComposeSpec(file).services[i])]
        names == [i \in DOMAIN services |-> services[i].name]
        deps == [n \in ToSet(names) |->
                    services[CHOOSE i \in DOMAIN services : services[i].name = n].dependsOn]
        Error(e) == [error |-> e, services |-> <<>>]
    IN  IF file.unsupported THEN Error("ErrUnsupportedFeature")
        ELSE IF services = <<>> THEN Error("ErrNoServices")
        ELSE IF \E i \in DOMAIN services : services[i].image = "" /\ ~file.services[i].build
          THEN Error("ErrServiceNoImage")
        ELSE IF detectCircularDependencies(names, deps) THEN Error("ErrCircularDependency")
        ELSE IF ~validatePorts(services) THEN Error("ErrServiceInvalidPort")
        ELSE [error |-> "nil", services |-> services]

----------------------------------------------------------------------------
SubstituteVariables(value, variables) ==
    [i \in DOMAIN value |->
        IF value[i][1] = "text" THEN value[i]
        ELSE IF value[i][2] \in DOMAIN variables THEN <<"text", variables[value[i][2]]>>
        ELSE IF value[i][3] # <<>> THEN <<"text", value[i][3][1]>>
        ELSE value[i]]

\* Mutant: every port of the primary service goes to the proxy port.
ProxyPortAlways(ports, i, proxyPort, isPrimaryService) == isPrimaryService /\ proxyPort > 0

\* The first port of the primary service is bound to the deployment's port.
UsesProxyPort(ports, i, proxyPort, isPrimaryService) ==
    isPrimaryService /\ proxyPort > 0 /\ i = 1

\* "template" stands for the template's name of the volume, "deployment" for
\* the name with the deployment's prefix.
buildContainerSpec(depl, svc, isPrimaryService, configMounts) ==
    [config |-> [name |-> svc.name, image |-> svc.image,
                 env |-> [k \in DOMAIN svc.env |-> SubstituteVariables(svc.env[k], depl.variables)],
                 labels |-> [k \in DOMAIN svc.labels \cup {"deployment", "service"} |->
                               IF k \in DOMAIN svc.labels THEN svc.labels[k]
                               ELSE IF k = "deployment" THEN depl.id ELSE svc.name]],
     networks |-> <<depl.id>>,
     aliases |-> [n \in {depl.id} |-> <<svc.name>>],
     ports |-> [i \in DOMAIN svc.ports |->
                  LET p == svc.ports[i]
                      routed == UsesProxyPort(svc.ports, i, depl.proxyPort, isPrimaryService)
                  IN  [port |-> p.target, proto |-> p.proto,
                       host |-> IF routed THEN depl.proxyPort ELSE p.published,
                       ip |-> IF routed THEN "0.0.0.0" ELSE p.ip]],
     volumes |-> [i \in DOMAIN svc.volumes |->
                    LET v == svc.volumes[i]
                    IN  [source |-> <<IF v.type = "volume" THEN "deployment" ELSE "template", v.source>>,
                         absolute |-> v.absolute /\ v.type # "volume", readOnly |-> v.readOnly]]
                 \o [i \in DOMAIN configMounts |->
                        [source |-> <<"host", configMounts[i]>>, absolute |-> TRUE, readOnly |-> TRUE]],
     health |-> svc.health, cpu |-> svc.cpu, memory |-> svc.memory,
     restart |-> [name |-> IF svc.restart \in {"always", "on-failure", "unless-stopped"}
                             THEN svc.restart ELSE "no"]]
=============================================================================
