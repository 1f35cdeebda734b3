-------------------------------- MODULE RpcGen --------------------------------
(***************************************************************************)
(* The generator of the table of RPCs (internal/security/gen) and the table *)
(* it writes (internal/security/gnxi/rpcs.go).  The generator walks a Go    *)
(* map of proto files, so in any order, collects the RPCs of their services *)
(* under a key, and writes four tables: the fields and the values of a      *)
(* struct, a variable per RPC, and a map from path to variable.             *)
(*                                                                         *)
(* A service's name is the sequence of its parts.                          *)
(***************************************************************************)
EXTENDS Naturals, Sequences, FiniteSets

CONSTANT Inputs     \* sets of files [name, services: Seq([fqn, methods])]

VARIABLES
    files,          \* the input
    todo,           \* files not walked yet
    file, i, j,     \* where the generator is: file, service, method
    serviceName,    \* the loop's variable
    rpcMap          \* key -> [service, name]

vars == <<files, todo, file, i, j, serviceName, rpcMap>>

Star == "*"
RPC(service, name) == [service |-> service, name |-> name]
NoFile == [name |-> <<"none">>, services |-> <<>>]
Put(m, key, value) == [k \in DOMAIN m \cup {key} |-> IF k = key THEN value ELSE m[k]]

Init ==
    /\ files \in Inputs /\ todo = files /\ file = NoFile
    /\ i = 0 /\ j = 0 /\ serviceName = <<>>
    /\ rpcMap = [k \in {<<<<>>, "ALL">>} |-> RPC(<<Star>>, Star)]

StartFile ==
    /\ i = 0 /\ todo # {}
    /\ \E f \in todo :
        /\ file' = f /\ todo' = todo \ {f} /\ serviceName' = f.name
        /\ i' = IF f.services = <<>> THEN 0 ELSE 1
    /\ j' = 1
    /\ UNCHANGED <<files, rpcMap>>

\* A plausible slip: the key is the method's name alone.
Key_Name(service, name) == <<<<>>, name>>

\* The key an RPC is collected under.
Key(service, name) == <<service, name>>

\* A method: its key is made from serviceName as the loop left it, the file's
\* name for the first method and the full name of the last service after that;
\* then serviceName becomes the full name of its own service.
Method ==
    /\ i > 0 /\ j <= Len(file.services[i].methods)
    /\ LET s == file.services[i]
           r == RPC(s.fqn, s.methods[j])
       IN  /\ rpcMap' = Put(rpcMap, Key(serviceName, r.name), r)
           /\ serviceName' = s.fqn
    /\ j' = j + 1
    /\ UNCHANGED <<files, todo, file, i>>

\* A plausible slip: the entry is made from the file's name.
AllOfService_File ==
    /\ i > 0 /\ j > Len(file.services[i].methods)
    /\ rpcMap' = Put(rpcMap, Key(file.name, "ALL"), RPC(file.name, Star))
    /\ i' = IF i < Len(file.services) THEN i + 1 ELSE 0
    /\ j' = 1
    /\ UNCHANGED <<files, todo, file, serviceName>>

\* The entry for the whole service.
AllOfService ==
    /\ i > 0 /\ j > Len(file.services[i].methods)
    /\ rpcMap' = Put(rpcMap, Key(serviceName, "ALL"), RPC(serviceName, Star))
    /\ i' = IF i < Len(file.services) THEN i + 1 ELSE 0
    /\ j' = 1
    /\ UNCHANGED <<files, todo, file, serviceName>>

Next == StartFile \/ Method \/ AllOfService

Spec == Init /\ [][Next]_vars

------------------------------------------------------------------------------
\* The names the templates make.  A variable's name drops a part that repeats
\* the one before it but for its case (the parts here are in one case).
varName(r) ==
    LET parts == r.service
        kept == {k \in DOMAIN parts : k = 1 \/ parts[k] # parts[k - 1]}
    IN  <<SelectSeq([k \in DOMAIN parts |-> IF k \in kept THEN parts[k] ELSE ""], LAMBDA p : p # ""),
          r.name>>

\* A plausible slip: only the first part of the service's name is used.
funcName_First(r) == <<<<r.service[1]>>, r.name>>

\* A field's name, and the name of the function that runs the RPC: the first
\* part, and the last when there are more than two.
funcName(r) ==
    LET parts == r.service
    IN  <<IF Len(parts) > 2 THEN <<parts[1], parts[Len(parts)]>> ELSE <<parts[1]>>, r.name>>

Path(r) == <<r.service, r.name>>

Entries == {rpcMap[k] : k \in DOMAIN rpcMap}
\* The four tables.
rpcs == {funcName(r) : r \in Entries}
Variables == [v \in {varName(r) : r \in Entries} |-> CHOOSE r \in Entries : varName(r) = v]
RPCs == [f \in rpcs |-> varName(CHOOSE r \in Entries : funcName(r) = f)]
RPCMAP == [p \in {Path(r) : r \in Entries} |-> varName(CHOOSE r \in Entries : Path(r) = p)]

------------------------------------------------------------------------------
Done == todo = {} /\ i = 0
Wanted == UNION {UNION {{RPC(f.services[s].fqn, f.services[s].methods[m]) :
                            m \in DOMAIN f.services[s].methods}
                        : s \in DOMAIN f.services} : f \in files}

\* Every RPC of every service is in the table, in whatever order the files are
\* walked.
AllRpcsListed == Done => Wanted \subseteq Entries

\* An RPC is the same one by its path, by its field and by its variable: no two
\* RPCs share a name the templates make.
TablesAgree ==
    Done => \A r \in Entries :
                /\ Variables[varName(r)] = r
                /\ RPCs[funcName(r)] = varName(r)
                /\ RPCMAP[Path(r)] = varName(r)

\* Every service has an entry that stands for all its RPCs.
AllEntries == Done => \A r \in Wanted : RPC(r.service, Star) \in Entries
==============================================================================
