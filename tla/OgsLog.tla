------------------------------- MODULE OgsLog -------------------------------
(***************************************************************************)
(* src/core/ogs-log.c: the logs (standard error and files), the domains    *)
(* with their levels, and who gets a line.                                 *)
(*                                                                         *)
(* A module of the program keeps the id that ogs_log_install_domain gave   *)
(* it for its name, and prints with that id.  A file is known by its name  *)
(* and by how often something else has moved it away (log rotation).  What *)
(* a line looks like is in OgsText.                                        *)
(***************************************************************************)
EXTENDS Integers, SequencesExt

CONSTANTS DomainIds,     \* domain_pool: an id is the index of a record
          DomainNames,   \* the names that modules install; "core" is another
          LogRecords,    \* log_pool
          LogFiles,      \* the names of log files
          LogLevels,     \* 0 is OGS_LOG_NONE, a greater number says more
          DefaultLevel,  \* ogs_core()->log.level
          MaxRotations,  \* bound
          NoDomain, NoLog

VARIABLES domains,   \* domain_list: ids
          domain,    \* the records of the pool: name and level
          logs,      \* log_list: records
          log,       \* their content: a file and its generation, or stderr
          held,      \* the ids that modules keep, 0 before they have one
          orphaned,  \* history: the modules whose domain was removed after
                     \* they had got its id
          disk,      \* the generation a file name stands for now
          rotated,   \* history: the names moved since the last cycle
          line       \* history: where the last line went

logvars == <<domains, domain, logs, log, held, orphaned, disk, rotated, line>>

Stderr == "stderr"
DomainRecords == [name : DomainNames \cup {"core"}, level : LogLevels \cup {DefaultLevel}]
OpenLogs == [file : LogFiles \cup {Stderr}, gen : 0 .. MaxRotations]

ASSUME LogAssumption ==
  /\ DomainIds \subseteq Nat \ {0} /\ 1 \in DomainIds
  /\ 1 \in LogRecords /\ Stderr \notin LogFiles /\ MaxRotations \in Nat
  /\ NoDomain \notin DomainRecords /\ NoLog \notin OpenLogs

NoLine == [file |-> FALSE, stderr |-> 0]

LogInit == /\ domains = <<1>>
           /\ domain = [id \in DomainIds |->
                          IF id = 1 THEN [name |-> "core", level |-> DefaultLevel] ELSE NoDomain]
           /\ logs = <<1>>
           /\ log = [r \in LogRecords |-> IF r = 1 THEN [file |-> Stderr, gen |-> 0] ELSE NoLog]
           /\ held = [m \in DomainNames |-> 0] /\ orphaned = {}
           /\ disk = [f \in LogFiles |-> 0]
           /\ rotated = {}
           /\ line = NoLine

-----------------------------------------------------------------------------
(* Domains                                                                 *)

UsedIds == {id \in DomainIds : domain[id] # NoDomain}

\* The first of the list with that name, or 0.
FindDomain(name) ==
  LET found == {i \in DOMAIN domains : domain[domains[i]].name = name}
  IN  IF found = {} THEN 0 ELSE domains[Min(found)]

\* Which free record the pool hands out does not matter here.
AddDomainAs(id, name, level) ==
  /\ id \notin UsedIds
  /\ domains' = Append(domains, id)
  /\ domain' = [domain EXCEPT ![id] = [name |-> name, level |-> level]]

AddDomain(id, name, level) == /\ AddDomainAs(id, name, level)
                              /\ UNCHANGED <<logs, log, held, orphaned, disk, rotated, line>>

\* A list without one of its elements, which is there once.
ListWithout(list, x) == RemoveAt(list, CHOOSE i \in DOMAIN list : list[i] = x)

\* The modules that have the id are not told, and keep it.
RemoveDomain(id) == /\ id \in UsedIds \ {1}
                    /\ domains' = ListWithout(domains, id)
                    /\ domain' = [domain EXCEPT ![id] = NoDomain]
                    /\ orphaned' = orphaned \cup {m \in DomainNames : held[m] = id}
                    /\ UNCHANGED <<logs, log, held, disk, rotated, line>>

SetDomainLevel(id, level) == /\ id \in UsedIds
                             /\ domain' = [domain EXCEPT ![id].level = level]
                             /\ UNCHANGED <<domains, logs, log, held, orphaned, disk, rotated, line>>

\* (seeded fault: a module that has an id keeps it)
InstallDomainOnce(m, level) ==
  /\ \/ /\ held[m] # 0
        /\ UNCHANGED <<domains, domain, held>>
     \/ /\ held[m] = 0
        /\ \E id \in DomainIds : /\ AddDomainAs(id, m, level)
                                 /\ held' = [held EXCEPT ![m] = id]
  /\ orphaned' = orphaned \ {m}
  /\ UNCHANGED <<logs, log, disk, rotated, line>>

\* A domain of that name is used again, with the new level.
InstallDomain(m, level) ==
  /\ \/ /\ FindDomain(m) # 0
        /\ domain' = [domain EXCEPT ![FindDomain(m)].level = level]
        /\ held' = [held EXCEPT ![m] = FindDomain(m)]
        /\ UNCHANGED domains
     \/ /\ FindDomain(m) = 0
        /\ \E id \in DomainIds : /\ AddDomainAs(id, m, level)
                                 /\ held' = [held EXCEPT ![m] = id]
  /\ orphaned' = orphaned \ {m}
  /\ UNCHANGED <<logs, log, disk, rotated, line>>

\* The first domain of each name of the mask; all of them without a mask.
SetMaskLevel(ids, level) ==
  /\ domain' = [id \in DomainIds |-> IF id \in ids /\ id \in UsedIds
                                     THEN [domain[id] EXCEPT !.level = level] ELSE domain[id]]
  /\ UNCHANGED <<domains, logs, log, held, orphaned, disk, rotated, line>>

\* ogs_log_config_domain(mask, level): nothing without both; the default
\* level without a level; nothing but an error for a word that is no level.
ConfigDomain ==
  \/ \E level \in LogLevels : SetMaskLevel(DomainIds, level)
  \/ \E names \in SUBSET DomainNames \ {{}}, level \in LogLevels \cup {DefaultLevel} :
       SetMaskLevel({FindDomain(m) : m \in names}, level)

-----------------------------------------------------------------------------
(* Logs                                                                    *)

AddLog(r, file) == /\ r \in LogRecords /\ log[r] = NoLog
                   /\ logs' = Append(logs, r)
                   /\ log' = [log EXCEPT ![r] = [file |-> file,
                                gen |-> IF file = Stderr THEN 0 ELSE disk[file]]]
                   /\ UNCHANGED <<domains, domain, held, orphaned, disk, rotated, line>>

RemoveLog(r) == /\ log[r] # NoLog
                /\ logs' = ListWithout(logs, r)
                /\ log' = [log EXCEPT ![r] = NoLog]
                /\ UNCHANGED <<domains, domain, held, orphaned, disk, rotated, line>>

\* Something outside renames a log file.
Rotate(f) == /\ disk[f] < MaxRotations
             /\ disk' = [disk EXCEPT ![f] = @ + 1]
             /\ rotated' = rotated \cup {f}
             /\ UNCHANGED <<domains, domain, logs, log, held, orphaned, line>>

\* ogs_log_cycle: each file is closed and opened again by its name.
Cycle == /\ log' = [r \in LogRecords |->
                      IF log[r] = NoLog \/ log[r].file = Stderr THEN log[r]
                      ELSE [log[r] EXCEPT !.gen = disk[log[r].file]]]
         /\ rotated' = {}
         /\ UNCHANGED <<domains, domain, logs, held, orphaned, disk, line>>

\* ogs_log_vprintf.  Without any log, domain and level are not looked at;
\* else its assertion ends the process for an id that is not in use.  One
\* that is in use again prints as the domain that has it now.
Printf(id, level) ==
  /\ logs # <<>> => id \in UsedIds
  /\ LET passes == logs = <<>> \/ domain[id].level >= level
         errs == {r \in ToSet(logs) : log[r].file = Stderr}
     IN  line' = IF ~passes THEN NoLine
                 ELSE [file |-> errs # ToSet(logs),
                       stderr |-> IF errs = {} THEN 1 ELSE Cardinality(errs)]
  /\ UNCHANGED <<domains, domain, logs, log, held, orphaned, disk, rotated>>

\* ogs_log_final and ogs_log_init: the logs go first, so that what is printed
\* in between meets no domain.  Modules keep their ids.
LogFinal == /\ logs # <<>> \/ domains # <<>>
            /\ logs' = <<>> /\ log' = [r \in LogRecords |-> NoLog]
            /\ domains' = <<>> /\ domain' = [id \in DomainIds |-> NoDomain]
            /\ orphaned' = {m \in DomainNames : held[m] # 0}
            /\ rotated' = {} /\ line' = NoLine
            /\ UNCHANGED <<held, disk>>

LogInitAgain ==
  /\ domains = <<>>
  /\ domains' = <<1>>
  /\ domain' = [domain EXCEPT ![1] = [name |-> "core", level |-> DefaultLevel]]
  /\ logs' = <<1>> /\ log' = [log EXCEPT ![1] = [file |-> Stderr, gen |-> 0]]
  /\ UNCHANGED <<held, orphaned, disk, rotated, line>>

LogNext ==
  \/ domains # <<>> /\
       (\/ \E id \in DomainIds, level \in LogLevels :
             SetDomainLevel(id, level) \/ \E m \in DomainNames : AddDomain(id, m, level)
        \/ \E id \in DomainIds : RemoveDomain(id)
        \/ \E m \in DomainNames, level \in LogLevels : InstallDomain(m, level)
        \/ ConfigDomain
        \/ \E r \in LogRecords : RemoveLog(r) \/ \E f \in LogFiles \cup {Stderr} : AddLog(r, f)
        \/ Cycle \/ LogFinal)
  \/ \E f \in LogFiles : Rotate(f)
  \/ \E level \in LogLevels, id \in ({1} \cup {held[m] : m \in DomainNames}) \ {0} :
       Printf(id, level)
  \/ LogInitAgain

-----------------------------------------------------------------------------
(* Properties                                                              *)

\* The domains in the list are those in use, each once; the id of a module is
\* that of a domain of its name until that domain is removed, whatever other
\* domains come and go, so that until then the assertion of ogs_log_vprintf
\* does not fail and its lines have its name; every file log writes to the
\* file that its name stands for, however many were moved and how often,
\* unless that was after the last ogs_log_cycle; and a line that gets to a
\* file gets to standard error, which need not be a log.
LogSound ==
  /\ IsInjective(domains) /\ ToSet(domains) = UsedIds
  /\ IsInjective(logs) /\ ToSet(logs) = {r \in LogRecords : log[r] # NoLog}
  /\ \A m \in DomainNames \ orphaned :
       held[m] # 0 => held[m] \in UsedIds /\ domain[held[m]].name = m
  /\ \A r \in ToSet(logs) : log[r].file \in LogFiles \ rotated => log[r].gen = disk[log[r].file]
  /\ line.file => line.stderr > 0
=============================================================================
