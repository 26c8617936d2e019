--------------------------- MODULE OperationsProofs ---------------------------
(***************************************************************************)
(* The operators' programs, for any tables, consumers, changes, claims and  *)
(* models: what a program that ends well has established, whatever earlier  *)
(* runs left half done and whatever went on around it.                      *)
(*                                                                         *)
(* First the synced tables and the two service principals' setups, then the *)
(* bootstrap and the refreshes, then the corpus of precedents, then the     *)
(* fraud graph.                                                             *)
(***************************************************************************)
EXTENDS SyncedTables, Refresh, PriorClaims, HeatClusters,
        Recursions, SequenceTheorems, FiniteSetTheorems, TLAPS

-----------------------------------------------------------------------------
(* Tables, grants and principals *)

\* What is left to a program: tables, or statements of the re-grant.
Leavings == SUBSET (Tables \cup (Consumers \X Tables))
Stages ==
    {"idle", "create", "delete", "drop", "wait", "index", "regrant", "granting", "update",
     "principal", "role", "grant", "secrets", "secret"}
Names == {"none", "create", "recreate", "resync", "setup"}
Kinds == {"none", "failed", "nothing", "readable", "skipped", "resynced"}
Programs ==
    [name : Names,
     at : Stages, left : Leavings,
     made : SUBSET Tables, known : SUBSET Consumers]
Reports == [kind : Kinds, of : SUBSET Consumers]

CatalogShape ==
    /\ synced \in [Tables -> {"none", "syncing", "online", "failed"}]
    /\ postgres \subseteq Tables
    /\ indexed \subseteq postgres \cap {Corpus}
    /\ grants \in [Consumers -> SUBSET postgres]

IdentityShape ==
    /\ principal \in [id : 0 .. MaxPrincipals, exists : BOOLEAN]
    /\ endpoint \in [role : 0 .. MaxPrincipals, clientId : 0 .. MaxPrincipals,
                     dbUser : 0 .. MaxPrincipals, secretOf : 0 .. MaxPrincipals]

ProgramShape == program \in Programs /\ report \in Reports

\* A program at work has reported nothing yet.
OneAtWork == report.kind # "none" => program = NoProgram

\* What a program has got to tells which tables are there: one that is dropped is not synced,
\* and one that has been waited for is in Postgres.
CatalogKept ==
    /\ \A t \in Tables : synced[t] = "online" => t \in postgres
    /\ program.at \in {"create", "delete", "drop", "wait", "update"} => program.left \subseteq Tables
    /\ program.at = "drop" => \A t \in program.left : synced[t] = "none"
    /\ program.at = "wait" => program.made \ program.left \subseteq postgres
    /\ program.at \in {"index", "regrant", "granting"} => program.made \subseteq postgres

\* Each statement of the re-grant is one it has left, or has been run; a setup has granted,
\* noted as skipped or still to grant every table of its consumer.
GrantsKept ==
    /\ program.at = "granting" =>
         /\ program.left \subseteq Consumers \X Tables
         /\ \A c \in Consumers : \A t \in TablesOf[c] : <<c, t>> \in program.left \/ t \in grants[c]
    /\ program.at \in {"principal", "role", "secrets", "secret"} => program.known = {"serving"}
    /\ program.at = "grant" => program.known \in {{"app"}, {"serving"}}
    /\ program.at \in {"principal", "role", "grant", "secrets", "secret"} =>
         \A c \in program.known : TablesOf[c] \subseteq program.left \cup program.made \cup grants[c]
    /\ program.at \in {"principal", "role", "grant"} => program.left \subseteq Tables
    /\ program.at \in {"secrets", "secret"} => program.left = {}

\* A secret is the role's principal's; once past the role, the setup is that principal's, and so
\* are the ids when they have been written.
CredentialsKept ==
    /\ endpoint.secretOf \in {0, endpoint.role}
    /\ program.at = "grant" /\ program.known = {"serving"} => endpoint.role = principal.id
    /\ program.at \in {"secrets", "secret"} => endpoint.role = principal.id
    /\ program.at = "secret" => endpoint.clientId = principal.id /\ endpoint.dbUser = principal.id

TablesInv ==
    /\ CatalogShape /\ IdentityShape /\ ProgramShape
    /\ OneAtWork /\ CatalogKept /\ GrantsKept /\ CredentialsKept
    /\ SuccessMeansReadable

\* While a pass has tables left, the next one is one of them.
LEMMA NextIsLeft ==
    ASSUME program.left # {}, program.left \subseteq Tables
    PROVE  NextTable \in program.left
<1> DEFINE Place == {n \in DOMAIN TableOrder : TableOrder[n] \in program.left}
<1>1. Place \subseteq Nat /\ Place # {} /\ DOMAIN TableOrder = 1 .. Len(TableOrder)
  BY SyncedTablesAssumption DEF Tables
<1>2. PICK n \in Place : \A m \in Place : n <= m
  BY <1>1, Least
<1>3. \A m \in 1 .. n - 1 : TableOrder[m] \notin program.left
  BY <1>1, <1>2
<1> QED BY <1>2, <1>3 DEF NextTable

\* What depends on no variable is the same after a step.
LEMMA Constants == Programs' = Programs /\ Reports' = Reports /\ Consumers' = Consumers /\ Tables' = Tables
BY DEF Programs, Reports, Leavings, Tables, Consumers, Stages, Kinds, Names

\* No program at work, and nothing reported.
LEMMA Resting == NoProgram \in Programs /\ NoReport \in Reports
BY DEF Programs, Reports, NoProgram, NoReport, Leavings, Stages, Names, Kinds

\* A program that begins is a program with nothing done ...
LEMMA Begun ==
    ASSUME NEW name \in Names, NEW at \in Stages, NEW left \in Leavings,
           NEW known \in SUBSET Consumers, Begin(name, at, left, {}, known)
    PROVE  /\ ProgramShape' /\ program = NoProgram
           /\ program'.at = at /\ program'.left = left
           /\ program'.made = {} /\ program'.known = known
           /\ report' = NoReport /\ report'.kind = "none"
<1>1. program' \in Programs
  BY DEF Begin, Programs
<1> QED BY <1>1, Resting, Constants DEF Begin, ProgramShape, NoReport

\* ... one that goes on keeps what it has done ...
LEMMA GoneOn ==
    ASSUME ProgramShape, NEW at \in Stages, NEW left \in Leavings, Proceeds(at, left)
    PROVE  /\ ProgramShape'
           /\ program'.at = at /\ program'.left = left
           /\ program'.made = program.made /\ program'.known = program.known
           /\ report' = report
<1>1. program' \in Programs
  BY DEF Proceeds, Programs, ProgramShape
<1> QED BY <1>1, Constants DEF Proceeds, ProgramShape, Programs

\* ... and one that ends leaves its report.
LEMMA Ended ==
    ASSUME NEW kind \in Kinds, NEW of \in SUBSET Consumers, Ends(kind, of)
    PROVE  /\ ProgramShape'
           /\ program' = NoProgram /\ program'.at = "idle"
           /\ report' = [kind |-> kind, of |-> of] /\ report'.kind = kind /\ report'.of = of
<1>1. report' \in Reports
  BY DEF Ends, Reports
<1> QED BY <1>1, Resting, Constants DEF Ends, ProgramShape, NoProgram

\* What a program has left, made and known, and any part of what it has left.
LEMMA Fields ==
    ASSUME ProgramShape
    PROVE  /\ program.left \in Leavings /\ \A x : program.left \ x \in Leavings
      /\ program.made \in SUBSET Tables /\ program.made \in Leavings
      /\ program.known \in SUBSET Consumers
BY DEF ProgramShape, Programs, Leavings

\* A program that strikes something off what it has left and notes it.
LEMMA Noted ==
    ASSUME ProgramShape, NEW left \in Leavings, NEW made \in SUBSET Tables,
           program' = [program EXCEPT !.left = left, !.made = made], UNCHANGED report
    PROVE  /\ ProgramShape'
           /\ program'.at = program.at /\ program'.left = left
           /\ program'.made = made /\ program'.known = program.known
<1>1. program' \in Programs
  BY DEF Programs, ProgramShape
<1> QED BY <1>1, Constants DEF ProgramShape, Programs

\* Whatever a program does, it is left with tables or statements it knows of.
LEMMA ProgramStep ==
    ASSUME TablesInv, TablesNext
    PROVE  ProgramShape'
<1>0. ProgramShape /\ CatalogKept /\ GrantsKept
  BY DEF TablesInv
<1>1. \A left \in SUBSET Tables : left \in Leavings
  BY DEF Leavings
<1> USE SyncedTablesAssumption, <1>0, <1>1, Begun, GoneOn, Ended, Fields DEF Stages, Kinds, Names
<1>2. CASE BeginCreate \/ CreatedAll \/ BeginRecreate \/ BeginResync
  <2>1. CASE BeginCreate
    BY <2>1 DEF BeginCreate
  <2>2. CASE CreatedAll
    BY <2>2 DEF CreatedAll
  <2>3. CASE BeginRecreate
    BY <2>3 DEF BeginRecreate
  <2>4. CASE BeginResync
    BY <2>4 DEF BeginResync
  <2> QED BY <1>2, <2>1, <2>2, <2>3, <2>4
<1>3. CASE DeleteSynced \/ DropTable \/ WaitForOnline \/ BuildIndexes
  BY <1>3 DEF DeleteSynced, DropTable, WaitForOnline, BuildIndexes
<1>4. CASE Regrant \/ ResyncTable
  BY <1>4 DEF Regrant, ResyncTable
<1>5. CASE EnsureServicePrincipal \/ EnsureLakebaseRole \/ PutIds \/ EnsureSecret \/ StopProgram
  BY <1>5 DEF EnsureServicePrincipal, EnsureLakebaseRole, PutIds, EnsureSecret, StopProgram
<1>6. CASE CreateTable
  <2>1. program.left \subseteq Tables
    BY <1>6 DEF CreateTable, CatalogKept
  <2>2. NextTable \in Tables
    BY <1>6, <2>1, NextIsLeft DEF CreateTable
  <2> DEFINE made == IF synced[NextTable] = "none" THEN program.made \cup {NextTable} ELSE program.made
  <2>3. made \in SUBSET Tables
    BY <2>2
  <2>4. program' = [program EXCEPT !.left = program.left \ {NextTable}, !.made = made] /\ UNCHANGED report
    BY <1>6 DEF CreateTable
  <2> QED BY <2>3, <2>4, Noted
<1>7. CASE BeginRegrant
  <2>1. ResolvedConsumers \subseteq Consumers
    BY DEF ResolvedConsumers
  <2>2. \A g \in UNION {{c} \X TablesOf[c] : c \in ResolvedConsumers} : g \in Consumers \X Tables
    BY <2>1
  <2>3. (UNION {{c} \X TablesOf[c] : c \in ResolvedConsumers}) \in Leavings
    BY <2>2 DEF Leavings
  <2> QED BY <1>7, <2>3 DEF BeginRegrant
<1>8. CASE BeginSetup
  <2>1. PICK c \in Consumers : Begin("setup", IF c = "serving" THEN "principal" ELSE "grant", TablesOf[c], {}, {c})
    BY <1>8 DEF BeginSetup
  <2>2. TablesOf[c] \in Leavings /\ {c} \in SUBSET Consumers
    OBVIOUS
  <2> QED BY <2>1, <2>2
<1>9. CASE ApplyGrants
  <2>1. CASE program.left # {}
    <3>1. PICK t \in program.left : /\ program' = [program EXCEPT !.left = @ \ {t},
                                            !.made = IF t \in postgres THEN @ ELSE @ \cup {t}]
              /\ UNCHANGED report
      BY <1>9, <2>1 DEF ApplyGrants
    <3>2. t \in Tables
      BY <1>9 DEF GrantsKept, ApplyGrants
    <3> DEFINE made == IF t \in postgres THEN program.made ELSE program.made \cup {t}
    <3>3. made \in SUBSET Tables /\ program' = [program EXCEPT !.left = program.left \ {t}, !.made = made]
      BY <3>1, <3>2
    <3> QED BY <3>1, <3>3, Noted
  <2>2. CASE program.left = {}
    BY <1>9, <2>2 DEF ApplyGrants
  <2> QED BY <2>1, <2>2
<1>10. CASE InitialSync \/ DeletePrincipal
  BY <1>10, Constants DEF InitialSync, DeletePrincipal, ProgramShape
<1> QED BY <1>2, <1>3, <1>4, <1>5, <1>6, <1>7, <1>8, <1>9, <1>10 DEF TablesNext

\* No grant or index outlives its table: what Postgres drops takes them along.
LEMMA CatalogShapeStep ==
    ASSUME TablesInv, TablesNext
    PROVE  CatalogShape'
<1>1. CatalogShape /\ ProgramShape /\ CatalogKept /\ GrantsKept
  BY DEF TablesInv
<1> USE SyncedTablesAssumption, <1>1, Constants DEF CatalogShape
<1>2. CASE CreateTable
  BY <1>2 DEF CreateTable
<1>3. CASE DeleteSynced
  BY <1>3 DEF DeleteSynced
<1>4. CASE DropTable
  <2>1. postgres' \subseteq Tables /\ indexed' \subseteq postgres' \cap {Corpus} /\ synced' = synced
    BY <1>4 DEF DropTable
  <2>2. grants' \in [Consumers -> SUBSET postgres']
    BY <1>4 DEF DropTable
  <2> QED BY <2>1, <2>2
<1>5. CASE BuildIndexes
  BY <1>5 DEF BuildIndexes
<1>6. CASE Regrant
  <2>1. synced' = synced /\ postgres' = postgres /\ indexed' = indexed
    BY <1>6 DEF Regrant
  <2>2. CASE UNCHANGED grants
    BY <2>1, <2>2
  <2>3. CASE \E c, t : t \in postgres /\ grants' = [grants EXCEPT ![c] = @ \cup {t}]
    BY <2>1, <2>3
  <2>4. \/ UNCHANGED grants
        \/ \E g \in program.left : g[2] \in postgres /\ grants' = [grants EXCEPT ![g[1]] = @ \cup {g[2]}]
    BY <1>6 DEF Regrant
  <2> QED BY <2>2, <2>3, <2>4
<1>7. CASE ResyncTable
  <2>1. program.left \subseteq Tables
    BY <1>7 DEF ResyncTable, CatalogKept
  <2> QED BY <1>7, <2>1 DEF ResyncTable, CatalogKept, Online
<1>8. CASE ApplyGrants
  <2>1. synced' = synced /\ postgres' = postgres /\ indexed' = indexed
    BY <1>8 DEF ApplyGrants
  <2>2. CASE UNCHANGED grants
    BY <2>1, <2>2
  <2>3. CASE \E c, t : t \in postgres /\ grants' = [grants EXCEPT ![c] = @ \cup {t}]
    BY <2>1, <2>3
  <2> QED BY <1>8, <2>2, <2>3 DEF ApplyGrants
<1>9. CASE InitialSync
  <2>1. postgres \subseteq postgres' /\ postgres' \subseteq Tables
    BY <1>9 DEF InitialSync
  <2>2. grants' \in [Consumers -> SUBSET postgres']
    BY <1>9, <2>1 DEF InitialSync
  <2> QED BY <1>9, <2>1, <2>2 DEF InitialSync
<1>10. CASE UNCHANGED catalogVars
  BY <1>10 DEF catalogVars
<1>11. BeginCreate \/ CreatedAll \/ BeginRecreate \/ WaitForOnline \/ BeginRegrant
       => UNCHANGED catalogVars
  BY DEF BeginCreate, CreatedAll, BeginRecreate, WaitForOnline, BeginRegrant, catalogVars
<1>12. BeginResync \/ BeginSetup \/ EnsureServicePrincipal \/ EnsureLakebaseRole \/ PutIds
       => UNCHANGED catalogVars
  BY DEF BeginResync, BeginSetup, EnsureServicePrincipal, EnsureLakebaseRole, PutIds, catalogVars
<1>13. EnsureSecret \/ StopProgram \/ DeletePrincipal => UNCHANGED catalogVars
  BY DEF EnsureSecret, StopProgram, DeletePrincipal, catalogVars
<1> QED
  BY <1>2, <1>3, <1>4, <1>5, <1>6, <1>7, <1>8, <1>9, <1>10, <1>11, <1>12, <1>13 DEF TablesNext

\* Principals are numbered as they are made.
LEMMA IdentityStep ==
    ASSUME TablesInv, TablesNext
    PROVE  IdentityShape'
<1>1. IdentityShape
  BY DEF TablesInv
<1> USE SyncedTablesAssumption, <1>1 DEF IdentityShape
<1>2. CASE EnsureServicePrincipal
  BY <1>2 DEF EnsureServicePrincipal
<1>3. CASE EnsureLakebaseRole
  <2>1. endpoint' = endpoint \/ endpoint' = [endpoint EXCEPT !.role = principal.id]
    BY <1>3 DEF EnsureLakebaseRole
  <2> QED BY <1>3, <2>1 DEF EnsureLakebaseRole
<1>4. CASE PutIds
  BY <1>4 DEF PutIds
<1>5. CASE EnsureSecret
  BY <1>5 DEF EnsureSecret
<1>6. CASE DeletePrincipal
  BY <1>6 DEF DeletePrincipal
<1>7. CASE UNCHANGED identityVars
  BY <1>7 DEF identityVars
<1> QED
  BY <1>2, <1>3, <1>4, <1>5, <1>6, <1>7
     DEF TablesNext, BeginCreate, CreateTable, CreatedAll, BeginRecreate, DeleteSynced, DropTable,
         WaitForOnline, BuildIndexes, BeginRegrant, Regrant, BeginResync, ResyncTable, BeginSetup,
         ApplyGrants, InitialSync, StopProgram

\* What a step keeps besides the shapes.
Kept == OneAtWork /\ CatalogKept /\ GrantsKept /\ CredentialsKept /\ SuccessMeansReadable

\* A program that goes on, or begins, reports nothing ...
LEMMA Quiet ==
    ASSUME report'.kind = "none", CatalogKept', GrantsKept', CredentialsKept'
    PROVE  Kept'
BY DEF Kept, OneAtWork, SuccessMeansReadable

\* ... and what one that ends reports is all there is to see of it.
LEMMA Done ==
    ASSUME program' = NoProgram, SuccessMeansReadable',
           \A t \in Tables : synced'[t] = "online" => t \in postgres',
           endpoint'.secretOf \in {0, endpoint'.role}
    PROVE  Kept'
<1>1. program'.at = "idle" /\ Tables' = Tables
  BY Constants DEF NoProgram
<1> QED BY <1>1 DEF Kept, OneAtWork, CatalogKept, GrantsKept, CredentialsKept

\* Tables may be left to a program.
LEMMA Left == \A left \in SUBSET Tables : left \in Leavings
BY DEF Leavings

\* A program at work has reported nothing.
LEMMA AtWork ==
    ASSUME OneAtWork, program.at # "idle"
    PROVE  program # NoProgram /\ report.kind = "none"
BY DEF OneAtWork, NoProgram

\* One that reports nothing readable leaves nothing to show.
LEMMA EndsQuietly ==
    ASSUME CatalogKept, CredentialsKept, NEW kind \in Kinds \ {"readable"}, NEW of, Ends(kind, of),
           UNCHANGED <<synced, postgres, endpoint>>
    PROVE  Kept'
<1>1. program' = NoProgram /\ report'.kind # "readable"
  BY DEF Ends
<1> QED BY <1>1, Done, Constants DEF CatalogKept, CredentialsKept, SuccessMeansReadable

\* Creating and recreating: what is waited for is in Postgres when it is indexed and granted.
LEMMA CreateKeeps ==
    ASSUME TablesInv,
           \/ BeginCreate \/ CreateTable \/ CreatedAll \/ BeginRecreate \/ DeleteSynced \/ DropTable
           \/ WaitForOnline \/ BuildIndexes
    PROVE  Kept'
<1>0. ProgramShape /\ OneAtWork /\ CatalogKept /\ GrantsKept /\ CredentialsKept /\ SuccessMeansReadable
  BY DEF TablesInv, Kept
<1> USE <1>0
<1>1. CASE BeginCreate
  <2>1. program'.at = "create" /\ program'.left = Tables /\ report'.kind = "none"
    BY <1>1 DEF BeginCreate, Begin, NoReport
  <2>2. /\ synced' = synced /\ postgres' = postgres
        /\ grants' = grants
        /\ endpoint' = endpoint /\ principal' = principal
    BY <1>1 DEF BeginCreate, catalogVars, identityVars
  <2>3. CatalogKept'
    BY <2>1, <2>2, Constants DEF CatalogKept
  <2>4. GrantsKept'
    BY <2>1, <2>2, Constants DEF GrantsKept
  <2>5. CredentialsKept'
    BY <2>1, <2>2 DEF CredentialsKept
  <2> QED BY <2>1, <2>2, <2>3, <2>4, <2>5, Quiet
<1>2. CASE BeginRecreate
  <2>0. PICK t \in Tables, known \in SUBSET Consumers : Begin("recreate", "delete", {t}, {}, known)
    BY <1>2 DEF BeginRecreate
  <2>1. program'.at = "delete" /\ program'.left \subseteq Tables /\ report'.kind = "none"
    BY <1>2, <2>0 DEF BeginRecreate, Begin, NoReport
  <2>2. /\ synced' = synced /\ postgres' = postgres
        /\ grants' = grants
        /\ endpoint' = endpoint /\ principal' = principal
    BY <1>2 DEF BeginRecreate, catalogVars, identityVars
  <2>3. CatalogKept'
    BY <2>1, <2>2, Constants DEF CatalogKept
  <2>4. GrantsKept'
    BY <2>1, <2>2, Constants DEF GrantsKept
  <2>5. CredentialsKept'
    BY <2>1, <2>2 DEF CredentialsKept
  <2> QED BY <2>1, <2>2, <2>3, <2>4, <2>5, Quiet
<1>3. CASE DeleteSynced
  <2>1. program'.at = "drop" /\ program'.left = program.left /\ report' = report
    BY <1>3, Fields, GoneOn DEF DeleteSynced, Stages
  <2>2. /\ program.at = "delete" /\ program.at # "idle"
        /\ postgres' = postgres /\ synced' = [t \in Tables |-> IF t \in program.left THEN "none" ELSE synced[t]]
        /\ grants' = grants
        /\ endpoint' = endpoint /\ principal' = principal
    BY <1>3 DEF DeleteSynced, catalogVars, identityVars
  <2>3. CatalogKept'
    BY <2>1, <2>2, Constants DEF CatalogKept
  <2>4. GrantsKept'
    BY <2>1, <2>2, Constants DEF GrantsKept
  <2>5. CredentialsKept'
    BY <2>1, <2>2 DEF CredentialsKept
  <2> QED BY <2>1, <2>2, <2>3, <2>4, <2>5, Quiet, AtWork
<1>4. CASE DropTable
  <2>1. program'.at = "create" /\ program'.left = program.left /\ report' = report
    BY <1>4, Fields, GoneOn DEF DropTable, Stages
  <2>2. /\ program.at = "drop" /\ program.at # "idle"
        /\ synced' = synced /\ postgres' = postgres \ program.left
        /\ endpoint' = endpoint /\ principal' = principal
    BY <1>4 DEF DropTable, catalogVars, identityVars
  <2>3. CatalogKept'
    BY <2>1, <2>2, Constants DEF CatalogKept
  <2>4. GrantsKept'
    BY <2>1, <2>2, Constants DEF GrantsKept
  <2>5. CredentialsKept'
    BY <2>1, <2>2 DEF CredentialsKept
  <2> QED BY <2>1, <2>2, <2>3, <2>4, <2>5, Quiet, AtWork
<1>5. CASE CreateTable
  <2>1. program.at = "create" /\ NextTable \in Tables
    BY <1>5, NextIsLeft DEF CreateTable, CatalogKept
  <2>2. /\ postgres' = postgres /\ grants' = grants
        /\ endpoint' = endpoint /\ principal' = principal /\ report' = report
        /\ \A t \in Tables : synced'[t] = synced[t] \/ synced'[t] = "syncing"
    BY <1>5 DEF CreateTable, identityVars
  <2>3. program'.at = "create" /\ program'.left \subseteq program.left
    <3> DEFINE made == IF synced[NextTable] = "none" THEN program.made \cup {NextTable} ELSE program.made
    <3>1. program' = [program EXCEPT !.left = program.left \ {NextTable}, !.made = made]
      BY <1>5 DEF CreateTable
    <3> QED BY <2>1, <3>1 DEF ProgramShape, Programs
  <2>4. CatalogKept'
    BY <2>1, <2>2, <2>3, Constants DEF CatalogKept
  <2>5. GrantsKept'
    BY <2>2, <2>3, Constants DEF GrantsKept
  <2>6. CredentialsKept'
    BY <2>2, <2>3 DEF CredentialsKept
  <2> QED BY <2>1, <2>2, <2>4, <2>5, <2>6, Quiet, AtWork
<1>6. CASE CreatedAll
  <2>1. /\ program.at = "create" /\ program.at # "idle"
        /\ synced' = synced /\ postgres' = postgres /\ grants' = grants
        /\ endpoint' = endpoint /\ principal' = principal
    BY <1>6 DEF CreatedAll, catalogVars, identityVars
  <2>2. CASE Ends("nothing", {})
    BY <2>1, <2>2, EndsQuietly DEF Kinds
  <2>3. CASE Proceeds("wait", program.made)
    <3>1. program'.at = "wait" /\ program'.left = program.made /\ program'.made = program.made /\ report' = report
      BY <2>3, Fields, GoneOn DEF Stages
    <3>2. CatalogKept'
      BY <2>1, <3>1, Fields, Constants DEF CatalogKept
    <3>3. GrantsKept' /\ CredentialsKept'
      BY <2>1, <3>1 DEF GrantsKept, CredentialsKept
    <3> QED BY <2>1, <3>1, <3>2, <3>3, Quiet, AtWork
  <2> QED BY <1>6, <2>2, <2>3 DEF CreatedAll
<1>7. CASE WaitForOnline
  <2>1. /\ program.at = "wait" /\ program.at # "idle"
        /\ synced' = synced /\ postgres' = postgres /\ grants' = grants
        /\ endpoint' = endpoint /\ principal' = principal
    BY <1>7 DEF WaitForOnline, catalogVars, identityVars
  <2>2. CASE Ends("failed", {})
    BY <2>1, <2>2, EndsQuietly DEF Kinds
  <2>3. CASE program.left = {} /\ Proceeds("index", program.made)
    <3>1. program'.at = "index" /\ program'.made = program.made /\ report' = report
      BY <2>3, Fields, GoneOn DEF Stages
    <3>2. CatalogKept'
      BY <2>1, <2>3, <3>1, Constants DEF CatalogKept
    <3>3. GrantsKept' /\ CredentialsKept'
      BY <2>1, <3>1 DEF GrantsKept, CredentialsKept
    <3> QED BY <2>1, <3>1, <3>2, <3>3, Quiet, AtWork
  <2>4. ASSUME NEW t \in program.left, Online(t), Proceeds("wait", program.left \ {t})
        PROVE  Kept'
    <3>1. program'.at = "wait" /\ program'.left = program.left \ {t} /\ program'.made = program.made /\ report' = report
      BY <2>4, Fields, GoneOn DEF Stages
    <3>2. t \in postgres
      BY <2>1, <2>4 DEF CatalogKept, Online
    <3>3. CatalogKept'
      BY <2>1, <3>1, <3>2, Constants DEF CatalogKept
    <3>4. GrantsKept' /\ CredentialsKept'
      BY <2>1, <3>1 DEF GrantsKept, CredentialsKept
    <3> QED BY <2>1, <3>1, <3>3, <3>4, Quiet, AtWork
  <2> QED BY <1>7, <2>2, <2>3, <2>4 DEF WaitForOnline
<1>8. CASE BuildIndexes
  <2>1. /\ program.at = "index" /\ program.at # "idle"
        /\ synced' = synced /\ postgres' = postgres /\ grants' = grants
        /\ endpoint' = endpoint /\ principal' = principal
    BY <1>8 DEF BuildIndexes, identityVars
  <2>2. CASE Ends("failed", {})
    BY <2>1, <2>2, EndsQuietly DEF Kinds
  <2>3. CASE Proceeds("regrant", {})
    <3>1. program'.at = "regrant" /\ program'.made = program.made /\ report' = report
      BY <2>3, Left, GoneOn DEF Stages
    <3>2. CatalogKept'
      BY <2>1, <3>1, Constants DEF CatalogKept
    <3>3. GrantsKept' /\ CredentialsKept'
      BY <2>1, <3>1 DEF GrantsKept, CredentialsKept
    <3> QED BY <2>1, <3>1, <3>2, <3>3, Quiet, AtWork
  <2> QED BY <1>8, <2>2, <2>3 DEF BuildIndexes
<1> QED BY <1>1, <1>2, <1>3, <1>4, <1>5, <1>6, <1>7, <1>8

\* A re-grant that ends well has run or struck off a statement for every table of a consumer.
LEMMA RegrantKeeps ==
    ASSUME TablesInv, BeginRegrant \/ Regrant
    PROVE  Kept'
<1>0. ProgramShape /\ CatalogShape /\ OneAtWork /\ CatalogKept /\ GrantsKept /\ CredentialsKept
  BY DEF TablesInv
<1> USE <1>0
<1>1. CASE BeginRegrant
  <2>1. /\ program.at = "regrant" /\ program.at # "idle"
        /\ synced' = synced /\ postgres' = postgres /\ grants' = grants
        /\ endpoint' = endpoint /\ principal' = principal
    BY <1>1 DEF BeginRegrant, catalogVars, identityVars
  <2>2. CASE Ends("failed", {})
    BY <2>1, <2>2, EndsQuietly DEF Kinds
  <2>3. ASSUME ResolvedConsumers # {},
               Proceeds("granting", UNION {{c} \X TablesOf[c] : c \in ResolvedConsumers})
        PROVE  Kept'
    <3> DEFINE all == UNION {{c} \X TablesOf[c] : c \in Consumers}
    <3>1. ResolvedConsumers = Consumers
      BY <2>3 DEF ResolvedConsumers
    <3>2. all \subseteq Consumers \X Tables /\ \A c \in Consumers : \A t \in TablesOf[c] : <<c, t>> \in all
      BY SyncedTablesAssumption
    <3>3. all \in Leavings
      BY <3>2 DEF Leavings
    <3>4. program'.at = "granting" /\ program'.left = all /\ program'.made = program.made /\ report' = report
      BY <2>3, <3>1, <3>3, GoneOn DEF Stages
    <3>5. CatalogKept'
      BY <2>1, <3>4, Constants DEF CatalogKept
    <3>6. GrantsKept' /\ CredentialsKept'
      BY <2>1, <3>2, <3>4, Constants DEF GrantsKept, CredentialsKept
    <3> QED BY <2>1, <3>4, <3>5, <3>6, Quiet, AtWork
  <2> QED BY <1>1, <2>2, <2>3 DEF BeginRegrant
<1>2. CASE Regrant
  <2>1. /\ program.at = "granting" /\ program.at # "idle"
        /\ synced' = synced /\ postgres' = postgres /\ endpoint' = endpoint /\ principal' = principal
    BY <1>2 DEF Regrant, identityVars
  <2>2. CASE Ends("failed", {})
    BY <2>1, <2>2, EndsQuietly DEF Kinds
  <2>3. ASSUME program.left = {}, Ends("readable", Consumers), UNCHANGED grants
        PROVE  Kept'
    <3>1. program' = NoProgram /\ report'.of = Consumers
      BY <2>3 DEF Ends
    <3>2. SuccessMeansReadable'
      BY <2>1, <2>3, <3>1 DEF SuccessMeansReadable, GrantsKept, Consumers
    <3> QED BY <2>1, <3>1, <3>2, Done, Constants DEF CatalogKept, CredentialsKept
  <2>4. ASSUME NEW g \in program.left, g[2] \in postgres,
               grants' = [grants EXCEPT ![g[1]] = @ \cup {g[2]}],
               Proceeds("granting", program.left \ {g})
        PROVE  Kept'
    <3>1. /\ program'.at = "granting" /\ program'.left = program.left \ {g}
          /\ program'.made = program.made /\ report' = report
      BY <2>4, Fields, GoneOn DEF Stages
    <3>2. PICK c \in Consumers, t \in Tables : g = <<c, t>>
      BY <2>1, <2>4 DEF GrantsKept
    <3>3. \A d \in Consumers : grants'[d] = IF d = c THEN grants[d] \cup {t} ELSE grants[d]
      BY <2>4, <3>2 DEF CatalogShape
    <3>4. GrantsKept'
      BY <2>1, <3>1, <3>2, <3>3, Constants, SyncedTablesAssumption DEF GrantsKept
    <3>5. CatalogKept' /\ CredentialsKept'
      BY <2>1, <3>1, Constants DEF CatalogKept, CredentialsKept
    <3> QED BY <2>1, <3>1, <3>4, <3>5, Quiet, AtWork
  <2> QED BY <1>2, <2>2, <2>3, <2>4 DEF Regrant
<1> QED BY <1>1, <1>2

\* A re-sync changes no table that is read.
LEMMA ResyncKeeps ==
    ASSUME TablesInv, BeginResync \/ ResyncTable
    PROVE  Kept'
<1>0. ProgramShape /\ OneAtWork /\ CatalogKept /\ GrantsKept /\ CredentialsKept
  BY DEF TablesInv
<1> USE <1>0
<1>1. CASE BeginResync
  <2>1. program'.at = "update" /\ program'.left \subseteq Tables /\ report'.kind = "none"
    BY <1>1 DEF BeginResync, Begin, NoReport
  <2>2. /\ synced' = synced /\ postgres' = postgres /\ grants' = grants
        /\ endpoint' = endpoint /\ principal' = principal
    BY <1>1 DEF BeginResync, catalogVars, identityVars
  <2>3. CatalogKept'
    BY <2>1, <2>2, Constants DEF CatalogKept
  <2>4. GrantsKept' /\ CredentialsKept'
    BY <2>1, <2>2 DEF GrantsKept, CredentialsKept
  <2> QED BY <2>1, <2>3, <2>4, Quiet
<1>2. CASE ResyncTable
  <2>1. /\ program.at = "update" /\ program.at # "idle"
        /\ synced' = synced /\ postgres' = postgres /\ grants' = grants
        /\ endpoint' = endpoint /\ principal' = principal
    BY <1>2 DEF ResyncTable, identityVars
  <2>2. CASE Ends("failed", {}) \/ Ends("resynced", {})
    BY <2>1, <2>2, EndsQuietly DEF Kinds
  <2>3. ASSUME NEW t \in program.left, Proceeds("update", program.left \ {t})
        PROVE  Kept'
    <3>1. program'.at = "update" /\ program'.left = program.left \ {t} /\ report' = report
      BY <2>3, Fields, GoneOn DEF Stages
    <3>2. CatalogKept'
      BY <2>1, <3>1, Constants DEF CatalogKept
    <3>3. GrantsKept' /\ CredentialsKept'
      BY <2>1, <3>1 DEF GrantsKept, CredentialsKept
    <3> QED BY <2>1, <3>1, <3>2, <3>3, Quiet, AtWork
  <2> QED BY <1>2, <2>2, <2>3 DEF ResyncTable
<1> QED BY <1>1, <1>2

\* A setup's step for its consumer: on the tables granted, skipped and still to do.
LEMMA SetupKeeps ==
    ASSUME TablesInv,
           \/ BeginSetup \/ EnsureServicePrincipal \/ EnsureLakebaseRole \/ ApplyGrants
           \/ PutIds \/ EnsureSecret
    PROVE  Kept'
<1>0. ProgramShape /\ CatalogShape /\ OneAtWork /\ CatalogKept /\ GrantsKept /\ CredentialsKept
  BY DEF TablesInv
<1> USE <1>0
<1>1. CASE BeginSetup
  <2>1. /\ synced' = synced /\ postgres' = postgres /\ grants' = grants
        /\ endpoint' = endpoint /\ principal' = principal
    BY <1>1 DEF BeginSetup, catalogVars, identityVars
  <2>2. PICK c \in Consumers :
          Begin("setup", IF c = "serving" THEN "principal" ELSE "grant", TablesOf[c], {}, {c})
    BY <1>1 DEF BeginSetup
  <2>3. /\ program'.at = IF c = "serving" THEN "principal" ELSE "grant"
        /\ program'.left = TablesOf[c] /\ program'.made = {} /\ program'.known = {c}
        /\ report'.kind = "none" /\ TablesOf[c] \subseteq Tables
    BY <2>2, SyncedTablesAssumption DEF Begin, NoReport
  <2>4. CASE c = "serving"
    BY <2>1, <2>3, <2>4, Quiet, Constants DEF CatalogKept, GrantsKept, CredentialsKept
  <2>5. CASE c = "app"
    BY <2>1, <2>3, <2>5, Quiet, Constants DEF CatalogKept, GrantsKept, CredentialsKept
  <2> QED BY <2>4, <2>5 DEF Consumers
<1>2. CASE EnsureServicePrincipal
  <2>1. /\ program.at = "principal" /\ program.at # "idle"
        /\ synced' = synced /\ postgres' = postgres /\ grants' = grants /\ endpoint' = endpoint
    BY <1>2 DEF EnsureServicePrincipal, catalogVars
  <2>2. /\ program'.at = "role" /\ program'.left = program.left /\ program'.made = program.made
        /\ program'.known = program.known /\ report' = report
    BY <1>2, Fields, GoneOn DEF EnsureServicePrincipal, Stages
  <2>3. CatalogKept' /\ CredentialsKept'
    BY <2>1, <2>2, Constants DEF CatalogKept, CredentialsKept
  <2>4. GrantsKept'
    BY <2>1, <2>2, Constants DEF GrantsKept
  <2> QED BY <2>1, <2>2, <2>3, <2>4, Quiet, AtWork
<1>3. CASE EnsureLakebaseRole
  <2>1. /\ program.at = "role" /\ program.at # "idle" /\ program.known = {"serving"}
        /\ synced' = synced /\ postgres' = postgres /\ grants' = grants /\ principal' = principal
    BY <1>3 DEF EnsureLakebaseRole, catalogVars, GrantsKept
  <2>2. CASE UNCHANGED endpoint /\ Ends("failed", {})
    BY <2>1, <2>2, EndsQuietly DEF Kinds
  <2>3. ASSUME Proceeds("grant", program.left),
               endpoint'.role = principal.id, endpoint'.secretOf \in {0, principal.id}
        PROVE  Kept'
    <3>1. /\ program'.at = "grant" /\ program'.left = program.left /\ program'.made = program.made
          /\ program'.known = program.known /\ report' = report
      BY <2>3, Fields, GoneOn DEF Stages
    <3>2. CatalogKept' /\ CredentialsKept'
      BY <2>1, <2>3, <3>1, Constants DEF CatalogKept, CredentialsKept
    <3>3. GrantsKept'
      BY <2>1, <3>1, Constants DEF GrantsKept
    <3> QED BY <2>1, <3>1, <3>2, <3>3, Quiet, AtWork
  <2>4. CASE endpoint.role = 0 /\ endpoint' = [endpoint EXCEPT !.role = principal.id] /\ Proceeds("grant", program.left)
    <3>1. endpoint'.role = principal.id /\ endpoint'.secretOf = endpoint.secretOf
      BY <2>4 DEF IdentityShape, TablesInv
    <3> QED BY <2>3, <2>4, <3>1 DEF CredentialsKept
  <2>5. CASE RoleMatches /\ UNCHANGED endpoint /\ Proceeds("grant", program.left)
    BY <2>3, <2>5 DEF RoleMatches, CredentialsKept
  <2> QED BY <1>3, <2>2, <2>4, <2>5 DEF EnsureLakebaseRole
<1>4. CASE ApplyGrants
  <2> DEFINE c == CHOOSE x \in program.known : TRUE
  <2>1. /\ program.at = "grant" /\ program.at # "idle"
        /\ synced' = synced /\ postgres' = postgres /\ endpoint' = endpoint /\ principal' = principal
    BY <1>4 DEF ApplyGrants, identityVars
  <2>2. c \in Consumers /\ program.known = {c}
    BY <2>1 DEF GrantsKept, Consumers
  <2>3. ASSUME NEW t \in program.left,
               grants' = IF t \in postgres THEN [grants EXCEPT ![c] = @ \cup {t}] ELSE grants,
               program' = [program EXCEPT !.left = @ \ {t},
                                          !.made = IF t \in postgres THEN @ ELSE @ \cup {t}],
               UNCHANGED report
        PROVE  Kept'
    <3>1. /\ program'.at = "grant" /\ program'.left = program.left \ {t}
          /\ program'.made = IF t \in postgres THEN program.made ELSE program.made \cup {t}
          /\ program'.known = {c}
      BY <2>1, <2>2, <2>3 DEF ProgramShape, Programs
    <3>2. grants'[c] = IF t \in postgres THEN grants[c] \cup {t} ELSE grants[c]
      BY <2>2, <2>3 DEF CatalogShape
    <3>3. TablesOf[c] \subseteq program.left \cup program.made \cup grants[c]
      BY <2>1, <2>2 DEF GrantsKept
    <3>4. TablesOf[c] \subseteq program'.left \cup program'.made \cup grants'[c]
      BY <3>1, <3>2, <3>3
    <3>5. GrantsKept'
      BY <2>1, <2>2, <3>1, <3>4, Constants DEF GrantsKept
    <3>6. CatalogKept' /\ CredentialsKept'
      BY <2>1, <2>2, <3>1, Constants DEF CatalogKept, CredentialsKept
    <3> QED BY <2>1, <2>3, <3>5, <3>6, Quiet, AtWork
  <2>4. ASSUME program.left = {}, UNCHANGED grants,
               IF c = "serving" THEN Proceeds("secrets", {})
               ELSE Ends(IF program.made = {} THEN "readable" ELSE "skipped", {c})
        PROVE  Kept'
    <3>1. TablesOf[c] \subseteq program.made \cup grants[c]
      BY <2>1, <2>2, <2>4 DEF GrantsKept
    <3>2. CASE c = "serving"
      <4>1. Proceeds("secrets", {})
        BY <2>4, <3>2
      <4>2. /\ program'.at = "secrets" /\ program'.left = {} /\ program'.made = program.made
            /\ program'.known = {"serving"} /\ report' = report
        BY <2>2, <3>2, <4>1, Left, GoneOn DEF Stages
      <4>3. CatalogKept' /\ CredentialsKept'
        BY <2>1, <2>2, <3>2, <4>2, Constants DEF CatalogKept, CredentialsKept
      <4>4. GrantsKept'
        BY <2>4, <3>1, <3>2, <4>2, Constants DEF GrantsKept
      <4> QED BY <2>1, <4>2, <4>3, <4>4, Quiet, AtWork
    <3>3. CASE c # "serving"
      <4>1. /\ program' = NoProgram /\ report'.of = {c}
            /\ report'.kind = "readable" => program.made = {}
        BY <2>4, <3>3 DEF Ends
      <4>2. {c} # {"serving"}
        BY <3>3
      <4>3. SuccessMeansReadable'
        BY <2>4, <3>1, <4>1, <4>2 DEF SuccessMeansReadable
      <4> QED BY <2>1, <4>1, <4>3, Done, Constants DEF CatalogKept, CredentialsKept
    <3> QED BY <3>2, <3>3
  <2> QED BY <1>4, <2>3, <2>4 DEF ApplyGrants
<1>5. CASE PutIds
  <2>1. /\ program.at = "secrets" /\ program.at # "idle" /\ program.known = {"serving"}
        /\ synced' = synced /\ postgres' = postgres /\ grants' = grants /\ principal' = principal
    BY <1>5 DEF PutIds, catalogVars, GrantsKept
  <2>2. /\ program'.at = "secret" /\ program'.left = {} /\ program'.made = program.made
        /\ program'.known = program.known /\ report' = report
    BY <1>5, Left, GoneOn DEF PutIds, Stages
  <2>3. /\ endpoint'.clientId = principal.id /\ endpoint'.dbUser = principal.id
        /\ endpoint'.role = endpoint.role /\ endpoint'.secretOf = endpoint.secretOf
    BY <1>5 DEF PutIds, TablesInv, IdentityShape
  <2>4. CatalogKept' /\ CredentialsKept'
    BY <2>1, <2>2, <2>3, Constants DEF CatalogKept, CredentialsKept
  <2>5. GrantsKept'
    BY <2>1, <2>2, Constants DEF GrantsKept
  <2> QED BY <2>1, <2>2, <2>4, <2>5, Quiet, AtWork
<1>6. CASE EnsureSecret
  <2>1. /\ program.at = "secret" /\ program.known = {"serving"} /\ program.left = {}
        /\ synced' = synced /\ postgres' = postgres /\ grants' = grants /\ principal' = principal
    BY <1>6 DEF EnsureSecret, catalogVars, GrantsKept
  <2>2. /\ endpoint'.clientId = endpoint.clientId /\ endpoint'.dbUser = endpoint.dbUser
        /\ endpoint'.role = endpoint.role
        /\ endpoint'.secretOf = IF endpoint.secretOf = 0 THEN principal.id ELSE endpoint.secretOf
    BY <1>6 DEF EnsureSecret, TablesInv, IdentityShape
  <2>3. /\ program' = NoProgram /\ report'.of = {"serving"}
        /\ report'.kind = "readable" => program.made = {}
    BY <1>6, <2>1 DEF EnsureSecret, Ends
  <2>4. TablesOf["serving"] \subseteq program.made \cup grants["serving"]
    BY <2>1 DEF GrantsKept
  <2>5. CredentialsAgree'
    BY <2>1, <2>2 DEF CredentialsAgree, CredentialsKept
  <2>6. SuccessMeansReadable'
    BY <2>1, <2>3, <2>4, <2>5 DEF SuccessMeansReadable
  <2> QED BY <2>1, <2>2, <2>3, <2>6, Done, Constants DEF CatalogKept, CredentialsKept
<1> QED BY <1>1, <1>2, <1>3, <1>4, <1>5, <1>6

\* A sync adds tables only; a program that is stopped reports nothing; a principal is deleted
\* between programs.
LEMMA EnvironmentKeeps ==
    ASSUME TablesInv, InitialSync \/ StopProgram \/ DeletePrincipal \/ UNCHANGED tableVars
    PROVE  Kept'
<1>0. /\ ProgramShape /\ OneAtWork /\ CatalogKept /\ GrantsKept /\ CredentialsKept
      /\ SuccessMeansReadable
  BY DEF TablesInv
<1> USE <1>0
<1>1. CASE InitialSync
  <2>1. /\ grants' = grants /\ endpoint' = endpoint /\ principal' = principal
        /\ program' = program /\ report' = report
    BY <1>1 DEF InitialSync, identityVars
  <2>2. PICK t \in Tables : synced[t] = "syncing" /\ \E s \in {"online", "failed"} :
          /\ synced' = [synced EXCEPT ![t] = s]
          /\ postgres' = IF s = "online" THEN postgres \cup {t} ELSE postgres
    BY <1>1 DEF InitialSync
  <2>3. CatalogKept'
    BY <2>1, <2>2, Constants DEF CatalogKept, TablesInv, CatalogShape
  <2> QED
    BY <2>1, <2>3, Constants
       DEF Kept, OneAtWork, GrantsKept, CredentialsKept, SuccessMeansReadable, CredentialsAgree
<1>2. CASE StopProgram
  BY <1>2, EndsQuietly DEF StopProgram, catalogVars, identityVars, Kinds
<1>3. CASE DeletePrincipal
  <2>1. /\ synced' = synced /\ postgres' = postgres /\ grants' = grants /\ endpoint' = endpoint
        /\ program' = NoProgram /\ program = NoProgram /\ report' = report
        /\ principal'.exists = FALSE
    BY <1>3 DEF DeletePrincipal, catalogVars, TablesInv, IdentityShape
  <2>2. SuccessMeansReadable'
    BY <2>1 DEF SuccessMeansReadable, CredentialsAgree
  <2> QED BY <2>1, <2>2, Done, Constants DEF CatalogKept, CredentialsKept
<1>4. CASE UNCHANGED tableVars
  BY <1>4, Constants
     DEF tableVars, catalogVars, identityVars, Kept, OneAtWork, CatalogKept, GrantsKept,
         CredentialsKept,
         SuccessMeansReadable, CredentialsAgree
<1> QED BY <1>1, <1>2, <1>3, <1>4

\* Nothing is there, and no program at work, at the start.
LEMMA TablesInitially == TablesInit => TablesInv
<1> SUFFICES ASSUME TablesInit PROVE TablesInv
  OBVIOUS
<1>1. CatalogShape /\ IdentityShape
  BY SyncedTablesAssumption DEF TablesInit, CatalogShape, IdentityShape
<1>2. ProgramShape
  BY Resting DEF TablesInit, ProgramShape
<1>3. program.at = "idle" /\ report.kind = "none"
  BY DEF TablesInit, NoProgram, NoReport
<1>4. CatalogKept /\ GrantsKept /\ CredentialsKept /\ OneAtWork /\ SuccessMeansReadable
  BY <1>3 DEF TablesInit, CatalogKept, GrantsKept, CredentialsKept, OneAtWork, SuccessMeansReadable
<1> QED BY <1>1, <1>2, <1>4 DEF TablesInv

\* Every step of a program, or of what goes on around it, keeps the invariant.
LEMMA TablesStep ==
    ASSUME TablesInv, [TablesNext]_tableVars
    PROVE  TablesInv'
<1>1. CASE TablesNext
  <2>1. CatalogShape' /\ IdentityShape' /\ ProgramShape'
    BY <1>1, CatalogShapeStep, IdentityStep, ProgramStep
  <2>2. Kept'
    BY <1>1, CreateKeeps, RegrantKeeps, ResyncKeeps, SetupKeeps, EnvironmentKeeps DEF TablesNext
  <2> QED BY <2>1, <2>2 DEF TablesInv, Kept
<1>2. CASE UNCHANGED tableVars
  <2>1. Kept'
    BY <1>2, EnvironmentKeeps
  <2>2. CatalogShape' /\ IdentityShape' /\ ProgramShape'
    BY <1>2, Constants
       DEF tableVars, catalogVars, identityVars, TablesInv, CatalogShape, IdentityShape,
           ProgramShape
  <2> QED BY <2>1, <2>2 DEF TablesInv, Kept
<1> QED BY <1>1, <1>2

\* The synced tables, their grants and the two principals keep their shapes; there is no
\* index or grant but on a table Postgres has (synced_tables.py, setup_serving_sp.py).
THEOREM TablesAlwaysTyped == TablesSpec => []TablesTypeOK
<1>1. TablesInv => TablesTypeOK
  <2> SUFFICES ASSUME TablesInv PROVE TablesTypeOK
    OBVIOUS
  <2>1. program.made \subseteq Tables /\ program.known \subseteq Consumers
    BY Fields DEF TablesInv
  <2> QED BY <2>1 DEF TablesInv, TablesTypeOK, CatalogShape, IdentityShape, CatalogKept
<1> QED BY <1>1, TablesInitially, TablesStep, PTL DEF TablesSpec

\* A program that reports its grants made leaves every table its consumers read readable, and
\* a setup an endpoint that can sign in, whichever earlier run failed between a table and its
\* grants, and whichever principal went (synced_tables.py: regrant; setup_serving_sp.py,
\* setup_app_sp.py: apply_grants, ensure_lakebase_role, ensure_secrets).
THEOREM SuccessAlwaysMeansReadable == TablesSpec => []SuccessMeansReadable
<1>1. TablesInv => SuccessMeansReadable
  BY DEF TablesInv
<1> QED BY <1>1, TablesInitially, TablesStep, PTL DEF TablesSpec

-----------------------------------------------------------------------------
(* Bootstrap and refresh *)

StepNames == {"generate", "seed", "create_cdf", "await_cdf", "fraud_graph", Medallion, "corpus",
              "resync", "backlog"}

\* A script has begun a feed's history at most once, and only with something in Lakebase; the
\* fact shows no risk that is not there.
FeedKept ==
    /\ feed.streaming => feed.configured /\ feed.landed >= 1
    /\ ~feed.streaming => feed.landed = 0
    /\ feed.configured => lake >= 1
    /\ fixtures = IF feed.streaming THEN 1 ELSE 0
    /\ fact.risk = 0 \/ fact.risk <= risk

\* What a bootstrap has come to before its k-th step.
BootstrapAt(k) ==
    /\ script.left = SubSeq(BootstrapSteps, k, 9) /\ script.allow
    /\ script.fresh /\ k <= 3 => ~feed.configured
    /\ k >= 3 => lake >= 1
    /\ k >= 5 => feed.streaming
    /\ k >= 6 => risk # None
    /\ k >= 7 => gold > 0
BootstrapKept == script.name = "bootstrap" => \E k \in 1 .. 9 : BootstrapAt(k)

\* And a refresh, of what had landed when it began.
RoutineAt(k) ==
    /\ script.left = SubSeq(RoutineSteps, k, 5)
    /\ k >= 2 => gold >= script.since /\ risk # None
    /\ k >= 3 => risk >= script.since
    /\ k >= 4 => precedents >= script.since
    /\ k >= 5 => reference.risk >= script.since /\ reference.precedents >= script.since
RoutineKept ==
    script.name \in {"routine", "demo"} =>
      script.left = <<"backlog">> \o RoutineSteps \/ \E k \in 1 .. 5 : RoutineAt(k)

ScriptShape ==
    /\ script.name \in {"none", "bootstrap", "routine", "demo"}
    /\ script.name = "none" => script = NoScript
    /\ script = [name |-> script.name, left |-> script.left, since |-> script.since,
                 allow |-> script.allow, fresh |-> script.fresh]
    /\ script.allow \in BOOLEAN
    /\ finished = [name |-> finished.name, since |-> finished.since]
    /\ fact = [claims |-> fact.claims, risk |-> fact.risk]
    /\ reference = [risk |-> reference.risk, precedents |-> reference.precedents]

RefreshInv ==
    /\ RefreshTypeOK /\ FeedKept /\ ScriptShape /\ BootstrapKept /\ RoutineKept
    /\ RefreshReachesEverything

\* The two scripts, of nine and of five steps ...
LEMMA StepsAre ==
    /\ BootstrapSteps \in Seq(StepNames) /\ Len(BootstrapSteps) = 9
    /\ RoutineSteps \in Seq(StepNames) /\ Len(RoutineSteps) = 5
BY DEF BootstrapSteps, RoutineSteps, StepNames

\* ... with each step at its place in the bootstrap ...
LEMMA BootstrapOrder ==
    \A k \in 1 .. 9 :
      /\ BootstrapSteps[k] = "generate" <=> k = 1
      /\ BootstrapSteps[k] = "seed" <=> k = 2
      /\ BootstrapSteps[k] = "create_cdf" <=> k = 3
      /\ BootstrapSteps[k] = "await_cdf" <=> k = 4
      /\ BootstrapSteps[k] = "fraud_graph" <=> k \in {5, 7}
      /\ BootstrapSteps[k] = Medallion <=> k \in {6, 9}
      /\ BootstrapSteps[k] = "corpus" <=> k = 8
      /\ BootstrapSteps[k] \notin {"resync", "backlog"}
BY DEF BootstrapSteps, Medallion

\* ... and in the refresh.
LEMMA RoutineOrder ==
    \A k \in 1 .. 5 :
      /\ RoutineSteps[k] = Medallion <=> k \in {1, 5}
      /\ RoutineSteps[k] = "fraud_graph" <=> k = 2
      /\ RoutineSteps[k] = "corpus" <=> k = 3
      /\ RoutineSteps[k] = "resync" <=> k = 4
      /\ RoutineSteps[k] \notin {"generate", "seed", "create_cdf", "await_cdf", "backlog"}
BY DEF RoutineSteps, Medallion

\* Before its k-th step a script has that step and those after it left.
LEMMA AtStep ==
    ASSUME NEW s \in Seq(StepNames), NEW k \in 1 .. Len(s), script.left = SubSeq(s, k, Len(s))
    PROVE  /\ script.left # <<>> /\ Step = s[k] /\ Len(script.left) = Len(s) - k + 1
           /\ k < Len(s) => Tail(script.left) = SubSeq(s, k + 1, Len(s))
<1>1. /\ Len(s) \in Nat /\ \A i \in 1 .. Len(s) : s[i] \in StepNames
  BY LenProperties
<1>2. Len(script.left) = Len(s) - k + 1 /\ script.left \in Seq(StepNames)
  BY <1>1, SubSeqProperties
<1>3. Head(script.left) = s[k] /\ Tail(script.left) = SubSeq(s, k + 1, Len(s))
  BY <1>1, HeadTailOfSubSeq
<1>4. script.left # <<>>
  <2>1. Len(script.left) # 0 /\ Len(<<>>) = 0
    BY <1>1, <1>2
  <2> QED BY <2>1, Zenon
<1> QED BY <1>2, <1>3, <1>4 DEF Step

\* A script that takes its k-th step has those after it left, or has ended.
LEMMA Advanced ==
    ASSUME ScriptShape, Advances,
           NEW s \in Seq(StepNames), NEW k \in 1 .. Len(s), script.left = SubSeq(s, k, Len(s))
    PROVE  IF k = Len(s)
           THEN script' = NoScript /\ finished' = [name |-> script.name, since |-> script.since]
           ELSE /\ script'.left = SubSeq(s, k + 1, Len(s)) /\ script'.name = script.name
                /\ script'.since = script.since /\ script'.allow = script.allow
                /\ script'.fresh = script.fresh
                /\ UNCHANGED finished
<1>1. Len(s) \in Nat
  BY LenProperties
<1>2. Len(script.left) = Len(s) - k + 1 /\ (k < Len(s) => Tail(script.left) = SubSeq(s, k + 1, Len(s)))
  BY AtStep
<1>3. CASE k = Len(s)
  BY <1>1, <1>2, <1>3 DEF Advances
<1>4. CASE k # Len(s)
  <2>1. Len(script.left) # 1 /\ k < Len(s)
    BY <1>1, <1>2, <1>4
  <2>2. script' = [script EXCEPT !.left = Tail(@)] /\ UNCHANGED finished
    BY <2>1 DEF Advances
  <2> QED BY <1>2, <1>4, <2>1, <2>2 DEF ScriptShape
<1> QED BY <1>3, <1>4

\* Nothing is derived, and no script at work, at the start.
LEMMA RefreshInitially == RefreshInit => RefreshInv
<1> SUFFICES ASSUME RefreshInit PROVE RefreshInv
  OBVIOUS
<1>1. RefreshTypeOK
  <2>1. lake \in 0 .. MaxChanges /\ fixtures \in Nat
    BY RefreshAssumption DEF RefreshInit
  <2>7. recorded \in BOOLEAN
    BY DEF RefreshInit
  <2>2. feed \in [configured : BOOLEAN, streaming : BOOLEAN, landed : 0 .. lake, records : BOOLEAN]
    BY DEF RefreshInit
  <2>3. gold \in 0 .. feed.landed /\ risk \in None .. gold /\ precedents \in None .. gold
    BY DEF RefreshInit, None
  <2>4. fact.claims \in 0 .. gold /\ fact.risk \in 0 .. fact.claims
    BY DEF RefreshInit, None
  <2>5. reference.risk \in None .. risk /\ reference.precedents \in None .. precedents
    BY DEF RefreshInit, None
  <2>6. script.since \in 0 .. feed.landed /\ finished.since \in 0 .. feed.landed
    BY DEF RefreshInit, NoScript
  <2> QED BY <2>1, <2>2, <2>3, <2>4, <2>5, <2>6, <2>7 DEF RefreshTypeOK
<1>2. FeedKept /\ ScriptShape /\ RefreshReachesEverything
  BY DEF RefreshInit, FeedKept, ScriptShape, RefreshReachesEverything, NoScript
<1>3. BootstrapKept /\ RoutineKept
  BY DEF RefreshInit, BootstrapKept, RoutineKept, NoScript
<1> QED BY <1>1, <1>2, <1>3 DEF RefreshInv

\* A script starts, is stopped, or goes on to its next step, or ends.
LEMMA Moved ==
    ASSUME ScriptShape, Advances
    PROVE  /\ \/ script' = NoScript /\ finished' = [name |-> script.name, since |-> script.since]
              \/ /\ script'.name = script.name /\ script'.since = script.since
                 /\ script'.allow = script.allow /\ script'.fresh = script.fresh
                 /\ UNCHANGED finished
           /\ script' = [name |-> script'.name, left |-> script'.left, since |-> script'.since,
                 allow |-> script'.allow, fresh |-> script'.fresh]
<1>1. CASE Len(script.left) = 1
  BY <1>1 DEF Advances, NoScript
<1>2. CASE Len(script.left) # 1
  BY <1>2 DEF Advances, ScriptShape
<1> QED BY <1>1, <1>2

\* What each step needs.
LEMMA ReadyFor ==
    ASSUME NEW allow
    PROVE  /\ Ready("seed", allow) <=> MaySeed
           /\ Ready("create_cdf", allow) <=> ~feed.configured
           /\ Ready(Medallion, allow) <=> MedallionReady(allow)
           /\ Ready("corpus", allow) <=> gold > 0
           /\ Ready("generate", allow) /\ Ready("await_cdf", allow) /\ Ready("fraud_graph", allow)
BY DEF Ready, Medallion

\* Before its k-th step a bootstrap takes that one only, and goes on to the next.
LEMMA AtBootstrap ==
    ASSUME ScriptShape, NEW k \in 1 .. 9, BootstrapAt(k)
    PROVE  /\ script.left # <<>> /\ Step = BootstrapSteps[k]
           /\ Advances =>
                IF k = 9
                THEN script' = NoScript /\ finished' = [name |-> script.name, since |-> script.since]
                ELSE /\ script'.left = SubSeq(BootstrapSteps, k + 1, 9)
                     /\ script'.name = script.name /\ script'.since = script.since
                     /\ script'.allow = script.allow /\ script'.fresh = script.fresh
                     /\ UNCHANGED finished
<1>1. /\ BootstrapSteps \in Seq(StepNames) /\ Len(BootstrapSteps) = 9
      /\ script.left = SubSeq(BootstrapSteps, k, 9)
  BY StepsAre DEF BootstrapAt
<1>2. script.left # <<>> /\ Step = BootstrapSteps[k]
  BY <1>1, AtStep
<1>3. ASSUME Advances
      PROVE  IF k = 9
             THEN script' = NoScript /\ finished' = [name |-> script.name, since |-> script.since]
             ELSE /\ script'.left = SubSeq(BootstrapSteps, k + 1, 9)
                  /\ script'.name = script.name /\ script'.since = script.since
                  /\ script'.allow = script.allow /\ script'.fresh = script.fresh
                  /\ UNCHANGED finished
  BY <1>1, <1>3, Advanced
<1> QED BY <1>2, <1>3

\* So does a refresh before its k-th ...
LEMMA AtRoutine ==
    ASSUME ScriptShape, NEW k \in 1 .. 5, RoutineAt(k)
    PROVE  /\ script.left # <<>> /\ Step = RoutineSteps[k]
           /\ Advances =>
                IF k = 5
                THEN script' = NoScript /\ finished' = [name |-> script.name, since |-> script.since]
                ELSE /\ script'.left = SubSeq(RoutineSteps, k + 1, 5)
                     /\ script'.name = script.name /\ script'.since = script.since
                     /\ UNCHANGED finished
<1>1. /\ RoutineSteps \in Seq(StepNames) /\ Len(RoutineSteps) = 5
      /\ script.left = SubSeq(RoutineSteps, k, 5)
  BY StepsAre DEF RoutineAt
<1>2. script.left # <<>> /\ Step = RoutineSteps[k]
  BY <1>1, AtStep
<1>3. ASSUME Advances
      PROVE  IF k = 5
             THEN script' = NoScript /\ finished' = [name |-> script.name, since |-> script.since]
             ELSE /\ script'.left = SubSeq(RoutineSteps, k + 1, 5)
                  /\ script'.name = script.name /\ script'.since = script.since
                  /\ UNCHANGED finished
  BY <1>1, <1>3, Advanced
<1> QED BY <1>2, <1>3

\* ... and the demo's before its backlog.
LEMMA AtBacklog ==
    ASSUME ScriptShape, script.left = <<"backlog">> \o RoutineSteps
    PROVE  /\ Step = "backlog"
           /\ Advances => /\ script'.left = SubSeq(RoutineSteps, 1, 5)
                          /\ script'.name = script.name /\ script'.since = script.since
                          /\ UNCHANGED finished
<1>1. /\ RoutineSteps \in Seq(StepNames) /\ Len(RoutineSteps) = 5
      /\ RoutineSteps = SubSeq(RoutineSteps, 1, 5)
  BY StepsAre, SubSeqFull
<1>2. /\ <<"backlog">> \in Seq(StepNames) /\ Len(<<"backlog">>) = 1 /\ <<"backlog">>[1] = "backlog"
  BY DEF StepNames
<1>3. /\ script.left \in Seq(StepNames) /\ Len(script.left) = 6 /\ script.left[1] = "backlog"
      /\ \A i \in 1 .. 5 : script.left[i + 1] = RoutineSteps[i]
  <2>1. /\ script.left \in Seq(StepNames) /\ Len(script.left) = 1 + 5
        /\ \A i \in 1 .. 1 + 5 : script.left[i] = IF i <= 1 THEN <<"backlog">>[i] ELSE RoutineSteps[i - 1]
    <3> DEFINE b == <<"backlog">>
    <3>1. b \in Seq(StepNames) /\ Len(b) = 1 /\ script.left = b \o RoutineSteps
      BY <1>2
    <3> HIDE DEF b
    <3>2. /\ b \o RoutineSteps \in Seq(StepNames) /\ Len(b \o RoutineSteps) = Len(b) + Len(RoutineSteps)
          /\ \A i \in 1 .. Len(b) + Len(RoutineSteps) :
               (b \o RoutineSteps)[i] = IF i <= Len(b) THEN b[i] ELSE RoutineSteps[i - Len(b)]
      BY <1>1, <3>1, ConcatProperties
    <3> QED BY <1>1, <3>1, <3>2 DEF b
  <2>2. ASSUME NEW i \in 1 .. 5 PROVE script.left[i + 1] = RoutineSteps[i]
    <3>1. i + 1 \in 1 .. 1 + 5 /\ ~(i + 1 <= 1) /\ (i + 1) - 1 = i
      OBVIOUS
    <3> QED BY <2>1, <3>1
  <2> QED BY <1>2, <2>1, <2>2
<1>4. script.left # <<>>
  <2>1. Len(script.left) # 0 /\ Len(<<>>) = 0
    BY <1>3
  <2> QED BY <2>1, Zenon
<1>5. Head(script.left) = "backlog" /\ Tail(script.left) = RoutineSteps
  <2>1. Head(script.left) = "backlog"
    BY <1>3
  <2>2. /\ Tail(script.left) \in Seq(StepNames) /\ Len(Tail(script.left)) = 5
        /\ \A i \in 1 .. 5 : Tail(script.left)[i] = RoutineSteps[i]
    BY <1>3, <1>4, HeadTailProperties
  <2> QED BY <1>1, <2>1, <2>2, SeqEqual
<1>6. ASSUME Advances
      PROVE  script' = [script EXCEPT !.left = RoutineSteps] /\ UNCHANGED finished
  BY <1>3, <1>5, <1>6 DEF Advances
<1> QED BY <1>1, <1>5, <1>6 DEF Step, ScriptShape

\* The feed is configured in a bootstrap alone, when the seed has been written.
LEMMA OnlyAfterSeed ==
    ASSUME ScriptShape, BootstrapKept, RoutineKept, Takes("create_cdf")
    PROVE  lake >= 1
<1>1. script.left # <<>> /\ Step = "create_cdf"
  BY DEF Takes
<1>2. script.name # "none"
  BY <1>1 DEF ScriptShape, NoScript
<1>3. script.name \notin {"routine", "demo"}
  <2>1. script.left # <<"backlog">> \o RoutineSteps
    BY <1>1, AtBacklog
  <2>2. ASSUME NEW k \in 1 .. 5, RoutineAt(k) PROVE FALSE
    BY <1>1, <2>2, AtRoutine, RoutineOrder
  <2> QED BY <2>1, <2>2 DEF RoutineKept
<1>4. PICK k \in 1 .. 9 : BootstrapAt(k)
  BY <1>2, <1>3 DEF ScriptShape, BootstrapKept
<1>5. k = 3
  BY <1>1, <1>4, AtBootstrap, BootstrapOrder
<1> QED BY <1>4, <1>5 DEF BootstrapAt

\* A step keeps the types: what it derives is what there was when it was taken.
LEMMA TypeStep ==
    ASSUME RefreshInv, [RefreshNext]_refreshVars
    PROVE  RefreshTypeOK' /\ FeedKept'
<1>0. RefreshTypeOK /\ FeedKept /\ ScriptShape
  BY DEF RefreshInv
<1>1. /\ lake \in Nat /\ lake <= MaxChanges /\ MaxChanges \in Nat /\ MaxChanges >= 1
      /\ feed.landed \in 0 .. lake /\ feed.configured \in BOOLEAN /\ feed.streaming \in BOOLEAN
      /\ feed.records \in BOOLEAN
      /\ feed = [configured |-> feed.configured, streaming |-> feed.streaming,
                 landed |-> feed.landed, records |-> feed.records]
  BY <1>0, RefreshAssumption DEF RefreshTypeOK
<1>2. CASE Bootstrap
  BY <1>0, <1>2 DEF Bootstrap, Start, sourceVars, derivedVars, RefreshTypeOK, FeedKept
<1>3. CASE Refreshes
  BY <1>0, <1>3, SMTT(30) DEF Refreshes, Start, sourceVars, derivedVars, RefreshTypeOK, FeedKept
<1>4. CASE StopScript
  BY <1>0, <1>1, <1>4 DEF StopScript, NoScript, sourceVars, derivedVars, RefreshTypeOK, FeedKept
<1>5. CASE Generate
  BY <1>0, <1>1, <1>5, Moved
     DEF Generate, Takes, NoScript, sourceVars, derivedVars, RefreshTypeOK, FeedKept
<1>6. CASE AwaitCdf
  BY <1>0, <1>1, <1>6, Moved
     DEF AwaitCdf, Takes, NoScript, sourceVars, derivedVars, RefreshTypeOK, FeedKept
<1>7. CASE SetupAndSeed
  <2>1. ~feed.configured
    BY <1>7, ReadyFor DEF SetupAndSeed, Takes, MaySeed
  <2>2. lake' = IF lake = 0 THEN 1 ELSE lake
    BY <1>7 DEF SetupAndSeed
  <2>3. UNCHANGED <<fixtures, recorded, feed, gold, risk, precedents, fact, reference>>
    BY <1>7, <2>1 DEF SetupAndSeed, derivedVars
  <2>4. script'.since \in 0 .. feed.landed /\ finished'.since \in 0 .. feed.landed
    BY <1>0, <1>7, Moved DEF SetupAndSeed, Takes, RefreshTypeOK, NoScript
  <2>5. lake' \in 0 .. MaxChanges /\ lake <= lake'
    BY <1>1, <2>2
  <2>6. feed \in [configured : BOOLEAN, streaming : BOOLEAN, landed : 0 .. lake', records : BOOLEAN]
    BY <1>1, <2>5
  <2>7. RefreshTypeOK'
    BY <1>0, <2>3, <2>4, <2>5, <2>6 DEF RefreshTypeOK
  <2> QED BY <1>0, <1>1, <2>1, <2>3, <2>7 DEF FeedKept
<1>8. CASE CreateCdf
  <2>1. UNCHANGED <<lake, fixtures, recorded, gold, risk, precedents, fact, reference>>
    BY <1>8 DEF CreateCdf, derivedVars
  <2>2. /\ feed'.configured /\ feed'.streaming = feed.streaming /\ feed'.landed = feed.landed
        /\ feed' \in [configured : BOOLEAN, streaming : BOOLEAN, landed : 0 .. lake, records : BOOLEAN]
    BY <1>1, <1>8 DEF CreateCdf
  <2>3. script'.since \in 0 .. feed.landed /\ finished'.since \in 0 .. feed.landed
    BY <1>0, <1>8, Moved DEF CreateCdf, Takes, RefreshTypeOK, NoScript
  <2>4. RefreshTypeOK'
    BY <1>0, <2>1, <2>2, <2>3 DEF RefreshTypeOK
  <2>5. lake >= 1
    BY <1>8, OnlyAfterSeed DEF CreateCdf, RefreshInv
  <2> QED BY <1>0, <2>1, <2>2, <2>4, <2>5 DEF FeedKept
<1>9. CASE FeedStreams
  <2>1. /\ feed.configured /\ ~feed.streaming
        /\ UNCHANGED <<lake, recorded, gold, risk, precedents, fact, reference, script, finished>>
    BY <1>9 DEF FeedStreams, derivedVars
  <2>2. feed' = [configured |-> feed.configured, streaming |-> TRUE, landed |-> lake, records |-> recorded]
    BY <1>1, <1>9 DEF FeedStreams
  <2>3. recorded \in BOOLEAN
    BY <1>0 DEF RefreshTypeOK
  <2>4. /\ feed'.configured /\ feed'.streaming /\ feed'.landed = lake /\ fixtures' = fixtures + 1
        /\ feed' \in [configured : BOOLEAN, streaming : BOOLEAN, landed : 0 .. lake, records : BOOLEAN]
    <3>1. lake \in 0 .. lake
      BY <1>1
    <3>2. feed' \in [configured : BOOLEAN, streaming : BOOLEAN, landed : 0 .. lake, records : BOOLEAN]
      BY <1>1, <2>2, <2>3, <3>1
    <3> QED BY <1>1, <1>9, <2>1, <2>2, <3>2 DEF FeedStreams
  <2>5. FeedKept'
    BY <1>0, <1>1, <2>1, <2>4 DEF FeedKept
  <2>6. fixtures' \in Nat
    BY <2>4, <2>5 DEF FeedKept
  <2>7. RefreshTypeOK'
    BY <1>0, <1>1, <2>1, <2>4, <2>6 DEF RefreshTypeOK
  <2> QED BY <2>5, <2>7
<1>10. CASE FraudGraph
  <2>1. /\ UNCHANGED <<lake, fixtures, recorded, feed, gold, precedents, fact, reference>>
        /\ risk' = IF gold > 0 THEN gold ELSE IF risk = None THEN 0 ELSE risk
    BY <1>10 DEF FraudGraph, sourceVars
  <2>2. gold \in Nat /\ risk \in None .. gold
    BY <1>0, <1>1 DEF RefreshTypeOK
  <2>3. risk' \in None .. gold /\ risk <= risk' /\ risk \in Int /\ risk' \in Int /\ 0 <= risk'
    BY <2>1, <2>2 DEF None
  <2>4. script'.since \in 0 .. feed.landed /\ finished'.since \in 0 .. feed.landed
    BY <1>0, <1>10, Moved DEF FraudGraph, Takes, RefreshTypeOK, NoScript
  <2>5. fact.claims \in Nat /\ fact.risk \in Nat /\ reference.risk \in None .. risk'
    BY <1>0, <2>2, <2>3 DEF RefreshTypeOK, None
  <2>6. RefreshTypeOK'
    BY <1>0, <2>1, <2>3, <2>4, <2>5 DEF RefreshTypeOK
  <2> QED BY <1>0, <2>1, <2>3, <2>5, <2>6 DEF FeedKept
<1>11. CASE RunMedallion
  <2>1. /\ UNCHANGED <<lake, fixtures, recorded, feed, risk, precedents, reference>>
        /\ gold' = feed.landed /\ fact' = [claims |-> feed.landed, risk |-> risk]
    BY <1>11 DEF RunMedallion, sourceVars
  <2>2. risk # None
    BY <1>11, ReadyFor DEF RunMedallion, Takes, MedallionReady
  <2>3. /\ gold \in 0 .. feed.landed /\ risk \in None .. gold /\ precedents \in None .. gold /\ feed.landed \in Nat
    BY <1>0, <1>1 DEF RefreshTypeOK
  <2>4. /\ risk \in None .. feed.landed /\ precedents \in None .. feed.landed /\ risk \in 0 .. feed.landed
    BY <2>2, <2>3 DEF None
  <2>5. script'.since \in 0 .. feed.landed /\ finished'.since \in 0 .. feed.landed
    BY <1>0, <1>11, Moved DEF RunMedallion, Takes, RefreshTypeOK, NoScript
  <2>6. RefreshTypeOK'
    BY <1>0, <2>1, <2>3, <2>4, <2>5 DEF RefreshTypeOK
  <2> QED BY <1>0, <2>1, <2>4, <2>6 DEF FeedKept
<1>12. CASE PriorClaimsCorpus
  BY <1>0, <1>1, <1>12, Moved, SMTT(30)
     DEF PriorClaimsCorpus, Takes, NoScript, sourceVars, derivedVars, RefreshTypeOK, FeedKept, None
<1>13. CASE ResyncSyncedTables
  BY <1>0, <1>1, <1>13, Moved
     DEF ResyncSyncedTables, Takes, NoScript, sourceVars, derivedVars, RefreshTypeOK, FeedKept, None
<1>14. CASE DemoBacklog
  BY <1>0, <1>1, <1>14, Moved, SMTT(30)
     DEF DemoBacklog, Takes, NoScript, sourceVars, derivedVars, RefreshTypeOK, FeedKept
<1>15. CASE CreateSyncedTables
  BY <1>0, <1>1, <1>15
     DEF CreateSyncedTables, sourceVars, derivedVars, RefreshTypeOK, FeedKept, None
<1>16. CASE ChangeLake
  <2>1. lake \in 1 .. MaxChanges - 1 /\ lake' = lake + 1
    BY <1>16 DEF ChangeLake
  <2>2. lake' <= MaxChanges
    BY <1>1, <2>1
  <2>3. /\ lake' = lake + 1 /\ lake' <= MaxChanges /\ recorded' \in {recorded, TRUE}
        /\ UNCHANGED <<fixtures, feed, gold, risk, precedents, fact, reference, script, finished>>
    BY <1>16, <2>2 DEF ChangeLake, derivedVars
  <2>4. recorded' \in BOOLEAN
    BY <1>0, <2>3 DEF RefreshTypeOK
  <2>5. /\ lake' \in 0 .. MaxChanges
        /\ feed \in [configured : BOOLEAN, streaming : BOOLEAN, landed : 0 .. lake', records : BOOLEAN]
    BY <1>1, <2>3
  <2> QED BY <1>0, <1>1, <2>3, <2>4, <2>5 DEF RefreshTypeOK, FeedKept
<1>17. CASE Land
  <2>1. /\ feed.streaming
        /\ UNCHANGED <<lake, fixtures, recorded, gold, risk, precedents, fact, reference, script, finished>>
    BY <1>17 DEF Land, derivedVars
  <2>2. PICK n \in feed.landed .. lake, records \in {feed.records, recorded} :
          feed' = [feed EXCEPT !.landed = n, !.records = @ \/ records]
    BY <1>17 DEF Land
  <2>3. /\ feed'.configured = feed.configured /\ feed'.streaming = feed.streaming
        /\ feed'.landed = n /\ n \in 0 .. lake /\ feed.landed <= n
    BY <1>1, <2>2
  <2>4. feed' \in [configured : BOOLEAN, streaming : BOOLEAN, landed : 0 .. lake, records : BOOLEAN]
    BY <1>1, <2>2, <2>3
  <2>5. RefreshTypeOK'
    BY <1>0, <1>1, <2>1, <2>3, <2>4 DEF RefreshTypeOK
  <2> QED BY <1>0, <1>1, <2>1, <2>3, <2>5 DEF FeedKept
<1>18. CASE UNCHANGED refreshVars
  BY <1>0, <1>18 DEF refreshVars, sourceVars, derivedVars, RefreshTypeOK, FeedKept
<1> QED
  BY <1>2, <1>3, <1>4, <1>5, <1>6, <1>7, <1>8, <1>9, <1>10, <1>11, <1>12, <1>13, <1>14, <1>15,
     <1>16,
     <1>17, <1>18 DEF RefreshNext

\* Nothing derived ever goes back to an earlier change.
LEMMA Grows ==
    ASSUME RefreshInv, [RefreshNext]_refreshVars
    PROVE  /\ feed'.landed >= feed.landed /\ gold' >= gold /\ risk' >= risk
           /\ precedents' >= precedents
           /\ fact'.claims >= fact.claims /\ fact'.risk >= fact.risk
           /\ reference'.risk >= reference.risk
           /\ reference'.precedents >= reference.precedents
<1>1. RefreshTypeOK /\ FeedKept
  BY DEF RefreshInv
<1>2. /\ lake \in Nat /\ feed.landed \in 0 .. lake /\ gold \in 0 .. feed.landed /\ risk \in None .. gold
      /\ precedents \in None .. gold /\ fact.claims \in 0 .. gold /\ fact.risk \in 0 .. fact.claims
      /\ reference.risk \in None .. risk /\ reference.precedents \in None .. precedents
      /\ feed = [configured |-> feed.configured, streaming |-> feed.streaming,
                 landed |-> feed.landed, records |-> feed.records]
  BY <1>1, RefreshAssumption DEF RefreshTypeOK
<1> USE <1>2 DEF None
<1>3. CASE /\ UNCHANGED <<feed, risk, precedents, reference>> /\ UNCHANGED <<gold, fact>>
  BY <1>3
<1>4. CASE Bootstrap \/ Refreshes \/ StopScript \/ Generate \/ SetupAndSeed \/ AwaitCdf
  BY <1>3, <1>4
     DEF Bootstrap, Refreshes, Start, StopScript, Generate, SetupAndSeed, AwaitCdf, sourceVars,
         derivedVars
<1>5. CASE DemoBacklog \/ ChangeLake \/ UNCHANGED refreshVars
  BY <1>3, <1>5 DEF DemoBacklog, ChangeLake, refreshVars, sourceVars, derivedVars
<1>6. CASE CreateCdf \/ FeedStreams
  <2>1. feed'.landed \in {feed.landed, lake}
    BY <1>6 DEF CreateCdf, FeedStreams
  <2> QED BY <1>3, <1>6, <2>1 DEF CreateCdf, FeedStreams, derivedVars
<1>7. CASE Land
  BY <1>7 DEF Land, derivedVars
<1>8. CASE FraudGraph
  BY <1>8 DEF FraudGraph, sourceVars
<1>9. CASE RunMedallion
  <2>1. risk # None
    BY <1>9, ReadyFor DEF RunMedallion, Takes, MedallionReady
  <2> QED BY <1>1, <1>9, <2>1 DEF RunMedallion, sourceVars, FeedKept
<1>10. CASE PriorClaimsCorpus
  BY <1>10 DEF PriorClaimsCorpus, sourceVars
<1>11. CASE ResyncSyncedTables
  BY <1>11 DEF ResyncSyncedTables, sourceVars
<1>12. CASE CreateSyncedTables
  BY <1>12 DEF CreateSyncedTables, sourceVars
<1> QED
  BY <1>4, <1>5, <1>6, <1>7, <1>8, <1>9, <1>10, <1>11, <1>12 DEF RefreshNext

\* The script keeps its shape.
LEMMA ShapeStep ==
    ASSUME RefreshInv, [RefreshNext]_refreshVars
    PROVE  ScriptShape'
<1>1. ScriptShape
  BY DEF RefreshInv
<1>2. fact' = [claims |-> fact'.claims, risk |-> fact'.risk]
  <2>1. fact' = fact \/ fact' = [claims |-> feed.landed, risk |-> risk]
    BY
       DEF RefreshNext, Bootstrap, Refreshes, Start, StopScript, Generate, SetupAndSeed, CreateCdf,
           AwaitCdf,
           FeedStreams, FraudGraph, RunMedallion, PriorClaimsCorpus, ResyncSyncedTables, DemoBacklog,
           CreateSyncedTables, ChangeLake, Land, refreshVars, derivedVars
  <2> QED BY <1>1, <2>1 DEF ScriptShape
<1>3. reference' = [risk |-> reference'.risk, precedents |-> reference'.precedents]
  <2>1. reference' = reference \/ reference' = [risk |-> risk, precedents |-> precedents]
    BY
       DEF RefreshNext, Bootstrap, Refreshes, Start, StopScript, Generate, SetupAndSeed, CreateCdf,
           AwaitCdf,
           FeedStreams, FraudGraph, RunMedallion, PriorClaimsCorpus, ResyncSyncedTables, DemoBacklog,
           CreateSyncedTables, ChangeLake, Land, refreshVars, derivedVars
  <2> QED BY <1>1, <2>1 DEF ScriptShape
<1>4. CASE script.left # <<>> /\ Advances
  <2>4. NoScript.allow \in BOOLEAN /\ NoScript.name = "none"
    BY DEF NoScript
  <2>5. script'.name \in {"none", "bootstrap", "routine", "demo"}
    BY <1>1, <1>4, <2>4, Moved DEF ScriptShape
  <2>6. script'.allow = NoScript.allow \/ script'.allow = script.allow
    BY <1>1, <1>4, Moved
  <2>1. script'.allow \in BOOLEAN
    BY <1>1, <2>4, <2>6, Zenon DEF ScriptShape
  <2>2. script'.name = "none" => script' = NoScript
    <3>1. CASE script' = NoScript
      BY <3>1
    <3>2. CASE script' # NoScript
      <4>1. script'.name = script.name
        BY <1>1, <1>4, <3>2, Moved
      <4>2. script.name # "none"
        BY <1>1, <1>4 DEF ScriptShape, NoScript
      <4> QED BY <4>1, <4>2
    <3> QED BY <3>1, <3>2
  <2>3. finished' = [name |-> finished'.name, since |-> finished'.since]
    BY <1>1, <1>4, Moved DEF ScriptShape
  <2> QED BY <1>1, <1>2, <1>3, <1>4, <2>1, <2>2, <2>3, <2>5, Moved DEF ScriptShape
<1>5. CASE Bootstrap \/ Refreshes
  <2>1. PICK name \in {"bootstrap", "routine", "demo"}, allow \in BOOLEAN : \E steps : Start(name, steps, allow)
    <3>1. CASE Bootstrap
      BY <3>1, Zenon DEF Bootstrap
    <3>2. CASE Refreshes
      BY <3>2, Zenon DEF Refreshes
    <3> QED BY <1>5, <3>1, <3>2
  <2>2. /\ script'.name = name /\ script'.allow = allow /\ UNCHANGED finished
        /\ script' = [name |-> name, left |-> script'.left, since |-> script'.since,
                      allow |-> allow, fresh |-> script'.fresh]
    BY <2>1 DEF Start
  <2>3. script'.allow \in BOOLEAN
    BY <2>2, Zenon
  <2> QED BY <1>1, <1>2, <1>3, <2>2, <2>3 DEF ScriptShape
<1>6. CASE StopScript
  BY <1>1, <1>2, <1>3, <1>6 DEF StopScript, ScriptShape, NoScript
<1>7. CASE UNCHANGED <<script, finished>>
  BY <1>1, <1>2, <1>3, <1>7 DEF ScriptShape
<1> QED
  BY <1>4, <1>5, <1>6, <1>7
     DEF RefreshNext, Generate, SetupAndSeed, CreateCdf, AwaitCdf, FeedStreams, FraudGraph,
         RunMedallion,
         PriorClaimsCorpus, ResyncSyncedTables, DemoBacklog, CreateSyncedTables, ChangeLake, Land,
         refreshVars, Takes

\* A step of a bootstrap takes it from what it had come to before its k-th step ...
LEMMA BootstrapGoesOn ==
    ASSUME ScriptShape, BootstrapKept, NEW x, Takes(x), script'.name = "bootstrap"
    PROVE  \E k \in 1 .. 8 :
             /\ BootstrapAt(k) /\ BootstrapSteps[k] = x
             /\ script'.left = SubSeq(BootstrapSteps, k + 1, 9)
             /\ script'.allow = script.allow /\ script'.fresh = script.fresh
<1>1. script.left # <<>> /\ Step = x /\ Advances
  BY DEF Takes
<1>2. script.name = "bootstrap"
  BY <1>1, Moved DEF NoScript
<1>3. PICK k \in 1 .. 9 : BootstrapAt(k)
  BY <1>2 DEF BootstrapKept
<1>4. k # 9 /\ BootstrapSteps[k] = x
  BY <1>1, <1>3, AtBootstrap DEF NoScript
<1>5. k \in 1 .. 8
  BY <1>4
<1> QED BY <1>1, <1>3, <1>4, <1>5, AtBootstrap

\* ... and one of a refresh likewise.
LEMMA RoutineGoesOn ==
    ASSUME ScriptShape, RoutineKept, NEW x, Takes(x), script'.name \in {"routine", "demo"}
    PROVE  /\ script'.since = script.since
           /\ \/ x = "backlog" /\ script'.left = SubSeq(RoutineSteps, 1, 5)
              \/ \E k \in 1 .. 4 :
                   /\ RoutineAt(k) /\ RoutineSteps[k] = x
                   /\ script'.left = SubSeq(RoutineSteps, k + 1, 5)
<1>1. script.left # <<>> /\ Step = x /\ Advances
  BY DEF Takes
<1>2. script.name \in {"routine", "demo"} /\ script'.since = script.since
  BY <1>1, Moved DEF NoScript
<1>3. CASE script.left = <<"backlog">> \o RoutineSteps
  BY <1>1, <1>2, <1>3, AtBacklog
<1>4. ASSUME NEW k \in 1 .. 5, RoutineAt(k)
      PROVE  k \in 1 .. 4 /\ RoutineSteps[k] = x /\ script'.left = SubSeq(RoutineSteps, k + 1, 5)
  <2>1. k # 5 /\ RoutineSteps[k] = x
    BY <1>1, <1>4, AtRoutine DEF NoScript
  <2>2. script'.left = SubSeq(RoutineSteps, k + 1, 5)
    BY <1>1, <1>4, <2>1, AtRoutine
  <2> QED BY <2>1, <2>2
<1> QED BY <1>2, <1>3, <1>4 DEF RoutineKept

\* The k-th step of a bootstrap brings about what the next is to find ...
LEMMA BootstrapStep ==
    ASSUME RefreshInv, [RefreshNext]_refreshVars
    PROVE  BootstrapKept'
<1>0. RefreshTypeOK /\ FeedKept /\ ScriptShape /\ BootstrapKept
  BY DEF RefreshInv
<1>1. SUFFICES ASSUME script'.name = "bootstrap" PROVE \E k \in 1 .. 9 : BootstrapAt(k)'
  BY DEF BootstrapKept
<1>2. /\ lake \in Nat /\ feed.landed \in Nat /\ gold \in Nat /\ risk \in Int
      /\ feed = [configured |-> feed.configured, streaming |-> feed.streaming,
                 landed |-> feed.landed, records |-> feed.records]
  BY <1>0, RefreshAssumption DEF RefreshTypeOK, None
<1>3. CASE Bootstrap
  <2>1. BootstrapSteps = SubSeq(BootstrapSteps, 1, 9)
    BY StepsAre, SubSeqFull
  <2>2. script'.left = BootstrapSteps /\ script'.allow /\ feed' = feed
    BY <1>3 DEF Bootstrap, Start, sourceVars
  <2>3. script'.fresh => ~feed.configured
    BY <1>3 DEF Bootstrap, Start
  <2>4. BootstrapAt(1)'
    BY <2>1, <2>2, <2>3 DEF BootstrapAt
  <2> QED BY <2>4
<1>4. CASE Refreshes \/ StopScript
  BY <1>1, <1>4 DEF Refreshes, Start, StopScript, NoScript
<1>5. ASSUME NEW k \in 1 .. 8, script'.left = SubSeq(BootstrapSteps, k + 1, 9),
             script'.allow = script.allow, script'.fresh = script.fresh, BootstrapAt(k),
             k < 3 => feed'.configured = feed.configured,
             k + 1 >= 3 => lake' >= 1, k + 1 >= 5 => feed'.streaming,
             k + 1 >= 6 => risk' # None, k + 1 >= 7 => gold' > 0
      PROVE  \E n \in 1 .. 9 : BootstrapAt(n)'
  <2>1. k + 1 \in 1 .. 9 /\ (k + 1 <= 3 => k <= 3 /\ k < 3)
    OBVIOUS
  <2> DEFINE n == k + 1
  <2>2. script'.fresh /\ n <= 3 => ~feed'.configured
    BY <1>5, <2>1 DEF BootstrapAt
  <2>3. script'.allow
    BY <1>5 DEF BootstrapAt
  <2>4. BootstrapAt(n)'
    BY <1>5, <2>2, <2>3 DEF BootstrapAt
  <2> QED BY <2>1, <2>4
<1>6. CASE Generate
  <2>1. PICK k \in 1 .. 8 :
          /\ BootstrapAt(k) /\ BootstrapSteps[k] = "generate"
          /\ script'.left = SubSeq(BootstrapSteps, k + 1, 9)
          /\ script'.allow = script.allow /\ script'.fresh = script.fresh
    BY <1>0, <1>1, <1>6, BootstrapGoesOn DEF Generate
  <2>2. k = 1 /\ feed' = feed
    BY <1>6, <2>1, BootstrapOrder DEF Generate, sourceVars
  <2> QED BY <1>5, <2>1, <2>2
<1>7. CASE SetupAndSeed
  <2>1. PICK k \in 1 .. 8 :
          /\ BootstrapAt(k) /\ BootstrapSteps[k] = "seed"
          /\ script'.left = SubSeq(BootstrapSteps, k + 1, 9)
          /\ script'.allow = script.allow /\ script'.fresh = script.fresh
    BY <1>0, <1>1, <1>7, BootstrapGoesOn DEF SetupAndSeed
  <2>2. k = 2 /\ feed' = feed /\ lake' >= 1
    BY <1>2, <1>7, <2>1, BootstrapOrder DEF SetupAndSeed
  <2> QED BY <1>5, <2>1, <2>2
<1>8. CASE CreateCdf
  <2>1. PICK k \in 1 .. 8 :
          /\ BootstrapAt(k) /\ BootstrapSteps[k] = "create_cdf"
          /\ script'.left = SubSeq(BootstrapSteps, k + 1, 9)
          /\ script'.allow = script.allow /\ script'.fresh = script.fresh
    BY <1>0, <1>1, <1>8, BootstrapGoesOn DEF CreateCdf
  <2>2. k = 3 /\ lake' >= 1
    BY <1>8, <2>1, BootstrapOrder DEF CreateCdf, BootstrapAt
  <2> QED BY <1>5, <2>1, <2>2
<1>9. CASE AwaitCdf
  <2>1. PICK k \in 1 .. 8 :
          /\ BootstrapAt(k) /\ BootstrapSteps[k] = "await_cdf"
          /\ script'.left = SubSeq(BootstrapSteps, k + 1, 9)
          /\ script'.allow = script.allow /\ script'.fresh = script.fresh
    BY <1>0, <1>1, <1>9, BootstrapGoesOn DEF AwaitCdf
  <2>2. k = 4 /\ lake' >= 1 /\ feed'.streaming
    BY <1>9, <2>1, BootstrapOrder DEF AwaitCdf, BootstrapAt, sourceVars
  <2> QED BY <1>5, <2>1, <2>2
<1>10. CASE FraudGraph
  <2>1. PICK k \in 1 .. 8 :
          /\ BootstrapAt(k) /\ BootstrapSteps[k] = "fraud_graph"
          /\ script'.left = SubSeq(BootstrapSteps, k + 1, 9)
          /\ script'.allow = script.allow /\ script'.fresh = script.fresh
    BY <1>0, <1>1, <1>10, BootstrapGoesOn DEF FraudGraph
  <2>2. k \in {5, 7} /\ lake' = lake /\ feed' = feed /\ gold' = gold /\ risk' # None
    BY <1>2, <1>10, <2>1, BootstrapOrder DEF FraudGraph, sourceVars, None
  <2> QED BY <1>5, <2>1, <2>2, SMTT(30) DEF BootstrapAt
<1>11. CASE RunMedallion
  <2>1. PICK k \in 1 .. 8 :
          /\ BootstrapAt(k) /\ BootstrapSteps[k] = Medallion
          /\ script'.left = SubSeq(BootstrapSteps, k + 1, 9)
          /\ script'.allow = script.allow /\ script'.fresh = script.fresh
    BY <1>0, <1>1, <1>11, BootstrapGoesOn DEF RunMedallion
  <2>2. k = 6 /\ lake' = lake /\ feed' = feed /\ gold' = feed.landed /\ risk' = risk
    BY <1>11, <2>1, BootstrapOrder DEF RunMedallion, sourceVars
  <2> QED BY <1>0, <1>2, <1>5, <2>1, <2>2 DEF BootstrapAt, FeedKept
<1>12. CASE PriorClaimsCorpus
  <2>1. PICK k \in 1 .. 8 :
          /\ BootstrapAt(k) /\ BootstrapSteps[k] = "corpus"
          /\ script'.left = SubSeq(BootstrapSteps, k + 1, 9)
          /\ script'.allow = script.allow /\ script'.fresh = script.fresh
    BY <1>0, <1>1, <1>12, BootstrapGoesOn DEF PriorClaimsCorpus
  <2>2. k = 8 /\ lake' = lake /\ feed' = feed /\ gold' = gold /\ risk' = risk
    BY <1>12, <2>1, BootstrapOrder DEF PriorClaimsCorpus, sourceVars
  <2> QED BY <1>5, <2>1, <2>2 DEF BootstrapAt
<1>13. CASE ResyncSyncedTables \/ DemoBacklog
  <2>1. PICK x \in {"resync", "backlog"} : Takes(x)
    BY <1>13 DEF ResyncSyncedTables, DemoBacklog
  <2> QED BY <1>0, <1>1, <2>1, BootstrapGoesOn, BootstrapOrder
<1>14. ASSUME script' = script, lake' \in Nat, lake' >= lake, feed'.streaming \/ ~feed.streaming,
              feed'.configured = feed.configured, risk' = risk, gold' = gold
       PROVE  \E k \in 1 .. 9 : BootstrapAt(k)'
  <2>1. PICK k \in 1 .. 9 : BootstrapAt(k)
    BY <1>0, <1>1, <1>14 DEF BootstrapKept
  <2>2. lake' \in Int /\ (lake >= 1 => lake' >= 1)
    BY <1>2, <1>14
  <2>3. BootstrapAt(k)'
    BY <1>14, <2>1, <2>2 DEF BootstrapAt
  <2> QED BY <2>3
<1>15. CASE FeedStreams \/ Land
  <2>1. feed'.configured = feed.configured /\ (feed'.streaming \/ ~feed.streaming)
    BY <1>2, <1>15 DEF FeedStreams, Land
  <2>2. script' = script /\ lake' = lake /\ risk' = risk /\ gold' = gold
    BY <1>15 DEF FeedStreams, Land, derivedVars
  <2>3. lake' \in Nat /\ lake' >= lake
    BY <1>2, <2>2
  <2> QED BY <1>14, <2>1, <2>2, <2>3
<1>16. CASE CreateSyncedTables \/ ChangeLake \/ UNCHANGED refreshVars
  <2>1. feed' = feed /\ script' = script /\ risk' = risk /\ gold' = gold /\ lake' \in {lake, lake + 1}
    BY <1>16 DEF CreateSyncedTables, ChangeLake, refreshVars, sourceVars, derivedVars
  <2>2. lake' \in Nat /\ lake' >= lake
    BY <1>2, <2>1
  <2>3. feed'.streaming \/ ~feed.streaming
    BY <2>1
  <2> QED BY <1>14, <2>1, <2>2, <2>3
<1> QED
  BY <1>3, <1>4, <1>6, <1>7, <1>8, <1>9, <1>10, <1>11, <1>12, <1>13, <1>15, <1>16 DEF RefreshNext

\* ... and that of a refresh carries what had landed one table further.
LEMMA RoutineStep ==
    ASSUME RefreshInv, [RefreshNext]_refreshVars
    PROVE  RoutineKept'
<1>0. RefreshTypeOK /\ FeedKept /\ ScriptShape /\ RoutineKept
  BY DEF RefreshInv
<1>1. /\ feed.landed \in Nat /\ gold \in 0 .. feed.landed /\ risk \in None .. gold
      /\ precedents \in None .. gold
      /\ reference.risk \in None .. risk /\ reference.precedents \in None .. precedents
      /\ script.since \in 0 .. feed.landed
  BY <1>0, RefreshAssumption DEF RefreshTypeOK
<1>2. /\ feed'.landed >= feed.landed /\ gold' >= gold /\ risk' >= risk /\ precedents' >= precedents
      /\ reference'.risk >= reference.risk /\ reference'.precedents >= reference.precedents
  BY Grows
<1>3. /\ gold' \in Int /\ risk' \in Int /\ precedents' \in Int /\ reference'.risk \in Int
      /\ reference'.precedents \in Int
  <2>1. RefreshTypeOK'
    BY TypeStep
  <2>2. feed'.landed \in Nat
    BY <2>1, RefreshAssumption DEF RefreshTypeOK
  <2> QED BY <2>1, <2>2 DEF RefreshTypeOK, None
<1> DEFINE Backlog == script'.left = <<"backlog">> \o RoutineSteps
<1>4. SUFFICES ASSUME script'.name \in {"routine", "demo"}
               PROVE  Backlog \/ \E k \in 1 .. 5 : RoutineAt(k)'
  BY DEF RoutineKept
<1>5. RoutineSteps = SubSeq(RoutineSteps, 1, 5)
  BY StepsAre, SubSeqFull
<1>6. ASSUME script'.left = SubSeq(RoutineSteps, 1, 5) PROVE \E k \in 1 .. 5 : RoutineAt(k)'
  <2>1. RoutineAt(1)'
    BY <1>6 DEF RoutineAt
  <2> QED BY <2>1
<1>7. CASE Bootstrap \/ StopScript
  BY <1>4, <1>7 DEF Bootstrap, Start, StopScript, NoScript
<1>8. CASE Refreshes
  <2>1. script'.left = RoutineSteps \/ script'.left = <<"backlog">> \o RoutineSteps
    BY <1>8 DEF Refreshes, Start
  <2> QED BY <1>5, <1>6, <2>1
<1>9. ASSUME NEW k \in 1 .. 4, script'.left = SubSeq(RoutineSteps, k + 1, 5), script'.since = script.since,
             RoutineAt(k), k = 1 => gold' >= script.since /\ risk # None,
             k = 2 => risk' >= script.since, k = 3 => precedents' >= script.since,
             k = 4 => reference'.risk >= script.since /\ reference'.precedents >= script.since
      PROVE  \E n \in 1 .. 5 : RoutineAt(n)'
  <2> DEFINE n == k + 1
  <2>1. n \in 1 .. 5 /\ (n >= 2 => k >= 1) /\ (n >= 3 => k >= 2) /\ (n >= 4 => k >= 3) /\ (n >= 5 => k >= 4)
    OBVIOUS
  <2>2. gold' >= script.since /\ risk # None
    BY <1>1, <1>2, <1>3, <1>9, SMTT(30) DEF RoutineAt
  <2>3. risk' # None
    BY <1>1, <1>2, <1>3, <2>2 DEF None
  <2>4. n >= 3 => risk' >= script.since
    BY <1>1, <1>2, <1>3, <1>9 DEF RoutineAt, None
  <2>5. n >= 4 => precedents' >= script.since
    BY <1>1, <1>2, <1>3, <1>9 DEF RoutineAt, None
  <2>6. n >= 5 => reference'.risk >= script.since /\ reference'.precedents >= script.since
    BY <1>9
  <2>7. RoutineAt(n)'
    BY <1>9, <2>2, <2>3, <2>4, <2>5, <2>6 DEF RoutineAt
  <2> QED BY <2>1, <2>7
<1>10. CASE RunMedallion
  <2>1. script'.since = script.since /\ (\E k \in 1 .. 4 : RoutineAt(k) /\ RoutineSteps[k] = Medallion
                                           /\ script'.left = SubSeq(RoutineSteps, k + 1, 5))
    BY <1>0, <1>4, <1>10, RoutineGoesOn DEF RunMedallion, Medallion
  <2>2. PICK k \in 1 .. 4 : RoutineAt(k) /\ RoutineSteps[k] = Medallion
                                           /\ script'.left = SubSeq(RoutineSteps, k + 1, 5)
    BY <2>1
  <2>3. k = 1
    BY <2>2, RoutineOrder
  <2>4. risk # None
    BY <1>10, ReadyFor DEF RunMedallion, Takes, MedallionReady
  <2>5. gold' >= script.since
    BY <1>1, <1>10 DEF RunMedallion
  <2> QED BY <1>9, <2>1, <2>2, <2>3, <2>4, <2>5
<1>11. CASE FraudGraph
  <2>1. script'.since = script.since /\ (\E k \in 1 .. 4 : RoutineAt(k) /\ RoutineSteps[k] = "fraud_graph"
                                           /\ script'.left = SubSeq(RoutineSteps, k + 1, 5))
    BY <1>0, <1>4, <1>11, RoutineGoesOn DEF FraudGraph
  <2>2. PICK k \in 1 .. 4 : RoutineAt(k) /\ RoutineSteps[k] = "fraud_graph"
                                           /\ script'.left = SubSeq(RoutineSteps, k + 1, 5)
    BY <2>1
  <2>3. k = 2
    BY <2>2, RoutineOrder
  <2>4. risk' >= script.since
    BY <1>1, <1>11, <2>2, <2>3 DEF FraudGraph, RoutineAt, None
  <2> QED BY <1>9, <2>1, <2>2, <2>3, <2>4, SMTT(30)
<1>12. CASE PriorClaimsCorpus
  <2>1. script'.since = script.since /\ (\E k \in 1 .. 4 : RoutineAt(k) /\ RoutineSteps[k] = "corpus"
                                           /\ script'.left = SubSeq(RoutineSteps, k + 1, 5))
    BY <1>0, <1>4, <1>12, RoutineGoesOn DEF PriorClaimsCorpus
  <2>2. PICK k \in 1 .. 4 : RoutineAt(k) /\ RoutineSteps[k] = "corpus"
                                           /\ script'.left = SubSeq(RoutineSteps, k + 1, 5)
    BY <2>1
  <2>3. k = 3
    BY <2>2, RoutineOrder
  <2>4. precedents' >= script.since
    BY <1>1, <1>12, <2>2, <2>3 DEF PriorClaimsCorpus, RoutineAt
  <2> QED BY <1>9, <2>1, <2>2, <2>3, <2>4, SMTT(30)
<1>13. CASE ResyncSyncedTables
  <2>1. script'.since = script.since /\ (\E k \in 1 .. 4 : RoutineAt(k) /\ RoutineSteps[k] = "resync"
                                           /\ script'.left = SubSeq(RoutineSteps, k + 1, 5))
    BY <1>0, <1>4, <1>13, RoutineGoesOn DEF ResyncSyncedTables
  <2>2. PICK k \in 1 .. 4 : RoutineAt(k) /\ RoutineSteps[k] = "resync"
                                           /\ script'.left = SubSeq(RoutineSteps, k + 1, 5)
    BY <2>1
  <2>3. k = 4
    BY <2>2, RoutineOrder
  <2>4. reference'.risk >= script.since /\ reference'.precedents >= script.since
    BY <1>1, <1>13, <2>2, <2>3 DEF ResyncSyncedTables, RoutineAt
  <2> QED BY <1>9, <2>1, <2>2, <2>3, <2>4
<1>14. CASE DemoBacklog
  <2>1. script'.left = SubSeq(RoutineSteps, 1, 5)
    BY <1>0, <1>4, <1>14, RoutineGoesOn, RoutineOrder DEF DemoBacklog
  <2> QED BY <1>6, <2>1
<1>15. CASE Generate \/ SetupAndSeed \/ CreateCdf \/ AwaitCdf
  <2>1. PICK x \in {"generate", "seed", "create_cdf", "await_cdf"} : Takes(x)
    BY <1>15 DEF Generate, SetupAndSeed, CreateCdf, AwaitCdf
  <2> QED BY <1>0, <1>4, <2>1, RoutineGoesOn, RoutineOrder
<1>16. CASE script' = script
  <2>1. CASE script.left = <<"backlog">> \o RoutineSteps
    BY <1>16, <2>1
  <2>2. ASSUME NEW k \in 1 .. 5, RoutineAt(k) PROVE RoutineAt(k)'
    <3>1. k >= 2 => gold' >= script.since /\ risk' # None
      BY <1>1, <1>2, <1>3, <2>2, SMTT(30) DEF RoutineAt, None
    <3>2. k >= 3 => risk' >= script.since
      BY <1>1, <1>2, <1>3, <2>2 DEF RoutineAt, None
    <3>3. k >= 4 => precedents' >= script.since
      BY <1>1, <1>2, <1>3, <2>2 DEF RoutineAt, None
    <3>4. k >= 5 => reference'.risk >= script.since /\ reference'.precedents >= script.since
      <4>1. /\ script.since \in Int /\ reference.risk \in Int /\ reference.precedents \in Int
        <5>1. risk \in Int /\ precedents \in Int
          BY <1>1 DEF None
        <5> QED BY <1>1, <5>1 DEF None
      <4>2. k >= 5 => reference.risk >= script.since /\ reference.precedents >= script.since
        BY <2>2 DEF RoutineAt
      <4> QED BY <1>2, <1>3, <4>1, <4>2
    <3> QED BY <1>16, <2>2, <3>1, <3>2, <3>3, <3>4 DEF RoutineAt
  <2> QED BY <1>0, <1>4, <1>16, <2>1, <2>2 DEF RoutineKept
<1> QED
  BY <1>7, <1>8, <1>10, <1>11, <1>12, <1>13, <1>14, <1>15, <1>16
     DEF RefreshNext, FeedStreams, Land, CreateSyncedTables, ChangeLake, refreshVars

\* A refresh ends after its last step, with everything it served down and then the fact.
LEMMA ReachesStep ==
    ASSUME RefreshInv, [RefreshNext]_refreshVars
    PROVE  RefreshReachesEverything'
<1>0. /\ RefreshTypeOK /\ FeedKept /\ ScriptShape /\ BootstrapKept /\ RoutineKept
      /\ RefreshReachesEverything
  BY DEF RefreshInv
<1>1. /\ feed.landed \in Nat /\ gold \in 0 .. feed.landed /\ risk \in None .. gold
      /\ precedents \in None .. gold /\ fact.claims \in 0 .. gold /\ fact.risk \in 0 .. fact.claims
      /\ reference.risk \in None .. risk /\ reference.precedents \in None .. precedents
      /\ script.since \in 0 .. feed.landed /\ finished.since \in 0 .. feed.landed
  BY <1>0, RefreshAssumption DEF RefreshTypeOK
<1>2. /\ fact'.claims >= fact.claims /\ fact'.risk >= fact.risk
      /\ reference'.risk >= reference.risk /\ reference'.precedents >= reference.precedents
  BY Grows
<1>3. /\ fact'.claims \in Int /\ fact'.risk \in Int /\ reference'.risk \in Int
      /\ reference'.precedents \in Int
  <2>1. RefreshTypeOK'
    BY TypeStep
  <2>2. feed'.landed \in Nat
    BY <2>1, RefreshAssumption DEF RefreshTypeOK
  <2> QED BY <2>1, <2>2 DEF RefreshTypeOK, None
<1>4. CASE UNCHANGED finished
  BY <1>0, <1>1, <1>2, <1>3, <1>4 DEF RefreshReachesEverything, None
<1>5. ASSUME NEW x, Takes(x), ~UNCHANGED finished
      PROVE  /\ finished' = [name |-> script.name, since |-> script.since]
             /\ finished'.name \in {"routine", "demo"} =>
                  /\ x = Medallion /\ reference.risk >= script.since
                  /\ reference.precedents >= script.since /\ risk >= script.since
  <2>1. script.left # <<>> /\ Step = x /\ Advances
    BY <1>5 DEF Takes
  <2>2. finished' = [name |-> script.name, since |-> script.since]
    BY <1>5, <2>1 DEF Advances
  <2>3. ASSUME script.name \in {"routine", "demo"}
        PROVE  \E k \in 1 .. 5 : RoutineAt(k)
    BY <1>0, <1>5, <2>1, <2>3, AtBacklog DEF RoutineKept
  <2>4. ASSUME NEW k \in 1 .. 5, RoutineAt(k) PROVE k = 5 /\ x = Medallion
    BY <1>0, <1>5, <2>1, <2>4, AtRoutine, RoutineOrder
  <2> QED BY <2>2, <2>3, <2>4 DEF RoutineAt
<1>6. ASSUME NEW x, Takes(x), ~UNCHANGED finished, x # Medallion PROVE RefreshReachesEverything'
  BY <1>5, <1>6 DEF RefreshReachesEverything
<1>7. CASE RunMedallion
  <2>1. /\ fact'.claims = feed.landed /\ fact'.risk = risk
        /\ reference'.risk = reference.risk /\ reference'.precedents = reference.precedents
    BY <1>7 DEF RunMedallion
  <2>2. CASE ~UNCHANGED finished
    BY <1>1, <1>5, <1>7, <2>1, <2>2 DEF RunMedallion, RefreshReachesEverything
  <2> QED BY <1>4, <2>2
<1>8. CASE \E x \in {"generate", "seed", "create_cdf", "await_cdf", "fraud_graph", "corpus", "resync",
                    "backlog"} : Takes(x)
  BY <1>4, <1>6, <1>8 DEF Medallion
<1> QED
  BY <1>4, <1>7, <1>8
     DEF RefreshNext, Bootstrap, Refreshes, Start, StopScript, Generate, SetupAndSeed, CreateCdf,
         AwaitCdf,
         FeedStreams, FraudGraph, PriorClaimsCorpus, ResyncSyncedTables, DemoBacklog, CreateSyncedTables,
         ChangeLake, Land, refreshVars

\* Every step of a script, or of what goes on around it, keeps the invariant.
LEMMA RefreshStep ==
    ASSUME RefreshInv, [RefreshNext]_refreshVars
    PROVE  RefreshInv'
<1>1. RefreshTypeOK' /\ FeedKept'
  BY TypeStep
<1> QED BY <1>1, ShapeStep, BootstrapStep, RoutineStep, ReachesStep DEF RefreshInv

\* The next step of a bootstrap that began with nothing finds what it needs, wherever it is.
LEMMA BootstrapIsReady == RefreshInv => BootstrapFindsItsInputs
<1> SUFFICES ASSUME RefreshInv, script.name = "bootstrap", script.fresh
             PROVE  Ready(Step, script.allow)
  BY DEF BootstrapFindsItsInputs
<1>1. ScriptShape /\ BootstrapKept
  BY DEF RefreshInv
<1>2. PICK k \in 1 .. 9 : BootstrapAt(k)
  BY <1>1 DEF BootstrapKept
<1>3. Step = BootstrapSteps[k]
  BY <1>1, <1>2, AtBootstrap
<1>4. k <= 3 => ~feed.configured
  BY <1>2 DEF BootstrapAt
<1>5. CASE k = 1
  BY <1>3, <1>5, BootstrapOrder, ReadyFor
<1>6. CASE k = 2
  BY <1>3, <1>4, <1>6, BootstrapOrder, ReadyFor DEF MaySeed
<1>7. CASE k = 3
  BY <1>3, <1>4, <1>7, BootstrapOrder, ReadyFor
<1>8. CASE k = 4
  BY <1>3, <1>8, BootstrapOrder, ReadyFor
<1>9. CASE k \in {5, 7}
  BY <1>3, <1>9, BootstrapOrder, ReadyFor
<1>10. CASE k \in {6, 9}
  <2>1. Step = Medallion /\ MedallionReady(script.allow)
    BY <1>2, <1>3, <1>10, BootstrapOrder DEF BootstrapAt, MedallionReady
  <2> QED BY <2>1, ReadyFor
<1>11. CASE k = 8
  <2>1. Step = "corpus" /\ gold > 0
    BY <1>2, <1>3, <1>11, BootstrapOrder DEF BootstrapAt
  <2> QED BY <2>1, ReadyFor
<1> QED BY <1>5, <1>6, <1>7, <1>8, <1>9, <1>10, <1>11

\* Nothing derived is ahead of what it is derived from (bootstrap.py, refresh.py).
THEOREM RefreshAlwaysTyped == RefreshSpec => []RefreshTypeOK
<1>1. RefreshInv => RefreshTypeOK
  BY DEF RefreshInv
<1> QED BY <1>1, RefreshInitially, RefreshStep, PTL DEF RefreshSpec

\* The change history carries the seeded fixture at most once, and once when anything is derived
\* from it, whichever scripts were stopped and started again (setup_and_seed.py:218).
THEOREM AlwaysSeededOnce == RefreshSpec => []SeededOnce
<1>1. RefreshInv => SeededOnce
  <2> SUFFICES ASSUME RefreshInv PROVE SeededOnce
    OBVIOUS
  <2>1. RefreshTypeOK /\ FeedKept
    BY DEF RefreshInv
  <2>2. gold > 0 => feed.landed # 0
    BY <2>1 DEF RefreshTypeOK
  <2> QED BY <2>1, <2>2 DEF FeedKept, SeededOnce
<1> QED BY <1>1, RefreshInitially, RefreshStep, PTL DEF RefreshSpec

\* Every step of a bootstrap of an empty workspace finds what it reads, whatever is written and
\* landed meanwhile and whichever scripts were stopped before (scripts/bootstrap.py).
THEOREM BootstrapAlwaysFindsItsInputs == RefreshSpec => []BootstrapFindsItsInputs
BY BootstrapIsReady, RefreshInitially, RefreshStep, PTL DEF RefreshSpec

\* What had landed when a refresh began is in everything derived from it when it has ended, in
\* whatever order the feed lands the rest (scripts/refresh.py).
THEOREM RefreshAlwaysReachesEverything == RefreshSpec => []RefreshReachesEverything
<1>1. RefreshInv => RefreshReachesEverything
  BY DEF RefreshInv
<1> QED BY <1>1, RefreshInitially, RefreshStep, PTL DEF RefreshSpec

-----------------------------------------------------------------------------
(* The corpus of precedents *)

\* What a job has embedded is the staged text of every claim whose stored vector it
\* cannot reuse: the staging table and the corpus stand still under it.
FreshIsStaged ==
    job.stage = "embedded" =>
      \A c \in CorpusClaims :
        staged[c] # NoText /\ ~Reuses(c) =>
          job.fresh[c] = [of |-> staged[c], by |-> job.provenance]

PriorInv == EmbeddingsMatch /\ FreshIsStaged

\* Nothing is in the corpus, and no job is at work, at the start.
LEMMA PriorInitially == PriorInit => PriorInv
BY DEF PriorInit, PriorInv, EmbeddingsMatch, FreshIsStaged, NoRow, NoJob

\* A merge writes the vector of the row's own text: one it reuses was, one it made is.
LEMMA MergeKeepsMatch ==
    ASSUME PriorInv, MergeCorpus
    PROVE  EmbeddingsMatch'
<1> SUFFICES ASSUME NEW c \in CorpusClaims, corpus'[c] # NoRow
             PROVE  corpus'[c].vector = [of |-> corpus'[c].text, by |-> corpus'[c].provenance]
  BY DEF EmbeddingsMatch, NoRow
<1>1. corpus'[c] = Merged(c)
  BY DEF MergeCorpus
<1>2. staged[c] # NoText
  BY <1>1 DEF Merged, MergeSource
<1>3. /\ corpus'[c].text = staged[c]
      /\ corpus'[c].provenance = job.provenance
      /\ corpus'[c].vector = IF Reuses(c) THEN corpus[c].vector ELSE job.fresh[c]
  BY <1>1, <1>2 DEF Merged, MergeSource
<1>4. CASE Reuses(c)
  BY <1>3, <1>4 DEF Reuses, ReuseEmbedding, MergeSource, PriorInv, EmbeddingsMatch
<1>5. CASE ~Reuses(c)
  BY <1>2, <1>3, <1>5 DEF MergeCorpus, PriorInv, FreshIsStaged
<1> QED BY <1>4, <1>5

\* Every step keeps the invariant: only an embedding makes vectors, only a merge moves them.
LEMMA PriorStep ==
    ASSUME PriorInv, [PriorNext]_priorVars
    PROVE  PriorInv'
<1>1. CASE StageCandidates
  BY <1>1 DEF StageCandidates, PriorInv, EmbeddingsMatch, FreshIsStaged
<1>2. CASE EmbedNarratives
  <2>1. EmbeddingsMatch'
    BY <1>2 DEF EmbedNarratives, PriorInv, EmbeddingsMatch
  <2>2. ASSUME NEW c \in CorpusClaims, staged'[c] # NoText, ~Reuses(c)'
        PROVE  job'.fresh[c] = [of |-> staged'[c], by |-> job'.provenance]
    <3>1. ~Reuses(c) /\ staged[c] # NoText
      BY <1>2, <2>2 DEF EmbedNarratives, Reuses, MergeSource
    <3> QED BY <1>2, <3>1 DEF EmbedNarratives, MergeSource
  <2> QED BY <2>1, <2>2 DEF PriorInv, FreshIsStaged
<1>3. CASE MergeCorpus
  BY <1>3, MergeKeepsMatch DEF MergeCorpus, PriorInv, FreshIsStaged, NoJob
<1>4. CASE StopJob
  BY <1>4 DEF StopJob, PriorInv, EmbeddingsMatch, FreshIsStaged, NoJob
<1>5. CASE ChangeNarrative \/ DeployJob \/ UNCHANGED priorVars
  BY <1>5 DEF ChangeNarrative, DeployJob, priorVars, PriorInv, EmbeddingsMatch, FreshIsStaged,
              Reuses, MergeSource
<1> QED BY <1>1, <1>2, <1>3, <1>4, <1>5 DEF PriorNext

\* Every row's vector is its own narrative's, by the model its provenance names
\* (prior_claims_corpus_job.py).
THEOREM EmbeddingsAlwaysMatch == PriorSpec => []EmbeddingsMatch
<1>1. PriorInv => EmbeddingsMatch
  BY DEF PriorInv
<1> QED BY <1>1, PriorInitially, PriorStep, PTL DEF PriorSpec

-----------------------------------------------------------------------------
(* The fraud graph: union-find *)

\* A forest in which no parent is larger than its child.
IsForest(forest, ids) ==
    /\ ids \subseteq Nat /\ forest \in [ids -> ids]
    /\ \A n \in ids : forest[n] <= n

\* A function that is at each child what it is at the parent, and at a root the root.
Leads(forest, ids, roots) ==
    \A n \in ids : roots[n] = IF forest[n] = n THEN n ELSE roots[forest[n]]

\* Nothing that fails somewhere on the way to a root fails first at a child of which it does not
\* fail at the parent.
LEMMA ForestInduction ==
    ASSUME NEW ids, NEW forest, IsForest(forest, ids), NEW good,
           \A n \in ids : (forest[n] = n \/ forest[n] \in good) => n \in good
    PROVE  ids \subseteq good
<1> DEFINE Bad == ids \ good
<1> SUFFICES ASSUME Bad # {} PROVE FALSE
  OBVIOUS
<1>1. Bad \subseteq Nat
  BY DEF IsForest
<1>2. PICK n \in Bad : \A m \in Bad : n <= m
  <2> HIDE DEF Bad
  <2> QED BY <1>1, Least
<1>3. n \in ids /\ n \in Nat /\ forest[n] \in ids /\ forest[n] \in Nat /\ forest[n] <= n
  BY <1>1 DEF IsForest
<1>4. forest[n] # n /\ forest[n] \notin good
  BY <1>2, <1>3
<1>5. n <= forest[n]
  BY <1>2, <1>3, <1>4
<1> QED BY <1>3, <1>4, <1>5

\* There is such a function: the least of what one meets on the way up.
LEMMA LeadExists ==
    ASSUME NEW ids, NEW forest, IsForest(forest, ids)
    PROVE  \E roots : roots = [n \in ids |-> IF forest[n] = n THEN n ELSE roots[forest[n]]]
<1> DEFINE Closed(up) == \A m \in up : forest[m] \in up
           Up(n) == {m \in ids : \A up \in SUBSET ids : n \in up /\ Closed(up) => m \in up}
           Lowest(n) == CHOOSE m \in Up(n) : \A k \in Up(n) : m <= k
           roots == [n \in ids |-> Lowest(n)]
<1>1. ASSUME NEW n \in ids PROVE n \in Up(n) /\ Up(n) \subseteq Nat /\ forest[n] \in Up(n)
  BY DEF IsForest
<1>2. ASSUME NEW n \in ids PROVE Lowest(n) \in Up(n) /\ \A k \in Up(n) : Lowest(n) <= k
  <2> HIDE DEF Up
  <2>1. \E m \in Up(n) : \A k \in Up(n) : m <= k
    BY <1>1, Least
  <2> QED BY <2>1
<1>3. ASSUME NEW n \in ids, forest[n] = n PROVE Lowest(n) = n
  <2>1. Closed({n}) /\ {n} \in SUBSET ids
    BY <1>3
  <2>2. Up(n) \subseteq {n}
    BY <2>1
  <2> QED BY <1>2, <2>2
<1>4. ASSUME NEW n \in ids, forest[n] # n PROVE Lowest(n) = Lowest(forest[n])
  <2> DEFINE p == forest[n]
  <2>1. p \in ids /\ p < n
    <3>1. p \in ids /\ p <= n /\ p # n /\ ids \subseteq Nat
      BY <1>4 DEF IsForest
    <3>2. p \in Nat /\ n \in Nat
      BY <3>1
    <3> HIDE DEF p
    <3> QED BY <3>1, <3>2
  <2>2. Up(p) \subseteq Up(n)
    <3> SUFFICES ASSUME NEW m \in Up(p), NEW up \in SUBSET ids, n \in up, Closed(up)
                 PROVE  m \in up
      OBVIOUS
    <3>1. p \in up
      OBVIOUS
    <3> QED BY <3>1
  <2>3. Up(n) \subseteq {n} \cup Up(p)
    <3>1. {n} \cup Up(p) \in SUBSET ids /\ n \in {n} \cup Up(p)
      OBVIOUS
    <3>2. ASSUME NEW m \in {n} \cup Up(p) PROVE forest[m] \in {n} \cup Up(p)
      <4>1. CASE m = n
        BY <1>1, <2>1, <4>1
      <4>2. CASE m \in Up(p)
        <5>1. forest[m] \in ids
          BY <4>2 DEF IsForest
        <5>2. ASSUME NEW up \in SUBSET ids, p \in up, Closed(up) PROVE forest[m] \in up
          BY <4>2, <5>2
        <5> QED BY <5>1, <5>2
      <4> QED BY <4>1, <4>2
    <3> QED BY <3>1, <3>2
  <2>4. p \in Up(p) /\ Up(n) \subseteq Nat
    BY <1>1, <2>1
  <2>5. Lowest(p) \in Up(p) /\ \A k \in Up(p) : Lowest(p) <= k
    BY <1>2, <2>1
  <2>6. Lowest(n) \in Up(n) /\ \A k \in Up(n) : Lowest(n) <= k
    BY <1>2
  <2> HIDE DEF Lowest, Up, p
  <2>7. n \in Nat /\ p \in Nat
    BY <2>1 DEF IsForest
  <2>8. Lowest(n) # n /\ Lowest(n) \in Up(p)
    BY <2>1, <2>2, <2>3, <2>4, <2>6, <2>7
  <2>9. Lowest(p) <= Lowest(n) /\ Lowest(n) <= Lowest(p) /\ Lowest(n) \in Nat /\ Lowest(p) \in Nat
    BY <2>2, <2>4, <2>5, <2>6, <2>8
  <2> QED BY <2>9 DEF p
<1> HIDE DEF Lowest
<1>5. roots = [n \in ids |-> IF forest[n] = n THEN n ELSE roots[forest[n]]]
  <2>1. \A n \in ids : forest[n] \in ids
    BY DEF IsForest
  <2> QED BY <1>3, <1>4, <2>1
<1> QED BY <1>5

\* find leads every node to a root, and from there no further.
LEMMA RootsLead ==
    ASSUME NEW ids, NEW forest, IsForest(forest, ids)
    PROVE  /\ Roots(forest) \in [ids -> ids] /\ Leads(forest, ids, Roots(forest))
           /\ \A n \in ids : Roots(forest)[n] <= n /\ forest[Roots(forest)[n]] = Roots(forest)[n]
<1> DEFINE Body(h) == [n \in ids |-> IF forest[n] = n THEN n ELSE h[forest[n]]]
           roots == CHOOSE h : h = Body(h)
<1>1. DOMAIN forest = ids
  BY DEF IsForest
<1>2. Roots(forest) = roots
  BY <1>1 DEF Roots
<1>3. \E h : h = Body(h)
  BY LeadExists
<1>4. roots = Body(roots)
  <2> HIDE DEF Body
  <2> QED BY <1>3
<1> HIDE DEF roots
<1>5. Leads(forest, ids, roots)
  BY <1>4 DEF Leads
<1> DEFINE Good == {n \in ids : roots[n] \in ids /\ roots[n] <= n /\ forest[roots[n]] = roots[n]}
<1>6. ids \subseteq Good
  <2>1. ASSUME NEW n \in ids, forest[n] = n \/ forest[n] \in Good PROVE n \in Good
    <3>1. n \in Nat /\ forest[n] \in Nat /\ forest[n] <= n /\ ids \subseteq Nat
      BY DEF IsForest
    <3>2. CASE forest[n] = n
      BY <1>5, <3>1, <3>2 DEF Leads
    <3>3. CASE forest[n] # n
      <4>1. forest[n] \in Good /\ roots[n] = roots[forest[n]]
        BY <1>5, <2>1, <3>3 DEF Leads
      <4>2. roots[forest[n]] <= forest[n] /\ roots[forest[n]] \in Nat
        BY <3>1, <4>1
      <4>3. roots[forest[n]] <= n
        BY <3>1, <4>2
      <4> QED BY <4>1, <4>3
    <3> QED BY <3>2, <3>3
  <2> HIDE DEF Good
  <2> QED BY <2>1, ForestInduction
<1>7. roots \in [ids -> ids]
  BY <1>4, <1>6
<1> QED BY <1>2, <1>5, <1>6, <1>7

\* Whatever leads to the roots is find.
LEMMA RootsUnique ==
    ASSUME NEW ids, NEW forest, IsForest(forest, ids), NEW roots, Leads(forest, ids, roots)
    PROVE  \A n \in ids : Roots(forest)[n] = roots[n]
<1> DEFINE Good == {n \in ids : Roots(forest)[n] = roots[n]}
<1>1. ids \subseteq Good
  <2>1. ASSUME NEW n \in ids, forest[n] = n \/ forest[n] \in Good PROVE n \in Good
    <3>1. Leads(forest, ids, Roots(forest))
      BY RootsLead
    <3> QED BY <2>1, <3>1 DEF Leads
  <2> HIDE DEF Good
  <2> QED BY <2>1, ForestInduction
<1> QED BY <1>1

\* union: the larger of the two roots hangs below the smaller; whatever led to either leads to
\* the smaller now, and nothing else moves.
LEMMA UnionLeads ==
    ASSUME NEW ids, NEW forest, IsForest(forest, ids), NEW edge, edge[1] \in ids, edge[2] \in ids
    PROVE  LET ends == {Find(forest, edge[1]), Find(forest, edge[2])}
           IN  /\ Min(ends) \in ends /\ IsForest(Union(forest, edge), ids)
               /\ \A n \in ids : Find(Union(forest, edge), n) =
                    IF Find(forest, n) \in ends THEN Min(ends) ELSE Find(forest, n)
<1> DEFINE ends == {Find(forest, edge[1]), Find(forest, edge[2])}
           low == Min(ends)
           high == Max(ends)
           after == Union(forest, edge)
           roots == [n \in ids |-> IF Find(forest, n) \in ends THEN low ELSE Find(forest, n)]
           a == Find(forest, edge[1])
           b == Find(forest, edge[2])
<1>1. ids \subseteq Nat /\ a \in ids /\ b \in ids
  <2>1. Roots(forest) \in [ids -> ids]
    BY RootsLead
  <2> QED BY <2>1 DEF Find, IsForest
<1>2. low \in ends /\ high \in ends /\ \A n \in ends : low <= n /\ high >= n
  <2>1. ends = {a, b} /\ a \in Int /\ b \in Int
    <3>1. ends = {a, b}
      OBVIOUS
    <3> HIDE DEF a, b, ends
    <3> QED BY <1>1, <3>1
  <2> HIDE DEF a, b, ends
  <2>2. \E m \in ends : \A n \in ends : m <= n
    BY <2>1
  <2>3. \E m \in ends : \A n \in ends : m >= n
    BY <2>1
  <2> QED BY <2>2, <2>3 DEF Min, Max
<1>3. after = [forest EXCEPT ![high] = low]
  BY DEF Union
<1>4. /\ \A n \in ids : Find(forest, n) \in ids
      /\ \A e \in ends : e \in ids /\ forest[e] = e /\ Find(forest, e) = e
  <2>1. \A n \in ids : Find(forest, n) \in ids /\ forest[Find(forest, n)] = Find(forest, n)
    BY RootsLead DEF Find
  <2>2. \A n \in ids : forest[n] = n => Find(forest, n) = n
    BY RootsLead DEF Find, Leads
  <2>3. \A e \in ends : e \in ids /\ forest[e] = e
    BY <2>1
  <2> HIDE DEF ends
  <2> QED BY <2>1, <2>2, <2>3
<1>5. ends = {low, high} /\ low <= high
  <2>1. ends = {a, b} /\ a \in Int /\ b \in Int
    <3>1. ends = {a, b}
      OBVIOUS
    <3> HIDE DEF a, b, ends
    <3> QED BY <1>1, <3>1
  <2> HIDE DEF a, b, ends, low, high
  <2> QED BY <1>2, <2>1
<1> HIDE DEF ends, low, high, after
<1>6. IsForest(after, ids)
  BY <1>2, <1>3, <1>4 DEF IsForest
<1>7. Leads(after, ids, roots)
  <2> SUFFICES ASSUME NEW n \in ids
               PROVE  roots[n] = IF after[n] = n THEN n ELSE roots[after[n]]
    BY DEF Leads
  <2>1. Find(forest, n) = IF forest[n] = n THEN n ELSE Find(forest, forest[n])
    BY RootsLead DEF Find, Leads
  <2>2. after[n] = IF n = high THEN low ELSE forest[n]
    BY <1>3 DEF IsForest
  <2>3. CASE n = high
    BY <1>2, <1>4, <2>2, <2>3
  <2>4. CASE n # high /\ forest[n] = n
    BY <1>4, <1>5, <2>1, <2>2, <2>4
  <2>5. CASE n # high /\ forest[n] # n
    <3>1. forest[n] \in ids
      BY DEF IsForest
    <3> QED BY <2>1, <2>2, <2>5, <3>1
  <2> QED BY <2>3, <2>4, <2>5
<1>8. \A n \in ids : Find(after, n) = roots[n]
  BY <1>6, <1>7, RootsUnique DEF Find
<1> QED BY <1>2, <1>6, <1>8 DEF ends, low, after

-----------------------------------------------------------------------------
(* The fraud graph: scores *)

\* A quotient is below a number exactly when the dividend is below that many divisors.
LEMMA QuotientBelow ==
    ASSUME NEW x \in Int, NEW d \in Nat \ {0}, NEW k \in Nat
    PROVE  x \div d \in Int /\ (x \div d >= k <=> x >= k * d)
<1> DEFINE q == x \div d
           r == x % d
<1>1. q \in Int /\ r \in 0 .. d - 1 /\ x = q * d + r
  BY Z3
<1> HIDE DEF q, r
<1>2. CASE q >= k
  <2>1. q * d >= k * d
    BY <1>1, <1>2, Z3
  <2> QED BY <1>1, <1>2, <2>1
<1>3. CASE q < k
  <2>1. (q + 1) * d <= k * d /\ (q + 1) * d = q * d + d
    BY <1>1, <1>3, Z3
  <2> QED BY <1>1, <1>3, <2>1
<1> QED BY <1>1, <1>2, <1>3 DEF q

\* Up to the largest heat, rounding tells half from a little more.
LEMMA ScoreTellsHalf ==
    ASSUME NEW size \in 1 .. LargestHeat, NEW customers \in Nat
    PROVE  /\ RiskScore(size, customers) \in Int
           /\ RiskScore(size, customers) >= 7500 <=> 2 * customers <= size
<1> DEFINE x == 30000 * (size - customers) + size
           q == x \div (2 * size)
<1>1. size \in Nat /\ size >= 1 /\ size <= 15000 /\ x \in Int /\ 2 * size \in Nat \ {0}
  BY DEF LargestHeat
<1>2. q \in Int /\ (q >= 7500 <=> x >= 7500 * (2 * size))
  <2> HIDE DEF x
  <2> QED BY <1>1, QuotientBelow
<1>3. x >= 7500 * (2 * size) <=> 2 * customers <= size
  BY <1>1
<1>4. RiskScore(size, customers) = Min({10000, q})
  BY DEF RiskScore
<1> HIDE DEF q
<1>5. /\ Min({10000, q}) \in {10000, q}
      /\ Min({10000, q}) <= 10000 /\ Min({10000, q}) <= q
  <2>1. \E m \in {10000, q} : \A n \in {10000, q} : m <= n
    BY <1>2
  <2> QED BY <2>1 DEF Min
<1> QED BY <1>2, <1>3, <1>4, <1>5

-----------------------------------------------------------------------------
(* The fraud graph: claims and edges *)

\* What the assumption says of the claims that are current.
LEMMA NetworkType ==
    ASSUME NEW claims \in Networks
    PROVE  /\ Len(claims) \in Nat /\ DOMAIN claims = 1 .. Len(claims)
           /\ ToSet(claims) = {claims[i] : i \in 1 .. Len(claims)}
           /\ ToSet(claims) \subseteq Claim /\ IsFiniteSet(ToSet(claims))
           /\ \A c, d \in ToSet(claims) : c.id = d.id => c = d
           /\ Ids(claims) \subseteq Nat
           /\ \A c \in ToSet(claims) : c.heat # 0 =>
                Cardinality({d \in ToSet(claims) : d.heat = c.heat}) <= LargestHeat
<1>1. claims \in Seq(Claim) /\ Len(claims) \in Nat /\ DOMAIN claims = 1 .. Len(claims)
  BY HeatClustersAssumption
<1>2. ToSet(claims) = {claims[i] : i \in 1 .. Len(claims)}
  BY <1>1 DEF ToSet
<1>3. ToSet(claims) \subseteq Claim
  BY <1>1, <1>2
<1>4. IsFiniteSet(ToSet(claims))
  <2> DEFINE length == Len(claims)
             at == [i \in 1 .. length |-> claims[i]]
  <2>1. at \in Surjection(1 .. length, ToSet(claims))
    BY <1>1, <1>2 DEF Surjection
  <2>2. length \in Int /\ 1 \in Int
    BY <1>1
  <2> HIDE DEF length, at
  <2>3. IsFiniteSet(1 .. length)
    BY <2>2, FS_Interval
  <2> QED BY <2>1, <2>3, FS_Surjection
<1>5. \A c, d \in ToSet(claims) : c.id = d.id => c = d
  BY <1>1, <1>2, HeatClustersAssumption
<1>6. \A c \in ToSet(claims) : c.heat # 0 =>
        Cardinality({d \in ToSet(claims) : d.heat = c.heat}) <= LargestHeat
  BY <1>1, <1>2, HeatClustersAssumption
<1>7. Ids(claims) \subseteq Nat
  BY <1>3 DEF Ids, Claim
<1> QED BY <1>1, <1>2, <1>3, <1>4, <1>5, <1>6, <1>7

\* An edge joins two claims of one heat.
LEMMA EdgesAre ==
    ASSUME NEW claims \in Networks, NEW edge \in BuildEdges(claims)
    PROVE  \E c, d \in ToSet(claims) :
             edge = <<c.id, d.id>> /\ c.heat = d.heat /\ c.heat # 0
<1>1. PICK first \in Firsts(claims) :
        edge \in ChainEdges(first, {c \in ToSet(claims) : c.heat = first.heat})
  BY DEF BuildEdges
<1>2. first \in ToSet(claims) /\ first.heat # 0
  BY NetworkType DEF Firsts
<1> QED BY <1>1, <1>2 DEF ChainEdges

\* The first claim of a heat is joined with every other.
LEMMA HeatsAreChained ==
    ASSUME NEW claims \in Networks, NEW c \in ToSet(claims), c.heat # 0
    PROVE  \E first \in ToSet(claims) :
             \A d \in ToSet(claims) : d.heat = c.heat /\ d # first =>
               <<first.id, d.id>> \in BuildEdges(claims)
<1> DEFINE Places == {i \in 1 .. Len(claims) : claims[i].heat = c.heat}
<1>1. Places \subseteq Nat /\ Places # {} /\ Len(claims) \in Nat
  BY NetworkType
<1>2. PICK i \in Places : \A j \in Places : i <= j
  <2> HIDE DEF Places
  <2> QED BY <1>1, Least
<1>3. claims[i] \in ToSet(claims) /\ i \in DOMAIN claims /\ claims[i].heat = c.heat
  BY NetworkType
<1>4. \A k \in 1 .. i - 1 : claims[k].heat # claims[i].heat
  <2> SUFFICES ASSUME NEW k \in 1 .. i - 1, k \in Places PROVE FALSE
    BY <1>1, <1>3
  <2>1. i <= k /\ i \in Nat
    BY <1>1, <1>2
  <2> QED BY <2>1
<1>5. claims[i] \in Firsts(claims)
  BY <1>3, <1>4 DEF Firsts
<1> QED BY <1>3, <1>5 DEF BuildEdges, ChainEdges

-----------------------------------------------------------------------------
(* The fraud graph: the invariant *)

\* What is found of a claim is itself or one of its heat.
FindsItsHeat(claims, forest) ==
    \A c \in ToSet(claims) : \E d \in ToSet(claims) :
      d.id = Find(forest, c.id) /\ (d = c \/ (c.heat # 0 /\ d.heat = c.heat))

\* Of an edge that has been united both ends are found together.
United(done, forest) == \A e \in done : Find(forest, e[1]) = Find(forest, e[2])

HeatInv ==
    /\ network \in Networks
    /\ IsForest(parent, Ids(network)) /\ edges \subseteq BuildEdges(network)
    /\ FindsItsHeat(network, parent) /\ United(BuildEdges(network) \ edges, parent)
    /\ scored => edges = {} /\ published = ScoreClusters(network, Roots(parent))

\* No edge is united at first, and every claim is found by itself.
LEMMA HeatStarts == HeatInit => HeatInv
<1> SUFFICES ASSUME HeatInit PROVE HeatInv
  OBVIOUS
<1>1. network \in Networks /\ edges = BuildEdges(network) /\ ~scored
  BY DEF HeatInit
<1>2. IsForest(parent, Ids(network)) /\ \A n \in Ids(network) : parent[n] = n
  BY <1>1, NetworkType DEF HeatInit, IsForest
<1>3. \A n \in Ids(network) : Find(parent, n) = n
  BY <1>2, RootsLead DEF Find, Leads
<1>4. FindsItsHeat(network, parent)
  BY <1>3 DEF FindsItsHeat, Ids
<1> QED BY <1>1, <1>2, <1>4 DEF HeatInv, United

\* A union finds no claim a root of another heat, and keeps together what has been united.
LEMMA UnionKeeps ==
    ASSUME HeatInv, ConnectedComponents
    PROVE  HeatInv'
<1>1. PICK edge \in edges : parent' = Union(parent, edge) /\ edges' = edges \ {edge}
  BY DEF ConnectedComponents
<1>2. network' = network /\ scored' = scored /\ published' = published /\ ~scored
  BY <1>1 DEF ConnectedComponents, HeatInv
<1>3. PICK p, q \in ToSet(network) : edge = <<p.id, q.id>> /\ p.heat = q.heat /\ p.heat # 0
  BY EdgesAre DEF HeatInv
<1> DEFINE ends == {Find(parent, edge[1]), Find(parent, edge[2])}
           low == Min(ends)
<1>4. edge[1] = p.id /\ edge[2] = q.id /\ edge[1] \in Ids(network) /\ edge[2] \in Ids(network)
  BY <1>3 DEF Ids
<1>5. /\ low \in ends /\ IsForest(parent', Ids(network))
      /\ \A n \in Ids(network) : Find(parent', n) =
           IF Find(parent, n) \in ends THEN low ELSE Find(parent, n)
  <2>1. IsForest(parent, Ids(network))
    BY DEF HeatInv
  <2>2. LET sides == {Find(parent, edge[1]), Find(parent, edge[2])}
        IN  /\ Min(sides) \in sides /\ IsForest(Union(parent, edge), Ids(network))
            /\ \A n \in Ids(network) : Find(Union(parent, edge), n) =
                 IF Find(parent, n) \in sides THEN Min(sides) ELSE Find(parent, n)
    BY <1>4, <2>1, UnionLeads
  <2> QED BY <1>1, <2>2
<1>6. \A c \in ToSet(network) : c.id \in Ids(network)
  BY DEF Ids
<1>7. /\ network \in Networks /\ FindsItsHeat(network, parent)
      /\ United(BuildEdges(network) \ edges, parent)
  BY DEF HeatInv
<1>8. \E d \in ToSet(network) : d.id = Find(parent, edge[1]) /\ d.heat = p.heat
  BY <1>3, <1>4, <1>7 DEF FindsItsHeat
<1>9. \E d \in ToSet(network) : d.id = Find(parent, edge[2]) /\ d.heat = p.heat
  BY <1>3, <1>4, <1>7 DEF FindsItsHeat
<1>10. \A n \in ends : \E d \in ToSet(network) : d.id = n /\ d.heat = p.heat
  BY <1>8, <1>9
<1>11. Find(parent, edge[1]) \in ends /\ Find(parent, edge[2]) \in ends
  OBVIOUS
<1> HIDE DEF ends, low
<1>12. FindsItsHeat(network, parent')
  <2> SUFFICES ASSUME NEW c \in ToSet(network)
               PROVE  \E d \in ToSet(network) :
                        d.id = Find(parent', c.id) /\ (d = c \/ (c.heat # 0 /\ d.heat = c.heat))
    BY DEF FindsItsHeat
  <2>1. PICK d \in ToSet(network) :
          d.id = Find(parent, c.id) /\ (d = c \/ (c.heat # 0 /\ d.heat = c.heat))
    BY <1>7 DEF FindsItsHeat
  <2>2. CASE Find(parent, c.id) \notin ends
    <3>1. Find(parent', c.id) = Find(parent, c.id)
      BY <1>5, <1>6, <2>2
    <3> QED BY <2>1, <3>1
  <2>3. CASE Find(parent, c.id) \in ends
    <3>1. Find(parent', c.id) = low
      BY <1>5, <1>6, <2>3
    <3>2. PICK e \in ToSet(network) : e.id = Find(parent, c.id) /\ e.heat = p.heat
      BY <1>10, <2>3
    <3>3. d = e
      BY <1>7, <2>1, <3>2, NetworkType
    <3>4. c.heat = p.heat /\ c.heat # 0
      BY <1>3, <2>1, <3>2, <3>3
    <3> QED BY <1>5, <1>10, <3>1, <3>4
  <2> QED BY <2>2, <2>3
<1>13. United(BuildEdges(network) \ edges', parent')
  <2> SUFFICES ASSUME NEW e \in BuildEdges(network) \ edges'
               PROVE  Find(parent', e[1]) = Find(parent', e[2])
    BY DEF United
  <2>1. e[1] \in Ids(network) /\ e[2] \in Ids(network)
    <3>1. PICK c, d \in ToSet(network) : e = <<c.id, d.id>>
      BY <1>7, EdgesAre
    <3> QED BY <1>6, <3>1
  <2>2. CASE e = edge
    BY <1>4, <1>5, <1>11, <2>2
  <2>3. CASE e # edge
    <3>1. Find(parent, e[1]) = Find(parent, e[2])
      BY <1>1, <1>7, <2>3 DEF United
    <3> QED BY <1>5, <2>1, <3>1
  <2> QED BY <2>2, <2>3
<1> QED BY <1>1, <1>2, <1>5, <1>7, <1>12, <1>13 DEF HeatInv

\* Neither a union nor the scoring breaks it.
LEMMA HeatStep == HeatInv /\ [HeatNext]_heatVars => HeatInv'
<1> SUFFICES ASSUME HeatInv, [HeatNext]_heatVars PROVE HeatInv'
  OBVIOUS
<1>1. CASE ConnectedComponents
  BY <1>1, UnionKeeps
<1>2. CASE FraudGraphJob
  BY <1>2 DEF FraudGraphJob, HeatInv
<1>3. CASE UNCHANGED heatVars
  BY <1>3 DEF heatVars, HeatInv
<1> QED BY <1>1, <1>2, <1>3 DEF HeatNext

-----------------------------------------------------------------------------
(* The fraud graph: what is published *)

\* Once every edge is united, the claims of a cluster are those of its heat, named by the
\* smallest.
LEMMA ClustersAreHeats ==
    ASSUME HeatInv, edges = {}, NEW claim \in ToSet(network), claim.heat # 0
    PROVE  LET ofHeat == {c \in ToSet(network) : c.heat = claim.heat}
           IN  /\ {c \in ToSet(network) : Find(parent, c.id) = Find(parent, claim.id)} = ofHeat
               /\ Find(parent, claim.id) = Min({c.id : c \in ofHeat})
<1> DEFINE ofHeat == {c \in ToSet(network) : c.heat = claim.heat}
           ids == {c.id : c \in ofHeat}
           root == Find(parent, claim.id)
<1>1. /\ network \in Networks /\ IsForest(parent, Ids(network))
      /\ FindsItsHeat(network, parent) /\ United(BuildEdges(network), parent)
  BY DEF HeatInv
<1>2. PICK first \in ToSet(network) :
        \A d \in ToSet(network) : d.heat = claim.heat /\ d # first =>
          <<first.id, d.id>> \in BuildEdges(network)
  BY <1>1, HeatsAreChained
<1>3. ASSUME NEW d \in ofHeat PROVE Find(parent, d.id) = Find(parent, first.id)
  <2>1. CASE d = first
    BY <2>1
  <2>2. CASE d # first
    <3>1. <<first.id, d.id>> \in BuildEdges(network)
      BY <1>2, <2>2
    <3>2. Find(parent, <<first.id, d.id>>[1]) = Find(parent, <<first.id, d.id>>[2])
      BY <1>1, <3>1 DEF United
    <3> QED BY <3>2
  <2> QED BY <2>1, <2>2
<1>4. claim \in ofHeat
  OBVIOUS
<1>5. \A c \in ofHeat : Find(parent, c.id) = root
  BY <1>3, <1>4
<1>6. PICK d \in ToSet(network) : d.id = root /\ d.heat = claim.heat
  BY <1>1 DEF FindsItsHeat
<1>7. ASSUME NEW c \in ToSet(network), Find(parent, c.id) = root PROVE c \in ofHeat
  <2>1. PICK e \in ToSet(network) : e.id = root /\ (e = c \/ e.heat = c.heat)
    BY <1>1, <1>7 DEF FindsItsHeat
  <2>2. e = d
    BY <1>1, <1>6, <2>1, NetworkType
  <2> QED BY <1>6, <2>1, <2>2
<1>8. root \in ids /\ \A n \in ids : root <= n
  <2>1. root \in ids
    BY <1>6
  <2>2. ASSUME NEW c \in ofHeat PROVE root <= c.id
    <3>1. c.id \in Ids(network)
      BY DEF Ids
    <3>2. Find(parent, c.id) <= c.id
      BY <1>1, <3>1, RootsLead DEF Find
    <3> QED BY <1>5, <3>2
  <2> QED BY <2>1, <2>2
<1>9. ids \subseteq Nat
  BY <1>1, NetworkType DEF Ids
<1> HIDE DEF ids, root
<1>10. root = Min(ids)
  <2>1. Min(ids) \in ids /\ \A n \in ids : Min(ids) <= n
    BY <1>8 DEF Min
  <2>2. root <= Min(ids) /\ Min(ids) <= root /\ root \in Nat /\ Min(ids) \in Nat
    BY <1>8, <1>9, <2>1
  <2> QED BY <2>2
<1> QED BY <1>5, <1>7, <1>10 DEF ids, root

\* fraud_graph.py:66-69: whatever claims are current and in whatever order they are united, each
\* customer of a heat gets one row; it counts the claims and the customers of that heat and of no
\* other, is named by the heat's smallest claim, and is high exactly for three claims or more, two
\* or more to a customer.
THEOREM RiskAlwaysOfTheHeat == HeatSpec => []RiskIsOfTheHeat
<1>1. HeatInv => RiskIsOfTheHeat
  <2> SUFFICES ASSUME HeatInv, scored, NEW claim \in Scorable(network)
               PROVE  LET ofHeat == {c \in ToSet(network) : c.heat = claim.heat}
                          size == Cardinality(ofHeat)
                          customers == Cardinality(Customers(ofHeat))
                      IN  \E row \in published :
                            /\ {r \in published : r.customer = claim.customer /\ r.heat = claim.heat}
                                 = {row}
                            /\ row.cluster_id = Min({c.id : c \in ofHeat})
                            /\ row.cluster_size = size /\ row.n_customers = customers
                            /\ row.high_risk <=> size >= 3 /\ 2 * customers <= size
    BY DEF RiskIsOfTheHeat
  <2> DEFINE ofHeat == {c \in ToSet(network) : c.heat = claim.heat}
             size == Cardinality(ofHeat)
             customers == Cardinality(Customers(ofHeat))
             smallest == Min({c.id : c \in ofHeat})
             score == RiskScore(size, customers)
             row == [customer |-> claim.customer, heat |-> claim.heat, cluster_id |-> smallest,
                     cluster_size |-> size, n_customers |-> customers, risk_score |-> score,
                     high_risk |-> IsHighRisk(score, size)]
             roots == Roots(parent)
             Rows == {RiskRow(network, roots, c) : c \in Scorable(network)}
  <2>1. /\ network \in Networks /\ edges = {} /\ published = ScoreClusters(network, roots)
        /\ claim \in ToSet(network) /\ claim.heat # 0
    BY DEF HeatInv, Scorable
  <2>2. ASSUME NEW c \in Scorable(network), c.customer = claim.customer, c.heat = claim.heat
        PROVE  RiskRow(network, roots, c) = row
    <3>1. c \in ToSet(network) /\ c.heat # 0
      BY DEF Scorable
    <3>2. /\ {d \in ToSet(network) : Find(parent, d.id) = Find(parent, c.id)} = ofHeat
          /\ Find(parent, c.id) = smallest
      BY <2>1, <2>2, <3>1, ClustersAreHeats
    <3>3. {d \in ToSet(network) : roots[d.id] = roots[c.id]} = ofHeat /\ roots[c.id] = smallest
      BY <3>2 DEF Find
    <3> HIDE DEF ofHeat, smallest, roots
    <3> QED BY <2>2, <3>3 DEF RiskRow
  <2>3. \A c \in Scorable(network) :
          /\ RiskRow(network, roots, c).customer = c.customer
          /\ RiskRow(network, roots, c).heat = c.heat
    BY DEF RiskRow
  <2>4. row \in Rows /\ row.customer = claim.customer /\ row.heat = claim.heat
    BY <2>2
  <2>5. size \in 1 .. LargestHeat /\ customers \in Nat
    <3>1. IsFiniteSet(ofHeat) /\ size <= LargestHeat /\ claim \in ofHeat
      <4>1. IsFiniteSet(ToSet(network)) /\ ofHeat \in SUBSET ToSet(network)
        BY <2>1, NetworkType
      <4>2. size <= LargestHeat
        BY <2>1, NetworkType DEF Scorable
      <4> QED BY <2>1, <4>1, <4>2, FS_Subset
    <3>2. size \in Nat /\ size # 0
      <4> HIDE DEF ofHeat
      <4> QED BY <3>1, FS_CardinalityType, FS_EmptySet
    <3>3. IsFiniteSet(Customers(ofHeat))
      <4> DEFINE all == {c.customer : c \in ofHeat}
                 of == [c \in ofHeat |-> c.customer]
      <4>1. of \in Surjection(ofHeat, all)
        BY DEF Surjection
      <4> HIDE DEF of, ofHeat
      <4>2. IsFiniteSet(all)
        <5> HIDE DEF all
        <5> QED BY <3>1, <4>1, FS_Surjection
      <4>3. Customers(ofHeat) \in SUBSET all
        BY DEF Customers
      <4> HIDE DEF all
      <4> QED BY <4>2, <4>3, FS_Subset
    <3>4. customers \in Nat
      <4> HIDE DEF ofHeat
      <4> QED BY <3>3, FS_CardinalityType
    <3> HIDE DEF size
    <3> QED BY <3>1, <3>2, <3>4, SMTT(30) DEF LargestHeat
  <2>6. row.risk_score = score /\ score \in Int
    <3>1. row.risk_score = score
      OBVIOUS
    <3> HIDE DEF size, customers
    <3> QED BY <2>5, <3>1, ScoreTellsHalf
  <2> HIDE DEF row, ofHeat, size, customers, smallest, score, roots
  <2>7. \A r \in Rows : r.customer = claim.customer /\ r.heat = claim.heat => r = row
    BY <2>2, <2>3
  <2> HIDE DEF Rows
  <2>8. row \in published /\ \A r \in published : r \in Rows
    BY <2>1, <2>4, <2>7, <2>6 DEF ScoreClusters, Rows
  <2>9. {r \in published : r.customer = claim.customer /\ r.heat = claim.heat} = {row}
    BY <2>4, <2>7, <2>8
  <2>10. IsHighRisk(score, size) <=> size >= 3 /\ 2 * customers <= size
    BY <2>5, ScoreTellsHalf DEF IsHighRisk, score
  <2>11. /\ row.cluster_id = smallest /\ row.cluster_size = size /\ row.n_customers = customers
         /\ row.high_risk <=> size >= 3 /\ 2 * customers <= size
    BY <2>10 DEF row
  <2> QED BY <2>8, <2>9, <2>11 DEF smallest, size, customers, ofHeat
<1> QED BY <1>1, HeatStarts, HeatStep, PTL DEF HeatSpec
================================================================================
