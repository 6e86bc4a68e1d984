---------------------------- MODULE Startup_proof ----------------------------
(***************************************************************************)
(* For any number of containers, upgrades by hand and faults, and for each *)
(* service: its migration is all or nothing, and none of its containers    *)
(* serves before its database has all that the models declare.             *)
(***************************************************************************)
EXTENDS Startup, SequenceTheorems, TLAPS

Whole == UNION {Statements[i] : i \in DOMAIN Statements}

Name ==
  {"alembic_version", "revision"}
  \cup AuditEvent \cup User \cup Issue \cup Project \cup TenantAndMembership

(* Only a transaction that is open has made anything. *)
OpenTransactions ==
  \A m \in Migrator :
    /\ stage[m] # "upgrading" => done[m] = 0
    /\ stage[m] = "upgrading" => done[m] <= Len(Statements)
    /\ stage[m] \in UpgradeStage => service \in Migrating

(* An application is imported only after its upgrade, if it has one. *)
UpgradedFirst ==
  \A c \in Container :
    stage[c] \notin UpgradeStage \cup {"down"} /\ service \in Migrating => schema = Whole

StartupInv ==
  /\ StartupTypeOK
  /\ OpenTransactions
  /\ UpgradedFirst
  /\ schema \in {{}, Whole}

-----------------------------------------------------------------------------
(* What stands between the first and the last statement. *)
LEMMA Framed ==
  ASSUME NEW S, NEW s \in Seq(S), NEW a \in S, NEW b \in S,
         NEW t, t = <<a>> \o s \o <<b>>
  PROVE  /\ t \in Seq(S)
         /\ Len(t) = Len(s) + 2
         /\ t[Len(s) + 2] = b
         /\ \A i \in 1 .. Len(s) : t[i + 1] = s[i]
<1>. DEFINE u == <<a>> \o s
<1>1. <<a>> \in Seq(S) /\ Len(<<a>>) = 1 /\ <<b>> \in Seq(S) /\ Len(<<b>>) = 1 /\ <<b>>[1] = b
  OBVIOUS
<1>2. /\ u \in Seq(S) /\ Len(u) = Len(s) + 1
      /\ \A i \in 1 .. Len(s) : u[i + 1] = s[i]
  BY <1>1, ConcatProperties, LenProperties
<1>3. /\ t \in Seq(S) /\ Len(t) = Len(u) + 1
      /\ \A i \in 1 .. Len(u) : t[i] = u[i]
      /\ t[Len(u) + 1] = <<b>>[1]
  <2>. HIDE DEF u
  <2>1. t = u \o <<b>>
    BY DEF u
  <2>. QED
    BY <1>1, <1>2, <2>1, ConcatProperties, LenProperties
<1>. QED
  BY <1>1, <1>2, <1>3, LenProperties

LEMMA PairIsSeq ==
  ASSUME NEW S, NEW a \in S, NEW b \in S
  PROVE  <<a, b>> \in Seq(S)
OBVIOUS

LEMMA FiveAreSeq ==
  ASSUME NEW S, NEW a \in S, NEW b \in S, NEW c \in S, NEW d \in S, NEW e \in S
  PROVE  <<a, b, c, d, e>> \in Seq(S)
OBVIOUS

(* An upgrade is a sequence of sets of names. *)
LEMMA UpgradeIsSeq ==
  ASSUME service \in Migrating
  PROVE  Upgrade[service] \in Seq(SUBSET Name)
<1>1. Upgrade[service] \in
        {AuditUpgrade, AuthUpgrade, IssuesUpgrade, ProjectsUpgrade, TenantUpgrade}
  BY DEF Migrating, Upgrade
<1>2. \A x, y \in Name : {x} \in SUBSET Name /\ {x, y} \in SUBSET Name
  OBVIOUS
<1>3. AuditEvent \cup User \cup Issue \cup Project \cup TenantAndMembership \subseteq Name
  BY DEF Name
<1>4. AuditUpgrade \in Seq(SUBSET Name) /\ AuthUpgrade \in Seq(SUBSET Name)
  BY <1>2, <1>3, PairIsSeq DEF AuditUpgrade, AuthUpgrade, AuditEvent, User
<1>5. IssuesUpgrade \in Seq(SUBSET Name) /\ ProjectsUpgrade \in Seq(SUBSET Name)
  BY <1>2, <1>3, PairIsSeq DEF IssuesUpgrade, ProjectsUpgrade, Issue, Project
<1>6. {"memberships", "ck_membership_role", "uq_membership_tenant_user"} \in SUBSET Name
  BY <1>3 DEF TenantAndMembership
<1>7. TenantUpgrade \in Seq(SUBSET Name)
  BY <1>2, <1>3, <1>6, FiveAreSeq DEF TenantUpgrade, TenantAndMembership
<1>. QED
  BY <1>1, <1>4, <1>5, <1>7

LEMMA StatementsProperties ==
  ASSUME service \in Migrating
  PROVE  /\ Statements \in Seq(SUBSET Name)
         /\ Len(Statements) \in Nat \ {0}
         /\ DOMAIN Statements = 1 .. Len(Statements)
         /\ "revision" \in Whole
         /\ \A i \in 1 .. Len(Upgrade[service]) : Upgrade[service][i] \subseteq Whole
<1>. DEFINE s == Upgrade[service]
<1>1. s \in Seq(SUBSET Name)
  BY UpgradeIsSeq
<1>2. /\ Statements \in Seq(SUBSET Name)
      /\ Len(Statements) = Len(s) + 2
      /\ Statements[Len(s) + 2] = {"revision"}
      /\ \A i \in 1 .. Len(s) : Statements[i + 1] = s[i]
  <2>. HIDE DEF s
  <2>1. Statements = <<{"alembic_version"}>> \o s \o <<{"revision"}>>
    BY DEF Statements, s
  <2>2. {"alembic_version"} \in SUBSET Name /\ {"revision"} \in SUBSET Name
    BY DEF Name
  <2>. QED
    BY <1>1, <2>1, <2>2, Framed
<1>3. Len(s) \in Nat /\ DOMAIN Statements = 1 .. Len(Statements)
  BY <1>1, <1>2, LenProperties
<1>4. Len(s) + 2 \in DOMAIN Statements /\ \A i \in 1 .. Len(s) : i + 1 \in DOMAIN Statements
  BY <1>2, <1>3
<1>. QED
  BY <1>2, <1>3, <1>4 DEF Whole

(* The migration makes all that the models declare, service by service. *)
LEMMA DeclaredIsMade ==
  ASSUME service \in Migrating
  PROVE  Declared[service] \subseteq Whole
<1>. USE StatementsProperties
<1>1. CASE service = "audit"
  <2>1. Upgrade[service] = AuditUpgrade /\ Declared[service] = AuditEvent
    BY <1>1 DEF Upgrade, Declared
  <2>2. AuditUpgrade[1] \subseteq Whole /\ AuditUpgrade[2] \subseteq Whole
    BY <2>1 DEF AuditUpgrade
  <2>. QED
    BY <2>1, <2>2 DEF AuditUpgrade, AuditEvent
<1>2. CASE service = "auth"
  <2>1. Upgrade[service] = AuthUpgrade /\ Declared[service] = User
    BY <1>2 DEF Upgrade, Declared
  <2>2. AuthUpgrade[1] \subseteq Whole /\ AuthUpgrade[2] \subseteq Whole
    BY <2>1 DEF AuthUpgrade
  <2>. QED
    BY <2>1, <2>2 DEF AuthUpgrade, User
<1>3. CASE service = "issues"
  <2>1. Upgrade[service] = IssuesUpgrade /\ Declared[service] = Issue
    BY <1>3 DEF Upgrade, Declared
  <2>2. IssuesUpgrade[1] \subseteq Whole /\ IssuesUpgrade[2] \subseteq Whole
    BY <2>1 DEF IssuesUpgrade
  <2>. QED
    BY <2>1, <2>2 DEF IssuesUpgrade, Issue
<1>4. CASE service = "projects"
  <2>1. Upgrade[service] = ProjectsUpgrade /\ Declared[service] = Project
    BY <1>4 DEF Upgrade, Declared
  <2>2. ProjectsUpgrade[1] \subseteq Whole /\ ProjectsUpgrade[2] \subseteq Whole
    BY <2>1 DEF ProjectsUpgrade
  <2>. QED
    BY <2>1, <2>2 DEF ProjectsUpgrade, Project
<1>5. CASE service = "tenant"
  <2>1. Upgrade[service] = TenantUpgrade /\ Declared[service] = TenantAndMembership
    BY <1>5 DEF Upgrade, Declared
  <2>2. Len(TenantUpgrade) = 5
    BY DEF TenantUpgrade
  <2>3. \A i \in 1 .. 5 : TenantUpgrade[i] \subseteq Whole
    BY <2>1, <2>2
  <2>4. /\ TenantUpgrade[1] \subseteq Whole /\ TenantUpgrade[2] \subseteq Whole
        /\ TenantUpgrade[3] \subseteq Whole /\ TenantUpgrade[4] \subseteq Whole
        /\ TenantUpgrade[5] \subseteq Whole
    BY <2>3
  <2>5. /\ TenantUpgrade[1] = {"tenants"} /\ TenantUpgrade[2] = {"ix_tenants_slug"}
        /\ TenantUpgrade[3] = {"memberships", "ck_membership_role", "uq_membership_tenant_user"}
        /\ TenantUpgrade[4] = {"ix_memberships_tenant_id"}
        /\ TenantUpgrade[5] = {"ix_memberships_user_id"}
    BY DEF TenantUpgrade
  <2>. QED
    BY <2>1, <2>4, <2>5 DEF TenantAndMembership
<1>. QED
  BY <1>1, <1>2, <1>3, <1>4, <1>5 DEF Migrating, Upgrade

(* A transaction with all its statements executed has made everything. *)
LEMMA AllIsWhole ==
  ASSUME service \in Migrating, NEW m, done[m] = Len(Statements)
  PROVE  Made(m) = Whole
BY StatementsProperties DEF Made, Whole

-----------------------------------------------------------------------------
(* An empty database with nothing running satisfies the invariant.         *)
THEOREM StartupInvInit ==
  ASSUME StartupInit
  PROVE  StartupInv
<1>1. \A m \in Migrator : stage[m] = "down" /\ done[m] = 0
  BY DEF StartupInit
<1>2. stage \in [Migrator -> Stage] /\ done \in [Migrator -> Nat]
  BY DEF StartupInit, Stage
<1>3. StartupTypeOK
  BY <1>2, StartupAssumption DEF StartupInit, StartupTypeOK
<1>4. OpenTransactions
  BY <1>1 DEF OpenTransactions, UpgradeStage
<1>5. UpgradedFirst
  BY <1>1 DEF UpgradedFirst, Migrator
<1>. QED
  BY <1>3, <1>4, <1>5 DEF StartupInit, StartupInv

(* What is said of the schema survives when the schema does. *)
LEMMA SameWhole ==
  ASSUME UNCHANGED service
  PROVE  Statements' = Statements /\ Whole' = Whole
BY DEF Statements, Whole

(* A process that ends leaves no transaction open. *)
LEMMA ExitKeeps ==
  ASSUME StartupInv, NEW m \in Migrator, Exit(m),
         UNCHANGED <<service, home>>, schema' \in {{}, Whole}, schema \subseteq schema',
         faults' \in 0 .. MaxFaults
  PROVE  StartupInv'
<1>. USE DEF StartupInv
<1>1. \A n \in Migrator :
        \/ stage'[n] = "down" /\ done'[n] = 0
        \/ stage'[n] = stage[n] /\ done'[n] = done[n]
  BY DEF Exit
<1>2. stage' \in [Migrator -> Stage] /\ done' \in [Migrator -> Nat]
  BY DEF Exit, StartupTypeOK, Stage
<1>3. StartupTypeOK'
  BY <1>2 DEF StartupTypeOK
<1>4. OpenTransactions'
  BY <1>1, SameWhole DEF OpenTransactions, UpgradeStage
<1>5. schema = Whole => schema' = Whole
  OBVIOUS
<1>6. UpgradedFirst'
  BY <1>1, <1>5, SameWhole DEF UpgradedFirst, Migrator
<1>. QED
  BY <1>3, <1>4, <1>6, SameWhole

(* An upgrade ends well only on a whole schema. *)
LEMMA SucceedKeeps ==
  ASSUME StartupInv, NEW m \in Migrator, Succeed(m),
         UNCHANGED <<service, home, faults>>, schema' = Whole
  PROVE  StartupInv'
<1>. USE DEF StartupInv
<1>1. /\ stage' \in [Migrator -> Stage] /\ done' \in [Migrator -> Nat]
      /\ stage'[m] \in {"importing", "down"} /\ done'[m] = 0
      /\ \A n \in Migrator \ {m} : stage'[n] = stage[n] /\ done'[n] = done[n]
  BY DEF Succeed, StartupTypeOK, Stage
<1>2. StartupTypeOK'
  BY <1>1 DEF StartupTypeOK
<1>3. OpenTransactions'
  BY <1>1, SameWhole DEF OpenTransactions, UpgradeStage
<1>4. UpgradedFirst'
  BY SameWhole DEF UpgradedFirst
<1>. QED
  BY <1>2, <1>3, <1>4, SameWhole

(* A step of m alone to a stage after the one it was in. *)
LEMMA AdvanceKeeps ==
  ASSUME StartupInv, NEW m \in Migrator, NEW to \in Stage,
         stage' = [stage EXCEPT ![m] = to],
         UNCHANGED <<service, schema, done, faults>>, home' \in [Hand -> Container],
         done[m] = 0,
         to \in UpgradeStage => service \in Migrating,
         to \notin UpgradeStage \cup {"down"} /\ service \in Migrating => schema = Whole
  PROVE  StartupInv'
<1>. USE DEF StartupInv
<1>1. /\ stage' \in [Migrator -> Stage] /\ stage'[m] = to
      /\ \A n \in Migrator \ {m} : stage'[n] = stage[n]
  BY DEF StartupTypeOK
<1>2. StartupTypeOK'
  BY <1>1 DEF StartupTypeOK
<1>3. service \in Migrating => Len(Statements) \in Nat
  BY StatementsProperties
<1>4. OpenTransactions'
  BY <1>1, <1>3, SameWhole DEF OpenTransactions, UpgradeStage
<1>5. UpgradedFirst'
  BY <1>1, SameWhole DEF UpgradedFirst, Migrator
<1>. QED
  BY <1>2, <1>4, <1>5, SameWhole

LEMMA MigrationStepKeeps ==
  ASSUME StartupInv, NEW m \in Migrator, MigrationStep(m) \/ DatabaseFails(m)
  PROVE  StartupInv'
<1>. USE DEF StartupInv
<1>0. service \in Migrating
  BY DEF OpenTransactions, UpgradeStage, MigrationStep, ReadRevision, RunStatement, Ready,
         StatementRaises, Commit, DatabaseFails
<1>1. Len(Statements) \in Nat \ {0} /\ "revision" \in Whole
  BY <1>0, StatementsProperties
<1>2. CASE ReadRevision(m) /\ "revision" \in schema
  <2>1. schema' = Whole /\ Succeed(m) /\ UNCHANGED <<service, home, faults>>
    BY <1>2 DEF ReadRevision
  <2>. QED
    BY <2>1, SucceedKeeps
<1>3. CASE ReadRevision(m) /\ "revision" \notin schema
  <2>1. /\ stage' = [stage EXCEPT ![m] = "upgrading"] /\ done[m] = 0
        /\ UNCHANGED <<service, schema, done, home, faults>>
    BY <1>3 DEF ReadRevision, OpenTransactions
  <2>2. home' \in [Hand -> Container] /\ "upgrading" \in Stage
    BY <2>1 DEF StartupTypeOK, Stage, UpgradeStage
  <2>. QED
    BY <1>0, <2>1, <2>2, AdvanceKeeps DEF UpgradeStage
<1>4. CASE RunStatement(m)
  <2>1. /\ done' = [done EXCEPT ![m] = @ + 1] /\ stage[m] = "upgrading"
        /\ done[m] < Len(Statements)
        /\ UNCHANGED <<service, schema, stage, home, faults>>
    BY <1>4 DEF RunStatement, Ready, Execute
  <2>2. /\ done' \in [Migrator -> Nat] /\ done'[m] = done[m] + 1 /\ done[m] \in Nat
        /\ \A n \in Migrator \ {m} : done'[n] = done[n]
    BY <2>1 DEF StartupTypeOK
  <2>3. done'[m] <= Len(Statements)
    BY <1>1, <2>1, <2>2
  <2>4. StartupTypeOK' /\ UpgradedFirst'
    BY <2>1, <2>2, SameWhole DEF StartupTypeOK, UpgradedFirst
  <2>5. OpenTransactions'
    BY <2>1, <2>2, <2>3, SameWhole DEF OpenTransactions
  <2>. QED
    BY <2>1, <2>4, <2>5, SameWhole
<1>5. CASE StatementRaises(m)
  <2>1. Exit(m) /\ UNCHANGED <<service, schema, home, faults>>
    BY <1>5 DEF StatementRaises, MigrationFails
  <2>2. faults' \in 0 .. MaxFaults
    BY <2>1 DEF StartupTypeOK
  <2>. QED
    BY <2>1, <2>2, ExitKeeps
<1>6. CASE Commit(m)
  <2>1. Succeed(m) /\ UNCHANGED <<service, home, faults>> /\ schema' = schema \cup Made(m)
    BY <1>6 DEF Commit
  <2>2. Made(m) = Whole
    BY <1>0, <1>6, AllIsWhole DEF Commit
  <2>3. schema' = Whole
    BY <2>1, <2>2
  <2>. QED
    BY <2>1, <2>3, SucceedKeeps
<1>7. CASE DatabaseFails(m)
  <2>1. /\ Exit(m) /\ UNCHANGED <<service, home>> /\ faults' = faults + 1 /\ faults < MaxFaults
        /\ \/ schema' = schema
           \/ done[m] = Len(Statements) /\ schema' = schema \cup Made(m)
    BY <1>7 DEF DatabaseFails, MigrationFails
  <2>2. schema' \in {{}, Whole} /\ schema \subseteq schema'
    BY <1>0, <2>1, AllIsWhole
  <2>3. faults' \in 0 .. MaxFaults
    BY <2>1, StartupAssumption DEF StartupTypeOK
  <2>. QED
    BY <2>1, <2>2, <2>3, ExitKeeps
<1>. QED
  BY <1>2, <1>3, <1>4, <1>5, <1>6, <1>7 DEF MigrationStep

LEMMA ContainerStepKeeps ==
  ASSUME StartupInv, NEW c \in Container, Start(c) \/ ApplicationStep(c) \/ Crash(c)
  PROVE  StartupInv'
<1>. USE DEF StartupInv
<1>1. c \in Migrator
  BY DEF Migrator
<1>2. CASE Start(c)
  <2>. DEFINE to == IF service \in Migrating THEN "begun" ELSE "importing"
  <2>1. /\ stage[c] = "down" /\ stage' = [stage EXCEPT ![c] = to]
        /\ UNCHANGED <<service, schema, done, home, faults>>
    BY <1>2 DEF Start
  <2>2. done[c] = 0 /\ home' \in [Hand -> Container]
    BY <1>1, <2>1 DEF OpenTransactions, StartupTypeOK
  <2>3. /\ to \in Stage
        /\ to \in UpgradeStage => service \in Migrating
        /\ to \notin UpgradeStage \cup {"down"} /\ service \in Migrating => schema = Whole
    BY DEF Stage, UpgradeStage
  <2>. HIDE DEF to
  <2>. QED
    BY <1>1, <2>1, <2>2, <2>3, AdvanceKeeps
<1>3. ASSUME NEW from \in {"importing", "building", "starting"},
             NEW to \in {"building", "starting", "serving"},
             stage[c] = from, stage' = [stage EXCEPT ![c] = to],
             UNCHANGED <<service, schema, done, home, faults>>
      PROVE  StartupInv'
  <2>1. done[c] = 0 /\ home' \in [Hand -> Container]
    BY <1>1, <1>3 DEF OpenTransactions, StartupTypeOK
  <2>2. service \in Migrating => schema = Whole
    BY <1>3 DEF UpgradedFirst, UpgradeStage
  <2>3. to \in Stage /\ to \notin UpgradeStage
    BY DEF Stage, UpgradeStage
  <2>. QED
    BY <1>1, <1>3, <2>1, <2>2, <2>3, AdvanceKeeps
<1>4. CASE SetupTracing(c)
  <2>1. CASE Exit(c) /\ UNCHANGED <<service, schema, home, faults>>
    BY <1>1, <2>1, ExitKeeps DEF StartupTypeOK
  <2>2. CASE /\ stage' = [stage EXCEPT ![c] = "building"]
             /\ UNCHANGED <<service, schema, done, home, faults>>
    BY <1>3, <1>4, <2>2 DEF SetupTracing
  <2>. QED
    BY <1>4, <2>1, <2>2 DEF SetupTracing
<1>5. CASE InstrumentApp(c)
  BY <1>3, <1>5 DEF InstrumentApp
<1>6. CASE Lifespan(c)
  BY <1>3, <1>6 DEF Lifespan
<1>7. CASE Crash(c)
  <2>1. Exit(c) /\ UNCHANGED <<service, schema, home>> /\ faults' = faults + 1 /\ faults < MaxFaults
    BY <1>7 DEF Crash
  <2>2. faults' \in 0 .. MaxFaults
    BY <2>1, StartupAssumption DEF StartupTypeOK
  <2>. QED
    BY <1>1, <2>1, <2>2, ExitKeeps
<1>. QED
  BY <1>2, <1>4, <1>5, <1>6, <1>7 DEF ApplicationStep

LEMMA StartByHandKeeps ==
  ASSUME StartupInv, NEW h \in Hand, StartByHand(h)
  PROVE  StartupInv'
<1>1. h \in Migrator /\ "begun" \in Stage /\ "begun" \in UpgradeStage
  BY DEF Migrator, Stage, UpgradeStage
<1>2. /\ stage[h] = "down" /\ service \in Migrating /\ stage' = [stage EXCEPT ![h] = "begun"]
      /\ UNCHANGED <<service, schema, done, faults>>
      /\ \E c \in Container : home' = [home EXCEPT ![h] = c]
  BY DEF StartByHand
<1>3. done[h] = 0 /\ home' \in [Hand -> Container]
  BY <1>1, <1>2 DEF StartupInv, OpenTransactions, StartupTypeOK
<1>. QED
  BY <1>1, <1>2, <1>3, AdvanceKeeps

(* The schema is whole or absent, and served only when whole, at all       *)
(* times.                                                                  *)
THEOREM StartupInvariant == StartupSpec => []StartupInv
<1>1. StartupInit => StartupInv
  BY StartupInvInit
<1>2. StartupInv /\ [StartupNext]_startupVars => StartupInv'
  <2>1. SUFFICES ASSUME StartupInv, [StartupNext]_startupVars
                 PROVE  StartupInv'
    OBVIOUS
  <2>2. CASE StartupNext
    BY <2>1, <2>2, MigrationStepKeeps, ContainerStepKeeps, StartByHandKeeps DEF StartupNext
  <2>3. CASE UNCHANGED startupVars
    BY <2>1, <2>3, SameWhole
       DEF startupVars, StartupInv, StartupTypeOK, OpenTransactions, UpgradedFirst
  <2>. QED
    BY <2>1, <2>2, <2>3
<1>. QED
  BY <1>1, <1>2, PTL DEF StartupSpec

(* However many upgrades of a service's schema run, fail or die, its       *)
(* database has all of it or nothing.                                      *)
THEOREM MigrationsAreAtomic == StartupSpec => []MigrationIsAtomic
<1>1. StartupInv => MigrationIsAtomic
  BY DEF StartupInv, MigrationIsAtomic, Whole
<1>. QED
  BY <1>1, StartupInvariant, PTL

(* No container of any service serves or consumes before its database has  *)
(* what its models declare.                                                *)
THEOREM SchemaComesFirst == StartupSpec => []ServesWholeSchema
<1>1. StartupInv => ServesWholeSchema
  <2>1. SUFFICES ASSUME StartupInv, NEW c \in Container,
                        stage[c] \notin UpgradeStage \cup {"down"}
                 PROVE  Declared[service] \subseteq schema
    BY DEF ServesWholeSchema
  <2>2. CASE service \in Migrating
    BY <2>1, <2>2, DeclaredIsMade DEF StartupInv, UpgradedFirst
  <2>3. CASE service \notin Migrating
    <3>1. service = "notifications"
      BY <2>1, <2>3 DEF StartupInv, StartupTypeOK, Service
    <3>. QED
      BY <3>1 DEF Declared
  <2>. QED
    BY <2>2, <2>3
<1>. QED
  BY <1>1, StartupInvariant, PTL
=============================================================================
