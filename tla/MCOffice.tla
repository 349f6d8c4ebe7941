----------------------------- MODULE MCOffice -----------------------------
(***************************************************************************)
(* The rest of the office: billing what was ordered, the regulated-goods   *)
(* register, the migration of the old books, the bank's statement, and who *)
(* may come in.  A behaviour plays one of these components, its scene, and *)
(* leaves the others as they start.                                        *)
(***************************************************************************)
EXTENDS MCBilling, MCRegister, MCMigration, MCReconciliation, MCDoors, SignIn, Brake

VARIABLE scene

officeVars == <<scene, billingVars, registerVars, migrationVars, reconciliationVars,
                doorVars, signVars, brakeVars>>

\* Where a component starts, and where it starts when it is not played.
BillingStarts   == BillingInit /\ (scene = "billing" \/ duty = CHOOSE d \in Duties : TRUE)
RegisterStarts  == RegisterInit /\ (scene = "register" \/ task = CHOOSE t \in Tasks : TRUE)
StatementStarts ==
    ReconciliationInit /\ (scene = "bank" \/ chores = CHOOSE c \in Backlog : TRUE)
DoorsStart      ==
    /\ DoorsInit
    /\ scene = "doors" \/ \A u \in User : account[u].role = "admin"

OfficeInit ==
    /\ scene \in {"billing", "register", "migration", "bank", "doors", "signin", "brake"}
    /\ BillingStarts /\ RegisterStarts /\ MigrationInit /\ StatementStarts
    /\ DoorsStart /\ SignInit /\ BrakeInit

OfficeNext ==
    \/ /\ scene = "billing" /\ BillingNext
       /\ UNCHANGED <<scene, registerVars, migrationVars, reconciliationVars, doorVars,
                      signVars, brakeVars>>
    \/ /\ scene = "register" /\ RegisterNext
       /\ UNCHANGED <<scene, billingVars, migrationVars, reconciliationVars, doorVars,
                      signVars, brakeVars>>
    \/ /\ scene = "migration" /\ MigrationNext
       /\ UNCHANGED <<scene, billingVars, registerVars, reconciliationVars, doorVars,
                      signVars, brakeVars>>
    \/ /\ scene = "bank" /\ ReconciliationNext
       /\ UNCHANGED <<scene, billingVars, registerVars, migrationVars, doorVars,
                      signVars, brakeVars>>
    \/ /\ scene = "doors" /\ DoorsNext
       /\ UNCHANGED <<scene, billingVars, registerVars, migrationVars,
                      reconciliationVars, signVars, brakeVars>>
    \/ /\ scene = "signin" /\ SignNext
       /\ UNCHANGED <<scene, billingVars, registerVars, migrationVars,
                      reconciliationVars, doorVars, brakeVars>>
    \/ /\ scene = "brake" /\ BrakeNext
       /\ UNCHANGED <<scene, billingVars, registerVars, migrationVars,
                      reconciliationVars, doorVars, signVars>>

OfficeSpec == OfficeInit /\ [][OfficeNext]_officeVars
=============================================================================
