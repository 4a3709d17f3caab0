----------------------------- MODULE MCMembers ------------------------------
(***************************************************************************)
(* Small instances for TLC of what is made of RunSignup's memberships: the *)
(* tables of the update, and the MailChimp list of the import; and of what *)
(* the migrations and the updates make of the tables of members and users. *)
(* They share no state, so each is run by itself: "part" says which.       *)
(***************************************************************************)
EXTENDS MembershipUpdate, MailChimpImport, MemberMigration, LocalUsers

VARIABLE part

allVars == <<vars, mailchimpVars, migrationVars, localVars, part>>

MCStretches == {[start |-> 1, end |-> 1], [start |-> 3, end |-> 4], [start |-> 2, end |-> 4]}

PartsInit ==
    /\ part \in {"tables", "mailchimp", "migration", "users"}
    /\ Init
    /\ MailChimpInit
    /\ part # "mailchimp" => clubMembers = {} /\ audience = [a \in Addresses |-> NoSubscriber]
    /\ IF part = "migration" THEN MigrationInit
       ELSE oldMembers = <<>> /\ oldShips = <<>> /\ migrated = NoTables
    /\ LocalInit
    /\ part # "users" => account = [u \in People |-> TRUE]

PartsNext ==
    /\ UNCHANGED part
    /\ \/ part = "tables" /\ Next /\ UNCHANGED <<mailchimpVars, migrationVars, localVars>>
       \/ part = "mailchimp" /\ MailChimpNext /\ UNCHANGED <<vars, migrationVars, localVars>>
       \/ part = "migration" /\ MigrationNext /\ UNCHANGED <<vars, mailchimpVars, localVars>>
       \/ part = "users" /\ LocalNext /\ UNCHANGED <<vars, mailchimpVars, migrationVars>>

PartsSpec == PartsInit /\ [][PartsNext]_allVars

(* The tables and the list are what their types say, and the memberdates    *)
(* are the stretches of the memberships.                                    *)
TablesStand == TypeOK /\ MailChimpTypeOK /\ Stretches
=============================================================================
