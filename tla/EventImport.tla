---------------------------- MODULE EventImport ----------------------------
(***************************************************************************)
(* Import of WordPress events into Discourse (src/.../community_events.py):*)
(* one topic for each row of a CSV, with a JSON state file that holds the  *)
(* events imported, so that a run can be repeated.  The topic is posted    *)
(* and then the whole file is written: a crash falls between the two, or   *)
(* in the writing, which truncates first.  One import runs at a time (the  *)
(* code takes no lock).  Dates, bodies and URLs are left out.              *)
(***************************************************************************)
EXTENDS FiniteSets, Sequences

CONSTANTS Events,     \* WordPress event ids
          NoEvent,    \* the id of a row without id or title
          Tags,       \* tag names
          CsvFiles    \* the CSVs an operator may have (sequences of Row)

Row == [event : Events \cup {NoEvent}, tags : SUBSET Tags]

ASSUME EventImportAssumption == NoEvent \notin Events /\ CsvFiles \subseteq Seq(Row)

VARIABLES csv,         \* the rows of the CSV
          knownTags,   \* the tags that exist in Discourse
          topics,      \* the events that have a topic in Discourse
          stateFile,   \* the events in the state file
          torn,        \* the state file is no JSON: its writing was cut short
          importer,    \* the running import
          unconfirmed  \* events whose topic or record a fault hid from the command

importVars == <<csv, knownTags, topics, stateFile, torn, importer, unconfirmed>>

Stages == {"idle", "tags", "rows", "write"}
Unstarted == [stage |-> "idle", dry |-> FALSE, todo |-> <<>>, state |-> {}]

EventImportInit ==
    /\ csv = <<>> /\ knownTags = {} /\ topics = {} /\ unconfirmed = {}
    /\ stateFile = {} /\ torn = FALSE
    /\ importer = Unstarted

(* The operator edits the CSV or creates a tag between runs. *)
EditCsv(rows) ==
    /\ importer = Unstarted /\ csv' = rows
    /\ UNCHANGED <<knownTags, topics, stateFile, torn, importer, unconfirmed>>

CreateTag(t) ==
    /\ t \notin knownTags /\ knownTags' = knownTags \cup {t}
    /\ UNCHANGED <<csv, topics, stateFile, torn, importer, unconfirmed>>

(* A torn state file fails every run until the operator removes it. *)
RemoveStateFile ==
    /\ importer = Unstarted /\ torn /\ torn' = FALSE
    /\ UNCHANGED <<csv, knownTags, topics, stateFile, importer, unconfirmed>>

StartAfresh(dry) ==
    /\ importer = Unstarted /\ ~torn
    /\ importer' = [stage |-> "tags", dry |-> dry, todo |-> csv, state |-> {}]
    /\ UNCHANGED <<csv, knownTags, topics, stateFile, torn, unconfirmed>>

(* The command reads the state file and the CSV. *)
StartImport(dry) ==
    /\ importer = Unstarted /\ ~torn
    /\ importer' = [stage |-> "tags", dry |-> dry, todo |-> csv, state |-> stateFile]
    /\ UNCHANGED <<csv, knownTags, topics, stateFile, torn, unconfirmed>>

(* Nothing is posted while a row has a tag that Discourse does not know. *)
CheckTags ==
    LET unknown == UNION {importer.todo[i].tags : i \in DOMAIN importer.todo} \ knownTags
    IN /\ importer.stage = "tags"
       /\ importer' = IF unknown # {} THEN Unstarted ELSE [importer EXCEPT !.stage = "rows"]
       /\ UNCHANGED <<csv, knownTags, topics, stateFile, torn, unconfirmed>>

AtRow == importer.stage = "rows" /\ importer.todo # <<>>
TheEvent == Head(importer.todo).event
NextRow == [importer EXCEPT !.stage = "rows", !.todo = Tail(@)]

(* Rows without id or title, imported events and the rows of a dry run pass by. *)
Skipped == TheEvent = NoEvent \/ TheEvent \in importer.state \/ importer.dry

SkipRow ==
    /\ AtRow /\ Skipped
    /\ importer' = NextRow
    /\ UNCHANGED <<csv, knownTags, topics, stateFile, torn, unconfirmed>>

(* The topic is posted and the event goes into the state in memory. *)
PostTopic ==
    /\ AtRow /\ ~Skipped
    /\ topics' = topics \cup {TheEvent}
    /\ unconfirmed' = unconfirmed \ {TheEvent}
    /\ importer' = [importer EXCEPT !.stage = "write", !.state = @ \cup {TheEvent}]
    /\ UNCHANGED <<csv, knownTags, stateFile, torn>>

(* The post fails, or its answer does: the row counts as an error and the next one follows. *)
PostFails ==
    /\ AtRow /\ ~Skipped
    /\ importer' = NextRow
    /\ UNCHANGED <<csv, knownTags, topics, stateFile, torn, unconfirmed>>

AnswerLost ==
    /\ AtRow /\ ~Skipped
    /\ topics' = topics \cup {TheEvent}
    /\ unconfirmed' = unconfirmed \cup {TheEvent}
    /\ importer' = NextRow
    /\ UNCHANGED <<csv, knownTags, stateFile, torn>>

(* The state file is written as a whole. *)
WriteState ==
    /\ importer.stage = "write"
    /\ stateFile' = importer.state /\ torn' = FALSE
    /\ unconfirmed' = unconfirmed \ importer.state
    /\ importer' = NextRow
    /\ UNCHANGED <<csv, knownTags, topics>>

(* The file cannot be opened, or writing fails after it was truncated: counted as an error, *)
(* the rows go on.                                                                          *)
WriteFails ==
    /\ importer.stage = "write"
    /\ UNCHANGED <<stateFile, torn>> \/ (stateFile' = {} /\ torn' = TRUE)
    /\ unconfirmed' = unconfirmed \cup (importer.state \ stateFile')
    /\ importer' = NextRow
    /\ UNCHANGED <<csv, knownTags, topics>>

FinishImport ==
    /\ importer.stage = "rows" /\ importer.todo = <<>>
    /\ importer' = Unstarted
    /\ UNCHANGED <<csv, knownTags, topics, stateFile, torn, unconfirmed>>

(* The process dies: before the write of the last event, or in it. *)
CrashImport ==
    /\ importer # Unstarted
    /\ importer' = Unstarted
    /\ \/ UNCHANGED <<stateFile, torn>>
       \/ importer.stage = "write" /\ stateFile' = {} /\ torn' = TRUE
    /\ unconfirmed' = unconfirmed \cup (importer.state \ stateFile')
    /\ UNCHANGED <<csv, knownTags, topics>>

ImportStep ==
    \/ \E dry \in BOOLEAN : StartImport(dry)
    \/ CheckTags \/ SkipRow \/ PostTopic \/ WriteState \/ FinishImport

ImportFault == PostFails \/ AnswerLost \/ WriteFails \/ CrashImport

EventImportNext ==
    \/ ImportStep \/ ImportFault \/ RemoveStateFile
    \/ \E t \in Tags : CreateTag(t)
    \/ \E rows \in CsvFiles : EditCsv(rows)

EventImportSpec == EventImportInit /\ [][EventImportNext]_importVars

EventImportTypeOK ==
    /\ csv \in Seq(Row) /\ knownTags \subseteq Tags /\ topics \subseteq Events
    /\ stateFile \subseteq Events /\ torn \in BOOLEAN
    /\ importer \in [stage : Stages, dry : BOOLEAN, todo : Seq(Row), state : SUBSET Events]
    /\ unconfirmed \subseteq Events

-----------------------------------------------------------------------------
(***************************************************************************)
(* The promise of the state file ("idempotent ... re-runs are safe"): an   *)
(* event gets a second topic only after a fault that hid the first from    *)
(* the command, and the file holds no event without a topic.               *)
(***************************************************************************)
EventAnnouncements ==
    INSTANCE Announcements WITH Things <- Events, announced <- topics,
                                recorded <- stateFile, forgotten <- unconfirmed

ImportRemembers == EventAnnouncements!AnnouncementsSpec
=============================================================================
