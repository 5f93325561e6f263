----------------------------- MODULE SqliteStore -----------------------------
(***************************************************************************)
(* Opening the main database of src/internal/storage/sqlite: a database of *)
(* any released version is brought to the current schema by the migrations *)
(* of migrations.go, each in a transaction of its own, and an empty file   *)
(* gets the snapshot of db_init.go.  The process can die between any two   *)
(* transactions.  An open store hands out record numbers from ranges it    *)
(* has reserved in table id_sequences.                                     *)
(*                                                                         *)
(* A schema is the set of its tables, indexes, triggers and views, and of  *)
(* the columns that some migration adds, removes or changes.               *)
(***************************************************************************)
EXTENDS Integers, Sequences, FiniteSets, SequencesExt

CONSTANTS
    LegacyScopes,   \* sets of legacy conversations an old database may hold
    LargestID,      \* the largest record number (9223372036854775807 in the code)
    RangeSize,      \* numbers reserved at a time (1000 in the code)
    MaxDBFaults     \* failed transactions and crashes (a bound of the model)

ASSUME SqliteConstants ==
    /\ {LargestID, RangeSize} \subseteq Nat \ {0}
    /\ MaxDBFaults \in Nat

VARIABLES
    dbSchema,    \* committed objects of sqlite_master
    dbTx,        \* the transaction of a migration: its version, the schema it sees, the statements left
    dbApplied,   \* versions in schema_migrations
    dbScopes,    \* conversation identities stored in rows
    dbSequence,  \* last number reserved in id_sequences
    dbPhase,     \* "closed", "inspect", "migrate" or "open"
    idNext, idEnd,
    handedOut,   \* history: numbers returned by NextIDSequence
    dbFaults

storeVars == <<dbSchema, dbTx, dbApplied, dbScopes, dbSequence, dbPhase, idNext, idEnd, handedOut, dbFaults>>

Versions == 1..31

(***************************************************************************)
(* SQL statements (external: what SQLite does with them)                   *)
(***************************************************************************)
Obj(kind, name, on, form) == [kind |-> kind, name |-> name, on |-> on, form |-> form]
Tbl(t) == Obj("table", t, t, 1)
Col(t, c) == Obj("column", c, t, 1)
Idx(t, n) == Obj("index", n, t, 1)
Trg(t, n, form) == Obj("trigger", n, t, form)
ForkView(form) == Obj("view", "media_fork_history", "media_fork_history", form)

Create(o) == [op |-> "create", obj |-> o, to |-> ""]
Ensure(o) == [op |-> "ensure", obj |-> o, to |-> ""]
Discard(o)   == [op |-> "drop", obj |-> o, to |-> ""]
Rename(t, to) == [op |-> "rename", obj |-> Tbl(t), to |-> to]

Same(o, p) == o.kind = p.kind /\ o.name = p.name /\ (o.kind = "column" => o.on = p.on)
Exists(schema, o) == \E p \in schema : Same(o, p)

\* A statement fails on a name already used, on a missing table and on a missing object.
LegalSQL(schema, q) ==
    CASE q.op = "create" -> ~Exists(schema, q.obj) /\ (q.obj.kind \in {"table", "view"} \/ Exists(schema, Tbl(q.obj.on)))
      [] q.op = "ensure" -> Exists(schema, Tbl(q.obj.on))
      [] q.op = "drop" -> Exists(schema, q.obj)
      [] q.op = "rename" -> Exists(schema, q.obj) /\ ~Exists(schema, Tbl(q.to))

\* Dropping a table drops its columns, indexes and triggers; renaming it carries them along.
EffectSQL(schema, q) ==
    CASE q.op = "create" -> schema \cup {q.obj}
      [] q.op = "ensure" -> IF Exists(schema, q.obj) THEN schema ELSE schema \cup {q.obj}
      [] q.op = "drop" -> {p \in schema : ~Same(p, q.obj) /\ ~(q.obj.kind = "table" /\ p.on = q.obj.name)}
      [] q.op = "rename" -> {IF p.on # q.obj.name THEN p
                             ELSE [p EXCEPT !.on = q.to, !.name = IF p.kind = "table" THEN q.to ELSE @] : p \in schema}

Creates(objects) == [i \in 1..Len(objects) |-> Create(objects[i])]

(***************************************************************************)
(* The migrations                                                          *)
(***************************************************************************)
\* 1: sessions, messages and the platform message map.
SessionTables == Creates(<<
    Tbl("sessions"), Col("sessions", "owner_id"), Col("sessions", "platform_scope_id"),
    Idx("sessions", "sessions_scope_updated"), Idx("sessions", "sessions_parent"), Idx("sessions", "sessions_fork_from"),
    Tbl("messages"), Idx("messages", "messages_session_created"),
    Tbl("platform_message_map"), Col("platform_message_map", "id"), Col("platform_message_map", "platform_scope_id")>>)

\* 2 and 21: context summaries; their token counts become nullable by a rebuild.
SummaryObjects(t) == <<Idx(t, "summaries_session_created"), Idx(t, "summaries_to_message")>>
SummaryTable == Creates(<<Tbl("context_summaries"), Col("context_summaries", "tokens_not_null")>> \o SummaryObjects("context_summaries"))
\* Mutant: the rebuilt table does not get its indexes back.
SummaryRebuildBare == Creates(<<Tbl("summaries_new")>>) \o <<Discard(Tbl("context_summaries")), Rename("summaries_new", "context_summaries")>>
SummaryRebuild ==
    Creates(<<Tbl("summaries_new")>>) \o <<Discard(Tbl("context_summaries")), Rename("summaries_new", "context_summaries")>>
    \o Creates(SummaryObjects("context_summaries"))

\* 4 and 5: tool call records and cron jobs.
ToolCallIndexes == <<Idx("tool_call_records", "tool_calls_session_tool"), Idx("tool_call_records", "tool_calls_session_created")>>
ToolCallTable == Creates(<<Tbl("tool_call_records"), Col("tool_call_records", "id"), Col("tool_call_records", "actor_id"),
                           Col("tool_call_records", "result_preview")>> \o ToolCallIndexes)
CronTable == Creates(<<Tbl("cron_jobs"), Col("cron_jobs", "last_error"), Idx("cron_jobs", "cron_enabled_next")>>)

\* 7 to 9: Elnis events, their tool declarations, and the report deliveries.
ElnisTables == Creates(<<Tbl("elnis_events"), Col("elnis_events", "token_name"),
                         Idx("elnis_events", "elnis_status_updated"), Idx("elnis_events", "elnis_elwisp_received")>>)
ElnisTools == Creates(<<Col("elnis_events", "tool_declarations"), Col("elnis_events", "tool_hash")>>)
ElnisReports == Creates(<<Tbl("elnis_report_deliveries"), Idx("elnis_report_deliveries", "reports_event_status")>>)

\* 12 and 13: media, references and the triggers that release them with their owners.
MediaTables == Creates(<<Tbl("media"), Tbl("media_references"), Idx("media_references", "references_owner"), Idx("media_references", "references_session")>>)
ReleaseTriggers == Creates(<<Trg("messages", "release_message_references", 1), Trg("sessions", "release_session_references", 1)>>)

OutputObjects(t) == <<Idx(t, "outputs_expiry"), Trg(t, "media_output_added", 1), Trg(t, "media_output_removed", 1)>>
CronTriggers(form) == <<Trg("cron_jobs", "media_cron_insert", form), Trg("cron_jobs", "media_cron_update", form)>>

\* 14: orphan times, the deletion mark and the reference triggers of every owner.
MediaLifecycle == Creates(<<
    Col("media", "orphaned_at"), Col("media", "deleting"),
    Trg("media", "media_initial_orphan", 1), Trg("media_references", "media_reference_guard", 1),
    Trg("media_references", "media_reference_added", 1), Trg("media_references", "media_reference_removed", 1),
    Trg("messages", "media_message_updated", 1), ForkView(1), Trg("sessions", "media_fork_created", 1)>>
    \o CronTriggers(1) \o <<Trg("cron_jobs", "media_cron_delete", 1), Tbl("media_outputs"), Col("media_outputs", "scope_id")>>
    \o OutputObjects("media_outputs") \o <<
    Trg("elnis_report_deliveries", "media_report_added", 1), Trg("elnis_report_deliveries", "media_report_deleted", 1),
    Trg("elnis_events", "media_report_completed", 1), Trg("elnis_events", "media_event_finished", 1),
    Trg("elnis_events", "media_event_deleted", 1)>>)

\* 15: the sent outputs get an order; the table is replaced.
OrderedOutputs ==
    <<Discard(Trg("media_outputs", "media_output_added", 1)), Discard(Trg("media_outputs", "media_output_removed", 1)), Discard(Tbl("media_outputs"))>>
    \o Creates(<<Tbl("media_outputs"), Col("media_outputs", "scope_id"), Col("media_outputs", "segment_index")>> \o OutputObjects("media_outputs"))

\* 16 and 17: chat history media, and the fork view that also follows tools.
HistoryTable == Creates(<<Tbl("media_history"), Col("media_history", "scope_id"),
                          Trg("media_history", "media_history_added", 1), Trg("media_history", "media_history_removed", 1)>>)
ForkToolView == <<Discard(ForkView(1)), Create(ForkView(2))>>

\* 19 and 20: native dialogues.
NativeTables == Creates(<<Tbl("native_exchanges"), Idx("native_exchanges", "exchanges_session"), Tbl("native_inputs"),
                          Idx("native_inputs", "inputs_pending"), Tbl("native_calls"), Tbl("native_checkpoints"),
                          Idx("native_checkpoints", "checkpoints_message")>>)
NativeRoots == Creates(<<Col("native_exchanges", "input_ids_json"), Col("native_checkpoints", "seed_id"), Col("native_checkpoints", "calls_json"),
                         Tbl("native_seeds"), Trg("native_inputs", "release_native_input_media", 1), Trg("native_seeds", "release_native_seed_media", 1)>>)

\* 26: the cron triggers read the source of a report segment.
CronSources == <<Discard(CronTriggers(1)[1]), Discard(CronTriggers(1)[2])>> \o Creates(CronTriggers(2))

\* 30: tables lose their unused record identities by a rebuild.
RecordRebuild ==
    <<Rename("platform_message_map", "old_map")>>
    \o Creates(<<Tbl("platform_message_map"), Col("platform_message_map", "platform_scope_id")>>)
    \o <<Discard(Tbl("old_map")), Rename("tool_call_records", "old_calls")>>
    \o Creates(<<Tbl("tool_call_records"), Col("tool_call_records", "actor_id")>>)
    \o <<Discard(Tbl("old_calls"))>> \o Creates(ToolCallIndexes)

\* A table with a conversation key is rebuilt with its own definition rewritten; its other objects are created again.
\* Mutant: the triggers of the rebuilt table are forgotten.
RebuiltBare(t, scope, columns, objects) ==
    Creates(<<Tbl("migration_table")>> \o [i \in DOMAIN columns |-> Col("migration_table", columns[i])])
    \o <<Discard(Tbl(t)), Rename("migration_table", t)>>
RebuiltConversation(t, scope, columns, objects) ==
    Creates(<<Tbl("migration_table")>> \o [i \in DOMAIN columns |-> Col("migration_table", columns[i])])
    \o <<Discard(Tbl(t)), Rename("migration_table", t)>> \o Creates(objects)

\* 31: identities become columns of their own.
StructuredIdentity ==
    <<Discard(Col("sessions", "owner_id")), Create(Col("sessions", "owner")), Discard(Col("tool_call_records", "actor_id")), Create(Col("tool_call_records", "actor")),
      Discard(Idx("sessions", "sessions_scope_updated")), Create(Col("sessions", "chat")), Create(Col("sessions", "task")),
      Discard(Col("sessions", "platform_scope_id")), Create(Idx("sessions", "sessions_scope_updated")),
      Create(Col("elnis_events", "origin")), Discard(Col("elnis_events", "token_name"))>>
    \o RebuiltConversation("platform_message_map", "platform_scope_id", <<"chat">>, <<>>)
    \o RebuiltConversation("media_outputs", "scope_id", <<"chat", "segment_index">>, OutputObjects("media_outputs"))
    \o RebuiltConversation("media_history", "scope_id", <<"chat">>,
                           <<Trg("media_history", "media_history_added", 1), Trg("media_history", "media_history_removed", 1)>>)

\* The list migrations; 6, 11 (beyond its column), 18, 23 and 27 change rows only.
Migration(v) ==
    CASE v = 1 -> SessionTables
      [] v = 2 -> SummaryTable
      [] v = 3 -> <<Ensure(Idx("sessions", "sessions_parent")), Ensure(Idx("sessions", "sessions_fork_from"))>>
      [] v = 4 -> ToolCallTable
      [] v = 5 -> CronTable
      [] v = 7 -> ElnisTables
      [] v = 8 -> ElnisTools
      [] v = 9 -> ElnisReports
      [] v = 10 -> Creates(<<Col("cron_jobs", "delivery_state"), Col("cron_jobs", "delivery_token")>>)
      [] v = 11 -> Creates(<<Col("messages", "segments")>>)
      [] v = 12 -> MediaTables
      [] v = 13 -> ReleaseTriggers
      [] v = 14 -> MediaLifecycle
      [] v = 15 -> OrderedOutputs
      [] v = 16 -> HistoryTable
      [] v = 17 -> ForkToolView
      [] v = 19 -> NativeTables
      [] v = 20 -> NativeRoots
      [] v = 21 -> SummaryRebuild
      [] v = 22 -> <<Discard(Col("cron_jobs", "last_error"))>>
      [] v = 24 -> <<Discard(Col("tool_call_records", "result_preview"))>>
      [] v = 25 -> Creates(<<Tbl("media_signed_urls")>>)
      [] v = 26 -> CronSources
      [] v = 28 -> Creates(<<Tbl("session_sequence")>>)
      [] v = 29 -> <<Create(Tbl("id_sequences")), Discard(Tbl("session_sequence"))>>
      [] v = 30 -> RecordRebuild
      [] v = 31 -> StructuredIdentity
      [] OTHER -> <<>>

(***************************************************************************)
(* The snapshot an empty file gets                                         *)
(***************************************************************************)
LatestTables == {
    Tbl("sessions"), Col("sessions", "owner"), Col("sessions", "chat"), Col("sessions", "task"), Tbl("id_sequences"),
    Tbl("messages"), Col("messages", "segments"), Tbl("platform_message_map"), Col("platform_message_map", "chat"),
    Tbl("tool_call_records"), Col("tool_call_records", "actor"),
    Tbl("cron_jobs"), Col("cron_jobs", "delivery_state"), Col("cron_jobs", "delivery_token"),
    Tbl("elnis_events"), Col("elnis_events", "tool_declarations"), Col("elnis_events", "tool_hash"), Col("elnis_events", "origin"),
    Tbl("elnis_report_deliveries")}
LatestMediaTables == {
    Tbl("media"), Col("media", "orphaned_at"), Col("media", "deleting"), Tbl("media_references"),
    Tbl("media_outputs"), Col("media_outputs", "chat"), Col("media_outputs", "segment_index"), Tbl("media_history"), Col("media_history", "chat"),
    Tbl("native_exchanges"), Col("native_exchanges", "input_ids_json"), Tbl("native_inputs"), Tbl("native_calls"),
    Tbl("native_checkpoints"), Col("native_checkpoints", "seed_id"), Col("native_checkpoints", "calls_json"), Tbl("native_seeds"),
    Tbl("context_summaries"), Tbl("media_signed_urls")}
LatestIndexes ==
    {Idx("sessions", n) : n \in {"sessions_scope_updated", "sessions_parent", "sessions_fork_from"}}
    \cup {Idx("messages", "messages_session_created"), Idx("cron_jobs", "cron_enabled_next"), Idx("media_outputs", "outputs_expiry"),
          Idx("elnis_events", "elnis_status_updated"), Idx("elnis_events", "elnis_elwisp_received"), Idx("elnis_report_deliveries", "reports_event_status"),
          Idx("media_references", "references_owner"), Idx("media_references", "references_session"), Idx("native_exchanges", "exchanges_session"),
          Idx("native_inputs", "inputs_pending"), Idx("native_checkpoints", "checkpoints_message")}
    \cup ToSet(ToolCallIndexes) \cup ToSet(SummaryObjects("context_summaries")) \cup {ForkView(2)}
LatestTriggers ==
    {Trg("messages", n, 1) : n \in {"release_message_references", "media_message_updated"}}
    \cup {Trg("sessions", n, 1) : n \in {"release_session_references", "media_fork_created"}}
    \cup {Trg("media_references", n, 1) : n \in {"media_reference_guard", "media_reference_added", "media_reference_removed"}}
    \cup {Trg("media", "media_initial_orphan", 1)} \cup ToSet(CronTriggers(2)) \cup {Trg("cron_jobs", "media_cron_delete", 1)}
    \cup {Trg("elnis_report_deliveries", n, 1) : n \in {"media_report_added", "media_report_deleted"}}
    \cup {Trg("elnis_events", n, 1) : n \in {"media_report_completed", "media_event_finished", "media_event_deleted"}}
    \cup {Trg("media_outputs", n, 1) : n \in {"media_output_added", "media_output_removed"}}
    \cup {Trg("media_history", n, 1) : n \in {"media_history_added", "media_history_removed"}}
    \cup {Trg("native_inputs", "release_native_input_media", 1), Trg("native_seeds", "release_native_seed_media", 1)}
LatestSchema == LatestTables \cup LatestMediaTables \cup LatestIndexes \cup LatestTriggers

(***************************************************************************)
(* Rows: conversation identities                                           *)
(***************************************************************************)
ChatKinds == {"private", "group", "channel"}
TaskKinds == {"cron", "elnis"}
Ambiguous == [platform |-> "", kind |-> "ambiguous", id |-> 0]

CanonicalKind(kind) == CASE kind = "supergroup" -> "group" [] kind = "c2c" -> "private" [] OTHER -> kind

\* legacyConversation: a scope without a known kind is a private chat of the command line, and ambiguous elsewhere.
\* Mutant: a scope without a kind is taken for a private chat of any platform.
LegacyConversationGuess(row) ==
    IF CanonicalKind(row.kind) \in ChatKinds \cup TaskKinds THEN [row EXCEPT !.kind = CanonicalKind(@)] ELSE [row EXCEPT !.kind = "private"]
LegacyConversation(row) ==
    CASE CanonicalKind(row.kind) \in ChatKinds \cup TaskKinds -> [row EXCEPT !.kind = CanonicalKind(@)]
      [] row.kind = "bare" /\ row.platform = "cli" -> [row EXCEPT !.kind = "private"]
      [] OTHER -> Ambiguous

\* migrateConversationTable inserts every converted row under the new unique key; a conflict fails the transaction.
\* Mutant: rows that meet a taken key are skipped.
ConvertibleLossy(rows) == \A r \in rows : LegacyConversation(r) # Ambiguous
Convertible(rows) ==
    /\ \A r \in rows : LegacyConversation(r) # Ambiguous
    /\ \A r, s \in rows : LegacyConversation(r) = LegacyConversation(s) => r = s
Converted(rows) == {LegacyConversation(r) : r \in rows}

(***************************************************************************)
(* The store                                                               *)
(***************************************************************************)
NoTx == [version |-> 0, schema |-> {}, statements |-> <<>>]

SqliteTypeOK ==
    /\ dbTx.version \in 0..31
    /\ dbApplied \subseteq Versions
    /\ dbSequence \in 0..LargestID
    /\ dbPhase \in {"closed", "inspect", "migrate", "open", "failed"}
    /\ idNext \in 0..LargestID /\ idEnd \in 0..LargestID
    /\ dbFaults \in 0..MaxDBFaults

\* A new file, or one that the first release created with its table schema_migrations only; every database of
\* a released version is met on the way from there.
StoreInit ==
    /\ \/ dbSchema = {} /\ dbScopes = {}
       \/ dbSchema = {Tbl("schema_migrations")} /\ dbScopes \in LegacyScopes
    /\ dbTx = NoTx /\ dbApplied = {} /\ dbSequence = 0
    /\ dbPhase = "closed" /\ idNext = 0 /\ idEnd = 0
    /\ handedOut = <<>> /\ dbFaults = MaxDBFaults

\* openDB: directory, connection, foreign keys.
OpenDB ==
    /\ dbPhase = "closed" /\ dbPhase' = "inspect"
    /\ UNCHANGED <<dbSchema, dbTx, dbApplied, dbScopes, dbSequence, idNext, idEnd, handedOut, dbFaults>>

\* initializeDB: an empty database gets the snapshot in one transaction.
EmptyFile == dbSchema = {}
InitializeDB ==
    /\ dbPhase = "inspect" /\ dbPhase' = "migrate"
    /\ IF EmptyFile
         THEN dbSchema' = LatestSchema /\ dbApplied' = Versions
         ELSE UNCHANGED <<dbSchema, dbApplied>>
    /\ UNCHANGED <<dbTx, dbScopes, dbSequence, idNext, idEnd, handedOut, dbFaults>>

\* runMigrations: the versions not recorded, in order.
BeginMigration ==
    /\ dbPhase = "migrate" /\ dbTx = NoTx
    /\ \E v \in Versions \ dbApplied :
        /\ \A u \in Versions \ dbApplied : v <= u
        /\ dbTx' = [version |-> v, schema |-> dbSchema, statements |-> Migration(v)]
    /\ UNCHANGED <<dbSchema, dbApplied, dbScopes, dbPhase, dbSequence, idNext, idEnd, handedOut, dbFaults>>

\* applyMigration: one statement inside the transaction; an error rolls it back and fails the start.
RunStatement ==
    /\ dbTx # NoTx /\ dbTx.statements # <<>>
    /\ IF LegalSQL(dbTx.schema, Head(dbTx.statements))
         THEN /\ dbTx' = [dbTx EXCEPT !.schema = EffectSQL(@, Head(dbTx.statements)), !.statements = Tail(@)]
              /\ UNCHANGED dbPhase
         ELSE dbTx' = NoTx /\ dbPhase' = "failed"
    /\ UNCHANGED <<dbSchema, dbApplied, dbScopes, dbSequence, idNext, idEnd, handedOut, dbFaults>>

\* applyMigration: statements, rows and the version record commit together; rows that cannot be converted
\* roll the last migration back and the start fails.
\* Mutant: the version is not recorded in the transaction of its statements.
RecordedLater(v) == dbApplied
Recorded(v) == dbApplied \cup {v}
CommitMigration ==
    /\ dbTx # NoTx /\ dbTx.statements = <<>>
    /\ dbTx' = NoTx
    /\ IF dbTx.version = 31 /\ ~Convertible(dbScopes)
         THEN dbPhase' = "closed" /\ UNCHANGED <<dbSchema, dbApplied, dbScopes>>
         ELSE /\ dbSchema' = dbTx.schema
              /\ dbApplied' = Recorded(dbTx.version)
              /\ dbScopes' = IF dbTx.version = 31 THEN Converted(dbScopes) ELSE dbScopes
              /\ UNCHANGED dbPhase
    /\ UNCHANGED <<dbSequence, idNext, idEnd, handedOut, dbFaults>>

\* New returns the store when no migration is left.
StoreOpens ==
    /\ dbPhase = "migrate" /\ dbTx = NoTx /\ dbApplied = Versions
    /\ dbPhase' = "open"
    /\ UNCHANGED <<dbSchema, dbTx, dbApplied, dbScopes, dbSequence, idNext, idEnd, handedOut, dbFaults>>

\* reserveSequence: the next range, cut at the largest number; nothing is left after it.
\* Mutant: the range is not cut at the largest number.
ReservedUncut == RangeSize
Reserved == IF RangeSize <= LargestID - dbSequence THEN RangeSize ELSE LargestID - dbSequence

\* NextIDSequence: from the reserved range, or from a new one, durable before a number of it is used.
\* Mutant: the first number of a new range is its predecessor.
FirstOfOff == dbSequence
FirstOf == dbSequence + 1
NextIDSequence ==
    /\ dbPhase = "open"
    /\ \/ idNext # 0 /\ UNCHANGED <<dbSequence, idEnd>>
       \/ idNext = 0 /\ dbSequence < LargestID /\ dbSequence' = dbSequence + Reserved /\ idEnd' = dbSequence'
    /\ LET value == IF idNext # 0 THEN idNext ELSE FirstOf
       IN /\ handedOut' = Append(handedOut, value)
          /\ idNext' = IF value = idEnd' THEN 0 ELSE value + 1
    /\ UNCHANGED <<dbSchema, dbTx, dbApplied, dbScopes, dbPhase, dbFaults>>

\* The process dies, or a transaction fails and the store is closed again; committed transactions stay.
StoreCrash ==
    /\ dbFaults > 0 /\ dbFaults' = dbFaults - 1
    /\ dbPhase # "closed" /\ dbPhase' = "closed" /\ dbTx' = NoTx
    /\ idNext' = 0 /\ idEnd' = 0
    /\ UNCHANGED <<dbSchema, dbApplied, dbScopes, dbSequence, handedOut>>

StoreStarts == OpenDB \/ InitializeDB \/ BeginMigration \/ RunStatement \/ CommitMigration \/ StoreOpens
StoreNext == StoreStarts \/ NextIDSequence \/ StoreCrash
\* The program runs its start to the end, and is started again after a crash.
StoreFairness == WF_storeVars(StoreStarts)
StoreSpec == StoreInit /\ [][StoreNext]_storeVars /\ StoreFairness

(***************************************************************************)
(* Properties                                                              *)
(***************************************************************************)
\* An upgraded database has the schema of a new one, object for object, from whatever version it came and
\* wherever the upgrade was interrupted (migrations against createLatestDBSQL).
UpgradedIsFresh == dbApplied = Versions => dbSchema \ {Tbl("schema_migrations")} = LatestSchema

\* No statement of a migration fails on the schema it meets: what is created is new and what is dropped is there.
StatementsApply == dbPhase # "failed"

\* The rows are converted with the last migration or not at all, and none is lost on the way.
RowsConvertedWhole ==
    [][dbScopes' # dbScopes => 31 \in dbApplied' \ dbApplied /\ Cardinality(dbScopes') = Cardinality(dbScopes)]_storeVars

\* An open store holds no conversation whose kind had to be guessed: every row has a kind of the new scheme,
\* and a scope without a kind became one only on the command line.
OpenRowsStructured ==
    dbPhase = "open" => \A r \in dbScopes : r.kind \in ChatKinds \cup TaskKinds /\ (r.id = 0 => r.platform = "cli")

\* Record numbers are never handed out twice, over crashes and at the end of the range.
NumbersUnique == IsInjective(handedOut) /\ \A i \in DOMAIN handedOut : handedOut[i] <= dbSequence

\* A database whose rows can be converted ends up open however its earlier starts were interrupted.
ConvertibleOpens == (Convertible(dbScopes) /\ dbScopes # Converted(dbScopes)) ~> (dbPhase = "open")

=============================================================================
