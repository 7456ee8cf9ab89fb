------------------------------ MODULE Schema -------------------------------
(***************************************************************************)
(* The relational schema of the control plane, twice: as the declarative   *)
(* metadata the adapters are written against (relational/schema.py), and   *)
(* as the initial Alembic revision creates and drops it.  A table is its   *)
(* name, primary key, required and optional columns, unique constraints    *)
(* and indexes; the types of the columns are left out, except that a       *)
(* string without a length cannot be created on MySQL.                     *)
(***************************************************************************)
EXTENDS Sequences, SequencesExt

Table(name, pk, required, optional, unique, indexes) ==
  [name |-> name, pk |-> pk, required |-> required, optional |-> optional,
   unique |-> unique, indexes |-> indexes]

\* A plain, a unique, a partial (Postgres) and a GIN index
Index(name, columns) == [name |-> name, columns |-> columns, unique |-> FALSE, kind |-> "plain"]
Unique(name, columns) == [name |-> name, columns |-> columns, unique |-> TRUE, kind |-> "plain"]
Partial(name, columns, where) == [name |-> name, columns |-> columns, unique |-> FALSE, kind |-> where]
Gin(name, columns) == [name |-> name, columns |-> columns, unique |-> FALSE, kind |-> "gin"]

----------------------------------------------------------------------------
(* schema.py: the mapped classes.                                          *)

Org ==
  Table("orgs", <<"id">>, {"id", "slug", "residency_region", "created_at"}, {}, {},
    <<Unique("ux_orgs_slug", <<"slug">>)>>)

Workspace ==
  Table("workspaces", <<"id">>, {"id", "org_id", "slug", "created_at"}, {}, {},
    <<Unique("ux_workspaces_org_slug", <<"org_id", "slug">>), Index("ix_workspaces_org",
    <<"org_id">>)>>)

Membership ==
  Table("workspace_memberships", <<"workspace_id", "principal_id">>, {"org_id", "workspace_id",
    "principal_id", "role", "status", "created_at"}, {"expires_at"}, {},
    <<Index("ix_ws_membership_org", <<"org_id", "principal_id">>)>>)

Principal ==
  Table("principals", <<"id">>, {"id", "kind"}, {}, {}, << >>)

NamespaceDef ==
  Table("namespaces", <<"id">>, {"id", "org_id", "workspace_id", "owner_principal_id",
    "allowed_visibilities"}, {}, {}, << >>)

SessionDef ==
  Table("sessions", <<"id">>, {"id", "org_id", "workspace_id", "namespace_id", "state",
    "created_at"}, {"expires_at"}, {}, << >>)

SessionParticipant ==
  Table("session_participants", <<"session_id", "principal_id">>, {"session_id", "principal_id",
    "joined_at"}, {"left_at"}, {}, << >>)

AgentBinding ==
  Table("agent_bindings", <<"agent_principal_id", "workspace_id", "namespace_id", "session_id">>,
    {"agent_principal_id", "org_id", "workspace_id", "allowed_tools", "policy_cap", "namespace_id",
    "session_id"}, {}, {}, << >>)

AclEntry ==
  Table("acl_entries", <<"id">>, {"id", "org_id", "workspace_id", "object_ref",
    "subject_principal_id", "grantee_kind", "grant_id", "created_at"}, {"revoked_at"}, {},
    <<Partial("ix_acl_object_active", <<"workspace_id", "object_ref">>, "live"),
    Partial("ix_acl_subject_active", <<"subject_principal_id">>, "live")>>)

Grant ==
  Table("grants", <<"id">>, {"id", "org_id", "workspace_id", "object_ref", "grantor",
    "grantee_principal_id", "grantee_kind", "direction", "created_at"}, {"parent_grant_id",
    "revoked_at"}, {}, <<Partial("ix_grants_grantee_active", <<"grantee_principal_id">>, "live"),
    Partial("ix_grants_parent", <<"parent_grant_id">>, "live"), Partial("ix_grants_object",
    <<"workspace_id", "object_ref">>, "live")>>)

MemoryProvenance ==
  Table("memory_provenance", <<"memory_id">>, {"memory_id", "org_id", "workspace_id",
    "namespace_prefix", "owner_id", "visibility", "kind", "content_hash", "source", "tier", "state",
    "provenance_id", "synced_at", "meta"}, {"artifact_ref", "superseded_by"}, {},
    <<Unique("ux_prov_chash", <<"org_id", "workspace_id", "content_hash">>), Index("ix_prov_owner",
    <<"org_id", "workspace_id", "owner_id">>), Partial("ix_prov_artifact", <<"workspace_id",
    "artifact_ref">>, "artifact")>>)

FactProvenance ==
  Table("fact_provenance", <<"memory_id">>, {"memory_id", "org_id", "workspace_id",
    "namespace_prefix", "subject_entity_uid", "predicate", "polarity", "valid_at",
    "valid_at_inferred", "state", "recorded_at"}, {"object_entity_uid", "object_value_hash",
    "invalid_at"}, {}, <<Index("ix_fact_conflict", <<"namespace_prefix", "subject_entity_uid",
    "predicate">>), Partial("ix_fact_active", <<"namespace_prefix", "state">>, "active")>>)

ProvenanceLedgerRow ==
  Table("provenance_ledger", <<"stream_id", "version">>, {"stream_id", "version", "action",
    "memory_id", "org_id", "workspace_id", "actor_id", "at", "meta"}, {}, {},
    <<Index("ix_prov_ledger_memory", <<"org_id", "workspace_id", "memory_id">>)>>)

UsageEventRow ==
  Table("usage_event", <<"event_id">>, {"event_id", "seq", "occurred_at", "org_id", "workspace_id",
    "namespace", "principal_id", "to_prefix", "visibility", "product", "deployment_mode",
    "dimension", "quantity", "unit", "row_hash"}, {"op", "tier", "source", "model", "role",
    "engine", "device_id", "tokens_in", "tokens_out", "cached_input_tokens", "reasoning_tokens",
    "prev_hash"}, {}, <<Index("ix_usage_ws_seq", <<"workspace_id", "seq">>),
    Index("ix_usage_ws_occurred", <<"workspace_id", "occurred_at">>), Index("ix_usage_org_occurred",
    <<"org_id", "occurred_at">>)>>)

UsageOutboxRow ==
  Table("usage_outbox", <<"event_id">>, {"event_id", "payload", "enqueued_at"}, {"drained_at"}, {},
    << >>)

UsageRollupRow ==
  Table("usage_rollup", <<"bucket_key">>, {"bucket_key", "org_id", "workspace_id", "dimension",
    "hour_bucket", "quantity", "qualifiers", "source_high_water_seq"}, {}, {}, << >>)

DeviceRow ==
  Table("devices", <<"device_id">>, {"device_id", "org_id", "workspace_id", "principal_id",
    "public_key", "platform", "label", "app_build", "client_mode", "privacy_tier", "state",
    "enrolled_at", "last_synced_seq", "last_lamport"}, {"last_seen_at", "revoked_at", "revoked_by"},
    {}, <<Index("ix_devices_principal", <<"org_id", "principal_id">>)>>)

PrivateSyncLogRow ==
  Table("private_sync_log", <<"org_id", "principal_id", "seq">>, {"org_id", "workspace_id",
    "principal_id", "seq", "origin_device_id", "op", "memory_id", "content_hash", "tier",
    "valid_at", "valid_at_inferred", "lamport", "occurred_at", "provenance_id"}, {"winner_id",
    "loser_id", "payload_ref"}, {Unique("ux_synclog_occurrence", <<"org_id", "principal_id",
    "content_hash", "origin_device_id", "lamport">>)}, <<Index("ix_synclog_stream_seq", <<"org_id",
    "principal_id", "seq">>)>>)

ConflictRecordRow ==
  Table("conflict_records", <<"conflict_id">>, {"conflict_id", "org_id", "workspace_id",
    "namespace_prefix", "member_ids", "predicate_key", "method", "detected_confidence", "state",
    "policy_snapshot", "detected_at"}, {"proposed_winner_id", "resolution_kind",
    "resolved_winner_id", "resolution_origin", "resolved_by", "resolved_at"}, {},
    <<Index("ix_conflict_pending", <<"namespace_prefix", "state">>)>>)

AuditLogRow ==
  Table("audit_log", <<"id">>, {"id", "ts", "org_id", "workspace_id", "actor_id", "action",
    "success", "payload"}, {"target_id", "duration_ms"}, {}, <<Index("ix_audit_ws_ts",
    <<"workspace_id", "ts">>), Index("ix_audit_org_ts", <<"org_id", "ts">>)>>)

TrustLedgerEntryRow ==
  Table("trust_ledger_entries", <<"workspace_id", "seq">>, {"org_id", "workspace_id", "seq",
    "action", "actor_principal_id", "at", "detail", "entry_hash"}, {"subject_principal_id",
    "object_ref", "prev_hash"}, {}, <<Index("ix_trust_object", <<"workspace_id", "object_ref">>),
    Index("ix_trust_principal", <<"workspace_id", "subject_principal_id">>)>>)

\* The event listeners: two GIN indexes, after their tables, on Postgres only
PostgresOnly ==
  {<<"memory_provenance", Gin("gin_prov_meta", <<"meta">>)>>,
   <<"conflict_records", Gin("gin_conflict_members", <<"member_ids">>)>>}

Metadata ==
  {Org, Workspace, Membership, Principal, NamespaceDef, SessionDef, SessionParticipant,
   AgentBinding, AclEntry, Grant, MemoryProvenance, FactProvenance, ProvenanceLedgerRow,
   UsageEventRow, UsageOutboxRow, UsageRollupRow, DeviceRow, PrivateSyncLogRow, ConflictRecordRow,
   AuditLogRow, TrustLedgerEntryRow}

----------------------------------------------------------------------------
(* 46ae4bcc2472: each table, and the indexes created after it.             *)

create_acl_entries ==
  Table("acl_entries", <<"id">>, {"id", "org_id", "workspace_id", "object_ref",
    "subject_principal_id", "grantee_kind", "grant_id", "created_at"}, {"revoked_at"}, {},
    <<Partial("ix_acl_object_active", <<"workspace_id", "object_ref">>, "live"),
    Partial("ix_acl_subject_active", <<"subject_principal_id">>, "live")>>)

create_agent_bindings ==
  Table("agent_bindings", <<"agent_principal_id", "workspace_id", "namespace_id", "session_id">>,
    {"agent_principal_id", "org_id", "workspace_id", "namespace_id", "session_id", "allowed_tools",
    "policy_cap"}, {}, {}, << >>)

create_audit_log ==
  Table("audit_log", <<"id">>, {"id", "ts", "org_id", "workspace_id", "actor_id", "action",
    "success", "payload"}, {"target_id", "duration_ms"}, {}, <<Index("ix_audit_org_ts", <<"org_id",
    "ts">>), Index("ix_audit_ws_ts", <<"workspace_id", "ts">>)>>)

create_conflict_records ==
  Table("conflict_records", <<"conflict_id">>, {"conflict_id", "org_id", "workspace_id",
    "namespace_prefix", "member_ids", "predicate_key", "method", "detected_confidence", "state",
    "policy_snapshot", "detected_at"}, {"proposed_winner_id", "resolution_kind",
    "resolved_winner_id", "resolution_origin", "resolved_by", "resolved_at"}, {},
    <<Gin("gin_conflict_members", <<"member_ids">>), Index("ix_conflict_pending",
    <<"namespace_prefix", "state">>)>>)

create_devices ==
  Table("devices", <<"device_id">>, {"device_id", "org_id", "workspace_id", "principal_id",
    "public_key", "platform", "label", "app_build", "client_mode", "privacy_tier", "state",
    "enrolled_at", "last_synced_seq", "last_lamport"}, {"last_seen_at", "revoked_at", "revoked_by"},
    {}, <<Index("ix_devices_principal", <<"org_id", "principal_id">>)>>)

create_fact_provenance ==
  Table("fact_provenance", <<"memory_id">>, {"memory_id", "org_id", "workspace_id",
    "namespace_prefix", "subject_entity_uid", "predicate", "polarity", "valid_at",
    "valid_at_inferred", "state", "recorded_at"}, {"object_entity_uid", "object_value_hash",
    "invalid_at"}, {}, <<Partial("ix_fact_active", <<"namespace_prefix", "state">>, "active"),
    Index("ix_fact_conflict", <<"namespace_prefix", "subject_entity_uid", "predicate">>)>>)

create_grants ==
  Table("grants", <<"id">>, {"id", "org_id", "workspace_id", "object_ref", "grantor",
    "grantee_principal_id", "grantee_kind", "direction", "created_at"}, {"parent_grant_id",
    "revoked_at"}, {}, <<Partial("ix_grants_grantee_active", <<"grantee_principal_id">>, "live"),
    Partial("ix_grants_object", <<"workspace_id", "object_ref">>, "live"),
    Partial("ix_grants_parent", <<"parent_grant_id">>, "live")>>)

create_memory_provenance ==
  Table("memory_provenance", <<"memory_id">>, {"memory_id", "org_id", "workspace_id",
    "namespace_prefix", "owner_id", "visibility", "kind", "content_hash", "source", "tier", "state",
    "provenance_id", "synced_at", "meta"}, {"artifact_ref", "superseded_by"}, {},
    <<Gin("gin_prov_meta", <<"meta">>), Partial("ix_prov_artifact", <<"workspace_id",
    "artifact_ref">>, "artifact"), Index("ix_prov_owner", <<"org_id", "workspace_id", "owner_id">>),
    Unique("ux_prov_chash", <<"org_id", "workspace_id", "content_hash">>)>>)

create_namespaces ==
  Table("namespaces", <<"id">>, {"id", "org_id", "workspace_id", "owner_principal_id",
    "allowed_visibilities"}, {}, {}, << >>)

create_orgs ==
  Table("orgs", <<"id">>, {"id", "slug", "residency_region", "created_at"}, {}, {},
    <<Unique("ux_orgs_slug", <<"slug">>)>>)

create_principals ==
  Table("principals", <<"id">>, {"id", "kind"}, {}, {}, << >>)

create_private_sync_log ==
  Table("private_sync_log", <<"org_id", "principal_id", "seq">>, {"org_id", "workspace_id",
    "principal_id", "seq", "origin_device_id", "op", "memory_id", "content_hash", "tier",
    "valid_at", "valid_at_inferred", "lamport", "occurred_at", "provenance_id"}, {"winner_id",
    "loser_id", "payload_ref"}, {Unique("ux_synclog_occurrence", <<"org_id", "principal_id",
    "content_hash", "origin_device_id", "lamport">>)}, <<Index("ix_synclog_stream_seq", <<"org_id",
    "principal_id", "seq">>)>>)

create_provenance_ledger ==
  Table("provenance_ledger", <<"stream_id", "version">>, {"stream_id", "version", "action",
    "memory_id", "org_id", "workspace_id", "actor_id", "at", "meta"}, {}, {},
    <<Index("ix_prov_ledger_memory", <<"org_id", "workspace_id", "memory_id">>)>>)

create_session_participants ==
  Table("session_participants", <<"session_id", "principal_id">>, {"session_id", "principal_id",
    "joined_at"}, {"left_at"}, {}, << >>)

create_sessions ==
  Table("sessions", <<"id">>, {"id", "org_id", "workspace_id", "namespace_id", "state",
    "created_at"}, {"expires_at"}, {}, << >>)

create_trust_ledger_entries ==
  Table("trust_ledger_entries", <<"workspace_id", "seq">>, {"org_id", "workspace_id", "seq",
    "action", "actor_principal_id", "at", "detail", "entry_hash"}, {"subject_principal_id",
    "object_ref", "prev_hash"}, {}, <<Index("ix_trust_object", <<"workspace_id", "object_ref">>),
    Index("ix_trust_principal", <<"workspace_id", "subject_principal_id">>)>>)

create_usage_event ==
  Table("usage_event", <<"event_id">>, {"event_id", "seq", "occurred_at", "org_id", "workspace_id",
    "namespace", "principal_id", "to_prefix", "visibility", "product", "deployment_mode",
    "dimension", "quantity", "unit", "row_hash"}, {"op", "tier", "source", "model", "role",
    "engine", "device_id", "tokens_in", "tokens_out", "cached_input_tokens", "reasoning_tokens",
    "prev_hash"}, {}, <<Index("ix_usage_org_occurred", <<"org_id", "occurred_at">>),
    Index("ix_usage_ws_occurred", <<"workspace_id", "occurred_at">>), Index("ix_usage_ws_seq",
    <<"workspace_id", "seq">>)>>)

create_usage_outbox ==
  Table("usage_outbox", <<"event_id">>, {"event_id", "payload", "enqueued_at"}, {"drained_at"}, {},
    << >>)

create_usage_rollup ==
  Table("usage_rollup", <<"bucket_key">>, {"bucket_key", "org_id", "workspace_id", "dimension",
    "hour_bucket", "quantity", "qualifiers", "source_high_water_seq"}, {}, {}, << >>)

create_workspace_memberships ==
  Table("workspace_memberships", <<"workspace_id", "principal_id">>, {"org_id", "workspace_id",
    "principal_id", "role", "status", "created_at"}, {"expires_at"}, {},
    <<Index("ix_ws_membership_org", <<"org_id", "principal_id">>)>>)

create_workspaces ==
  Table("workspaces", <<"id">>, {"id", "org_id", "slug", "created_at"}, {}, {},
    <<Index("ix_workspaces_org", <<"org_id">>), Unique("ux_workspaces_org_slug", <<"org_id",
    "slug">>)>>)

\* The tables in the order upgrade creates them
Migration ==
  <<create_acl_entries, create_agent_bindings, create_audit_log, create_conflict_records,
    create_devices, create_fact_provenance, create_grants, create_memory_provenance,
    create_namespaces, create_orgs, create_principals, create_private_sync_log,
    create_provenance_ledger, create_session_participants, create_sessions,
    create_trust_ledger_entries, create_usage_event, create_usage_outbox, create_usage_rollup,
    create_workspace_memberships, create_workspaces>>
============================================================================
