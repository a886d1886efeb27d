---------------------------- MODULE ContractRules ----------------------------
(***************************************************************************)
(* What the Python SDK takes from the arguments of a call, what it lets    *)
(* out of a team's hands, and the contract both are held to (draft.py,     *)
(* readiness.py, task.py, _contract_output.py, _generated.py).             *)
(*                                                                         *)
(* A text is one of five that the checks tell apart: "padded" is "plain"   *)
(* with blanks around it, "long" is past every limit.  What is no text at  *)
(* all is "absent", "null" or "other".  Issues are named by the rule that  *)
(* raised them, whose words are the team's.                                *)
(***************************************************************************)
EXTENDS Naturals, Sequences, SequencesExt

CONSTANTS MaxFields,   \* maxItems of a descriptor's fields, 25
          MaxIssues,   \* maxItems of blockers and of warnings, 25
          MaxNotes,    \* maxItems of readinessNotes, 10
          CoreKeys,    \* the host's core fields
          FieldKeys,   \* the keys of a team's own fields
          KeyNames,    \* texts of the characters an idempotency key may have
          UserNames,   \* texts that are sent as user ids
          IdNames,     \* texts that are sent as task ids
          Characters,  \* how many characters each of these three kinds has
          Astral       \* and how many of them lie beyond U+FFFF, as emoji do

Texts == {"empty", "blank", "padded", "plain", "long"}
Json == Texts \cup {"absent", "null", "other"}

js_trim(t) ==
  CASE t \in {"empty", "blank"} -> "empty"
    [] t = "padded" -> "plain"
    [] OTHER -> t

filled(v) == v \in Texts /\ js_trim(v) # "empty"

\* Mutation: the bytes of the encoding are counted, not its units.
Utf16Bytes(s) == 2 * (Characters[s] + Astral[s])

\* UTF-16 units, as JavaScript counts.
js_length(s) == Characters[s] + Astral[s]

\* The limits of task.py, and those the generated schemas state.
MaxKeyLength == 128
MaxUserIdLength == 128
MaxTaskIds == 50
MaxTaskIdLength == 256
Published ==
  [idempotencyKey |-> 128, userId |-> 128, taskIds |-> 50, taskId |-> 256, statuses |-> 50]

\* A schema's minLength is 1 and its maxLength counts characters.
SchemaLength(s, limit) == Characters[s] \in 1..limit

\* minLength 1 and a maxLength, as the schemas ask of most strings.
Bounded(v) == v \in Texts \ {"empty", "long"}
Short(v) == v \in Texts \ {"long"}
ShortOrNull(v) == Short(v) \/ v = "null"

(***************************************************************************)
(* Drafts                                                                  *)
(***************************************************************************)
\* _text: trimmed, and what is blank or no text is absent.
AsText(v) == IF filled(v) THEN js_trim(v) ELSE "null"

\* A raw draft is what a caller sent; readable tells whether it is an object.
\* The requester of a draft is for display and left out.
to_intake_draft(raw) ==
  [core |-> [k \in CoreKeys |-> IF raw.readable THEN AsText(raw.core[k]) ELSE "null"],
   fieldValues |-> [k \in FieldKeys |-> IF raw.readable /\ raw.fieldValues[k] \in Texts
                                        THEN raw.fieldValues[k] ELSE "absent"]]

field_value(draft, key) == AsText(draft.fieldValues[key])

(***************************************************************************)
(* Readiness: a team's validate is a chain of calls on one report, each a  *)
(* rule that blocks, warns or passes, or code of the team's that raises.   *)
(***************************************************************************)
Blocks(rule, draft) ==
  CASE rule.call = "block" -> TRUE
    [] rule.call = "require_core" -> ~filled(draft.core[rule.key])
    [] rule.call = "require_field" -> field_value(draft, rule.key) = "null"
    [] rule.call = "require_enum_field" -> field_value(draft, rule.key) \notin rule.options
    [] OTHER -> FALSE

Raises(rules) == \E i \in DOMAIN rules : rules[i].call = "raise"

\* The first of them ends the check.
Raised(rules) ==
  rules[CHOOSE i \in DOMAIN rules :
          /\ rules[i].call = "raise"
          /\ \A j \in DOMAIN rules : rules[j].call = "raise" => i <= j].failure

Warns(rule, draft) ==
  rule.call = "warn_missing_field" /\ field_value(draft, rule.key) = "null"

verdict(rules, draft) ==
  LET blockers == SelectSeq(rules, LAMBDA rule : Blocks(rule, draft)) IN
    [ready |-> blockers = <<>>, blockers |-> blockers,
     warnings |-> SelectSeq(rules, LAMBDA rule : Warns(rule, draft))]

(***************************************************************************)
(* The published output schemas                                            *)
(***************************************************************************)
IssuesFit(issues) ==
  Len(issues) <= MaxIssues /\ \A i \in DOMAIN issues : Bounded(issues[i].message)

VerdictFits(v) == IssuesFit(v.blockers) /\ IssuesFit(v.warnings)

FieldFits(f) ==
  /\ f.key \in FieldKeys
  /\ Bounded(f.label) /\ Short(f.description)
  /\ f.kind \in {"text", "longText", "enum"}

DescriptorFits(d) ==
  /\ d.contractVersion = "2.x"
  /\ d.key = "key" /\ Bounded(d.title) /\ Short(d.subtitle)
  /\ Len(d.fields) <= MaxFields /\ \A i \in DOMAIN d.fields : FieldFits(d.fields[i])
  /\ Len(d.notes) <= MaxNotes /\ \A i \in DOMAIN d.notes : Short(d.notes[i])

TicketFits(t) == Bounded(t.description) /\ (t.summary # "absent" => Bounded(t.summary))

TaskReferenceFits(t) ==
  /\ Bounded(t.id) /\ Bounded(t.displayKey)
  /\ t.url \in {"http", "null"} /\ ShortOrNull(t.location)

\* The value of taskId is a task id; its label and assignee are texts.
TaskStatusFits(s) ==
  /\ s.taskId \in IdNames /\ SchemaLength(s.taskId, Published.taskId)
  /\ s.category \in {"todo", "in_progress", "done"}
  /\ Bounded(s.label) /\ ShortOrNull(s.assignee) /\ ShortOrNull(s.lastChangedAt)

\* Of a team's list, the statuses at some of its places.
StatusesFit(listed, places) ==
  Cardinality(places) <= Published.statuses /\ \A i \in places : TaskStatusFits(listed[i])

(***************************************************************************)
(* Creation and status input, and a team's answers to them                 *)
(***************************************************************************)
\* to_create_task_input accepts the arguments.
ReadableCreation(args) ==
  /\ args.key \in KeyNames /\ Characters[args.key] \in 1..MaxKeyLength
  /\ args.userId \in UserNames
  /\ Characters[args.userId] > 0 /\ js_length(args.userId) <= MaxUserIdLength
  /\ args.email \in Texts \cup {"null"}

\* to_task_ids accepts them; a list it does not accept for its type is <<>>.
ReadableTaskIds(ids) ==
  /\ ids \in Seq(IdNames) \ {<<>>} /\ Len(ids) <= MaxTaskIds
  /\ \A i \in DOMAIN ids :
       Characters[ids[i]] > 0 /\ js_length(ids[i]) <= MaxTaskIdLength

checked_task_reference(t) ==
  TaskReferenceFits(t) /\ filled(t.id) /\ filled(t.displayKey)

\* Mutation: any well-formed status is passed on.
CheckedForShapeOnly(listed, ids) ==
  {i \in DOMAIN listed : TaskStatusFits(listed[i])}

\* The places of the statuses that are passed on, in the order of the list.
checked_statuses(listed, ids) ==
  {i \in DOMAIN listed : /\ TaskStatusFits(listed[i]) /\ filled(listed[i].label)
                         /\ listed[i].taskId \in ToSet(ids)}

(***************************************************************************)
(* The contract's tools                                                    *)
(***************************************************************************)
ContractTools == {"descriptor", "validate", "render", "create", "status"}
ContractScope(name) == IF name = "create" THEN "create" ELSE "read"

\* A name with the prefix that belongs to the contract, and no tool of today.
ReservedNames == ContractTools \cup {"intake_other"}

\* The input schemas tools/list publishes, for the arguments each tool reads.
DraftSchemaAllows(raw) ==
  /\ raw.readable
  /\ \A k \in CoreKeys : raw.core[k] \in Texts \cup {"null"}
  /\ \A k \in FieldKeys : raw.fieldValues[k] \in (Texts \ {"long"}) \cup {"absent"}

InputSchemaAllows(name, args) ==
  CASE name \in {"validate", "render"} -> DraftSchemaAllows(args.draft)
    [] name = "create" -> /\ DraftSchemaAllows(args.draft)
                          /\ args.key \in KeyNames
                          /\ SchemaLength(args.key, Published.idempotencyKey)
                          /\ args.userId \in UserNames
                          /\ SchemaLength(args.userId, Published.userId)
                          /\ args.email \in Texts \cup {"null"}
    [] name = "status" -> /\ args.taskIds \in Seq(IdNames)
                          /\ Len(args.taskIds) \in 1..Published.taskIds
                          /\ \A i \in DOMAIN args.taskIds :
                               SchemaLength(args.taskIds[i], Published.taskId)
    [] OTHER -> TRUE

\* _assert_tool_names_usable.
UsableNames(tools) ==
  \A i \in DOMAIN tools :
    /\ tools[i].name \notin ReservedNames
    /\ \A j \in DOMAIN tools : tools[j].name = tools[i].name => j = i
=============================================================================
