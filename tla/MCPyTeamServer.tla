--------------------------- MODULE MCPyTeamServer ---------------------------
(***************************************************************************)
(* PyTeamServer for TLC: two fields and two issues at most, one core field *)
(* and two of a team's own; user ids and task ids at their limits of       *)
(* length, and of emoji past them in UTF-16 units only; a token for each   *)
(* kind of call and one that lacks something.                              *)
(***************************************************************************)
EXTENDS PyTeamServer, TLC

CONSTANTS u1, emojiUser, k1

MCCoreKeys == {"title"}
MCFieldKeys == {"env", "steps"}
MCIdNames == {"t1", "t2", "t3", "emojiId"}
MeasuredTexts == Keys \cup Users \cup IdNames
MCCharacters ==
  [s \in MeasuredTexts |-> CASE s = k1 -> 128 [] s = u1 -> 128 [] s = emojiUser -> 65
                       [] s \in {"t1", "t2"} -> 256 [] s = "emojiId" -> 129 [] OTHER -> 1]
MCAstral == [s \in MeasuredTexts |-> IF s \in {emojiUser, "emojiId"} THEN MCCharacters[s] ELSE 0]

Rule(call, of) == [call |-> call, key |-> of, options |-> {"plain"}, message |-> "plain"]
Raising(failure) == [call |-> "raise", failure |-> failure]
Field(of) == [key |-> of, label |-> "plain", description |-> "empty", kind |-> "text"]
Tool(name, read_only) == [name |-> name, read_only |-> read_only]

Descriptor ==
  [contractVersion |-> "2.x", key |-> "key", title |-> "plain", subtitle |-> "empty",
   fields |-> <<Field("env"), Field("steps")>>, notes |-> <<"plain">>]

Team ==
  [descriptor |-> Descriptor, hasStatus |-> TRUE,
   rules |-> <<Rule("require_core", "title"), Rule("require_enum_field", "env"),
               Rule("warn_missing_field", "steps")>>,
   ticket |-> [description |-> "plain", summary |-> "absent"],
   tools |-> <<Tool("lookup", TRUE), Tool("file", FALSE)>>]

MCTeams ==
  {Team,
   [Team EXCEPT !.hasStatus = FALSE, !.ticket.description = "long",
                !.rules = <<Rule("block", "title"), Rule("require_field", "steps")>>],
   [Team EXCEPT !.rules = <<Rule("block", "title"), Raising(Error("DESTINATION_UNAVAILABLE", TRUE)),
                            Raising(Internal)>>,
                !.ticket = Internal, !.tools = <<>>],
   [Team EXCEPT !.descriptor.title = "long"],
   [Team EXCEPT !.tools = <<Tool("status", TRUE)>>, !.hasStatus = FALSE],
   [Team EXCEPT !.tools = <<Tool("file", TRUE), Tool("file", FALSE)>>]}

\* Every field the descriptor may have, each required, and a core field too.
FullTeams ==
  {[Team EXCEPT !.rules = <<Rule("require_core", "title"), Rule("require_field", "env"),
                            Rule("require_field", "steps")>>]}

Draft(title, env) ==
  [readable |-> TRUE, core |-> [k \in MCCoreKeys |-> title],
   fieldValues |-> ("env" :> env) @@ ("steps" :> "absent")]
Unreadable == [Draft("absent", "absent") EXCEPT !.readable = FALSE]
MCDrafts == {Unreadable, Draft("padded", "padded"), Draft("blank", "plain"),
             Draft("plain", "other")}

Stdio == [token |-> FALSE, subject |-> Nobody, bound |-> FALSE, binding |-> <<>>, scopes |-> {}]
Reader == [Stdio EXCEPT !.token = TRUE, !.scopes = {"read"}]
StatusReader == [Reader EXCEPT !.subject = u1, !.bound = TRUE, !.binding = <<"t1", "t2">>]
Creator == [Reader EXCEPT !.subject = u1, !.scopes = {"create"}]
Stranger == [Creator EXCEPT !.subject = Nobody]

Nothing == [draft |-> Unreadable, key |-> "other", userId |-> "other", email |-> "absent",
            taskIds |-> <<>>]
Asking(name, args, caller) == [name |-> name, args |-> args, caller |-> caller]

MCInbox ==
  {Asking(n, Nothing, k) : n \in {"descriptor", "render", "lookup", "file", "intake_other"},
                           k \in {Reader, Creator}}
  \cup {Asking("validate", [Nothing EXCEPT !.draft = d], Reader) : d \in MCDrafts}
  \cup {Asking("create", [Nothing EXCEPT !.draft = d, !.key = k1, !.userId = u1, !.email = "null"], k) :
          d \in MCDrafts, k \in {Stdio, Creator}}
  \cup {Asking("create", [Nothing EXCEPT !.draft = Draft("plain", "plain"), !.key = k1,
                                         !.userId = u1, !.email = e], k) :
          e \in {"absent", "plain"}, k \in {Reader, Creator, Stranger}}
  \cup {Asking("create", [Nothing EXCEPT !.draft = Draft("plain", "plain"), !.key = k1,
                                         !.userId = emojiUser, !.email = "null"], Stdio)}
  \cup {Asking("status", [Nothing EXCEPT !.taskIds = l], k) :
          l \in {<<>>, <<"t1", "t2">>, <<"t2", "t1">>},
          k \in {Stdio, Reader, StatusReader, Creator}}
  \cup {Asking("status", [Nothing EXCEPT !.taskIds = l], Stdio) :
          l \in {[i \in 1..50 |-> "t1"], [i \in 1..51 |-> "t1"], <<"t1", "emojiId">>}}

Status(id) == [taskId |-> id, category |-> "todo", label |-> "plain", assignee |-> "null",
               lastChangedAt |-> "null"]
MCStatusAnswers ==
  {<<>>, <<Status("t3"), Status("t1")>>, [i \in 1..51 |-> Status("t1")],
   <<[Status("t1") EXCEPT !.label = "blank"], [Status("t2") EXCEPT !.category = "gone"]>>}

Reference == [id |-> "plain", displayKey |-> "plain", url |-> "null", location |-> "null"]
MCReferences == {Reference, [Reference EXCEPT !.url = "http"], [Reference EXCEPT !.displayKey = "blank"]}
MCTaskErrors == {[code |-> "DESTINATION_UNAVAILABLE", retryable |-> TRUE]}
MCIdEdits == {<<"t1", "t3">>, <<>>}
=============================================================================
