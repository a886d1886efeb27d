CONSTANTS
  Calls = {c1, c2}
  Keys = {k1}
  Users = {u1, emojiUser, Nobody}
  None = None
  Nobody = Nobody
  u1 = u1
  emojiUser = emojiUser
  k1 = k1
  MaxFields = 2
  MaxIssues = 2
  MaxNotes = 1
  CoreKeys <- MCCoreKeys
  FieldKeys <- MCFieldKeys
  IdNames <- MCIdNames
  Characters <- MCCharacters
  Astral <- MCAstral
  Inbox <- MCInbox
  Teams <- MCTeams
  StatusAnswers <- MCStatusAnswers
  References <- MCReferences
  TaskErrors <- MCTaskErrors
  IdEdits <- MCIdEdits
SPECIFICATION ServerSpec
INVARIANT StatusIsOfTheAsked
