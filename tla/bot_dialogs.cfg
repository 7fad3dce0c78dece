\* One person, the three kinds of dialog, one failure, one change made elsewhere.
CONSTANTS
  p1 = p1  p2 = p2
  People = {p1}
  Starts = {"/neworder", "/newuser", "/editorder"}
  Contested = {"location"}
  MaxDialogs = 2
  MaxFaults = 1
  MaxEdits = 1
SPECIFICATION FairSpec
INVARIANTS TypeOK CopiesNeedAFault AnswersInPlace PasswordsTold
PROPERTIES KeptFieldsKept CancelEndsDialog UpdatesHandled
