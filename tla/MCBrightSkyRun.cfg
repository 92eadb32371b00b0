SPECIFICATION Spec
CONSTANTS
  Versions <- MCVersions
  Pages <- MCPages
  Marks <- MCMarks
  Replies <- MCReplies
  MaxHeals = 2
  MaxMoves = 1
  Numeric = {"127"}
  Templated = {"{{name}}", "{{field}}", "[x='{{']"}
  References = {"{{name}}", "{{field}}"}
  EnvNames = {"ENV:TOKEN"}
  Blank = {"", " "}
  Overlong = {}
  Regexes <- MCRegexes
  IdSelectors = {"q"}
INVARIANTS OpensItsSiteOnly UrlChangesLeaveTheFirstPage MatchesAreOfTheStoredTarget RoleLessHealsMapAgain
CHECK_DEADLOCK FALSE
