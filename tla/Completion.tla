------------------------------ MODULE Completion ------------------------------
(***************************************************************************)
(* Completion in the editor of a query tab                                 *)
(* (gui/widgets/workarea/ScriptWidget.cpp) and the keys the editor treats  *)
(* specially (gui/editors/PlainJavaScriptEditor.cpp).  Words the program   *)
(* knows are offered at once, the names of collections once the shell has  *)
(* answered (MongoShell.cpp, core/mongodb/MongoWorker.cpp), which is after *)
(* the user has typed on or moved away.                                    *)
(*                                                                         *)
(* The line is a sequence of characters; "d" stands for "db." and "a" for  *)
(* a letter.  QCompleter and Scintilla are external: the popup gets the    *)
(* keys first and passes them to the editor, which announces a change of   *)
(* the text, and of the caret if that moved.                               *)
(***************************************************************************)
EXTENDS Integers, Sequences, SequencesExt, FiniteSetsExt

CONSTANTS Known,     \* the words offered without asking, collections loaded included
          OnServer,  \* the words the shell completes a collection to
          MaxLine,   \* bound on the length of the line
          MaxAsked,  \* bound on the requests to the shell
          MaxKeys    \* bound on the keys that edit the line or move the caret

Letters == {"d", "a"}
Chars == Letters \cup {";", "(", ")", "'"}

ASSUME CompletionAssumption ==
  /\ \A w \in Known \cup OnServer : w \in Seq(Chars)
  /\ \A w \in OnServer : w # <<>> /\ Head(w) = "d"
  /\ MaxLine \in Nat /\ MaxAsked \in Nat /\ MaxKeys \in Nat

VARIABLES line,       \* the line the caret is in
          caret,      \* the characters before the caret
          changed,    \* _textChanged
          info,       \* _currentAutoCompletionInfo
          seen,       \* the line and the caret when info was taken
          local,      \* _lastLocalCandidates
          popup,      \* the words shown, {} when it is hidden
          ignore,     \* _ignoreEnterKey, _ignoreTabKey
          timer,      \* _serverCompleteTimer is active
          pending,    \* _pendingServerPrefix
          prefixes,  \* prefixes on their way to the worker
          replies,    \* prefixes it has answered, on their way back
          executing,  \* QueryWidget::isExecuting()
          mode,       \* the completion mode of the settings
          askedFor,   \* requests so far
          keys,       \* those keys so far
          lost,       \* an Enter or a Tab was swallowed that no popup could have taken
          byTyping    \* the line was made by typing and rubbing out at its end only

completionVars == <<line, caret, changed, info, seen, local, popup, ignore, timer, pending,
                    prefixes, replies, executing, mode, askedFor, keys, lost, byTyping>>
shellVars == <<prefixes, replies, executing, mode, askedFor>>

NoInfo == [left |-> 0, right |-> 0, token |-> <<>>]
AcceptKeys == {"enter", "tab"}

CompletionInit ==
  /\ line = <<>> /\ caret = 0 /\ changed = FALSE /\ info = NoInfo /\ seen = <<<<>>, 0>>
  /\ local = {} /\ popup = {} /\ ignore = {} /\ timer = FALSE /\ pending = <<>>
  /\ prefixes = <<>> /\ replies = <<>> /\ executing = FALSE /\ mode \in {"all", "noNames", "none"}
  /\ askedFor = 0 /\ keys = 0 /\ lost = FALSE /\ byTyping = TRUE

Stops == {";", "(", ")"}
\* The token ends before the first of these, right of the caret.
RightStops(l, c) == {i \in c + 1 .. Len(l) : l[i] \in Stops}
LeftStops(l, c) == {i \in 1..c : l[i] \in Stops}
LeftOf(l, c) == IF LeftStops(l, c) = {} THEN 0 ELSE Max(LeftStops(l, c))
RightOf(l, c) == IF RightStops(l, c) = {} THEN Len(l) ELSE Min(RightStops(l, c)) - 1

\* Mutant: one too far to the right.
SanitizedWithStop(l, c) ==
  [left |-> LeftOf(l, c),
   right |-> IF RightStops(l, c) = {} THEN Len(l) ELSE Min(RightStops(l, c)),
   token |-> SubSeq(l, LeftOf(l, c) + 1, c)]

\* sanitizeForAutocompletion(): characters left + 1 to right are the token, of which those
\* before the caret are completed; there is none near a quote.
Sanitized(l, c) ==
  IF \E i \in LeftOf(l, c) + 1 .. RightOf(l, c) : l[i] = "'" THEN NoInfo
  ELSE [left |-> LeftOf(l, c), right |-> RightOf(l, c), token |-> SubSeq(l, LeftOf(l, c) + 1, c)]

Extending(words, token) == {w \in words : IsPrefix(token, w)}
IsOfDb(token) == token # <<>> /\ Head(token) = "d"

\* localCandidates(): the names of collections are left out in the mode without them.
LocalCandidates(token) ==
  IF token = <<>> THEN {} ELSE Extending(Known \ (IF mode = "noNames" THEN OnServer ELSE {}), token)

\* What popupCompletions() shows: nothing that is typed already.
Offered(words, token) ==
  IF words \in {{token}, {Append(token, "(")}} THEN {} ELSE words

\* hideAutocompletion().
Hide == popup' = {} /\ ignore' = {}

\* popupCompletions().
PopUp(words, token) ==
  IF Offered(words, token) = {} THEN Hide ELSE popup' = Offered(words, token) /\ ignore' = AcceptKeys

\* showAutocompletion(), of the new line: without a token a request is not called off.
Show ==
  IF mode = "none" THEN Hide /\ UNCHANGED <<info, seen, local, timer, pending>>
  ELSE LET now == Sanitized(line', caret') IN
       /\ info' = now /\ seen' = <<line', caret'>>
       /\ IF now.token = <<>> THEN Hide /\ UNCHANGED <<local, timer, pending>>
          ELSE /\ local' = LocalCandidates(now.token)
               /\ PopUp(local', now.token)
               /\ timer' = (mode = "all" /\ IsOfDb(now.token) /\ "(" \notin ToSet(now.token))
               /\ pending' = IF timer' THEN now.token ELSE <<>>

\* onTextChanged(), onCursorPositionChanged(): completion follows a change of the text that
\* moves the caret.
AnnouncedNow ==
  LET isChanged == changed \/ line' # line IN
  IF caret' # caret /\ isChanged THEN Show /\ changed' = FALSE
  ELSE changed' = isChanged /\ UNCHANGED <<info, seen, local, popup, ignore, timer, pending>>

\* A key that edits or moves.
Announced ==
  /\ keys < MaxKeys /\ keys' = keys + 1
  /\ AnnouncedNow
Before == SubSeq(line, 1, caret)
After == SubSeq(line, caret + 1, Len(line))
Following == IF caret < Len(line) THEN line[caret + 1] ELSE "end"
Previous == IF caret > 0 THEN line[caret] ELSE "start"
Closing(c) == IF c = "(" THEN ")" ELSE c

\* handleAutoClose() of a character typed, and what the editor does without it.
Typed(c) ==
  /\ caret' = caret + 1
  /\ line' =
       IF c \in {")", "'"} /\ Following = c THEN line
       ELSE IF c \in {"(", "'"} /\ Following \in {"end", ")", ";"}
               /\ (c = "'" => Previous \notin Letters \cup {c})
            THEN Before \o <<c, Closing(c)>> \o After
       ELSE Before \o <<c>> \o After

Type(c) ==
  /\ Typed(c) /\ Len(line') <= MaxLine
  /\ Announced
  /\ UNCHANGED shellVars /\ UNCHANGED <<lost, byTyping>>

\* handleAutoClose() of Backspace: an empty pair goes at once.
RubsOut ==
  line' = Front(Before) \o
            (IF Following # "end" /\ Previous \in {"(", "'"} /\ Closing(Previous) = Following
             THEN Tail(After) ELSE After)

Backspace ==
  /\ caret > 0
  /\ RubsOut /\ caret' = caret - 1
  /\ Announced
  /\ UNCHANGED shellVars /\ UNCHANGED <<lost, byTyping>>

\* The caret stays where it is.
Delete ==
  /\ caret < Len(line)
  /\ line' = Before \o Tail(After) /\ caret' = caret
  /\ Announced
  /\ byTyping' = FALSE
  /\ UNCHANGED shellVars /\ UNCHANGED lost

Move(c) ==
  /\ c \in {caret - 1, caret + 1} /\ c \in 0..Len(line)
  /\ caret' = c /\ line' = line
  /\ Announced
  /\ byTyping' = FALSE
  /\ UNCHANGED shellVars /\ UNCHANGED lost

\* Where the token of info began, or the end of a line that has become shorter.
From == Min({info.left, Len(line)})

\* onCompletionActivated(): by info, whatever the line has become since.
Activated(word) ==
  LET paren == Last(word) = "(" /\ info.right < Len(line) /\ line[info.right + 1] = "("
      right == IF paren THEN info.right + 1 ELSE info.right
      rest == SubSeq(line, right + 1, Len(line)) IN
  /\ line' = SubSeq(line, 1, From) \o word \o rest
  /\ caret' = From + Len(word)

\* Enter or Tab with the popup open: the editor lets it pass once, the completer takes it.
Choose(key, word) ==
  /\ popup # {} /\ word \in popup /\ key \in ignore
  /\ Activated(word) /\ Len(line') <= MaxLine
  /\ popup' = {} /\ ignore' = ignore \ {key}
  /\ byTyping' = FALSE
  /\ UNCHANGED shellVars /\ UNCHANGED <<changed, info, seen, local, timer, pending, keys, lost>>

\* Enter or Tab without: eventFilter(), then keyPressEvent().  The caret goes on to a new
\* line, which is empty.
Press(key) ==
  LET passes == key \notin ignore' IN
  /\ popup = {}
  /\ Hide
  /\ lost' = (lost \/ ~passes)
  /\ line' = IF passes THEN <<>> ELSE line
  /\ caret' = IF passes THEN 0 ELSE caret
  /\ byTyping' = TRUE /\ changed' = FALSE
  /\ UNCHANGED shellVars /\ UNCHANGED <<info, seen, local, timer, pending, keys>>

\* Escape or a click elsewhere: QCompleter hides the popup, the editor is not told.
Escape ==
  /\ popup # {} /\ popup' = {}
  /\ UNCHANGED shellVars
  /\ UNCHANGED <<line, caret, changed, info, seen, local, ignore, timer, pending, keys, lost, byTyping>>

\* requestServerCompletion(): not behind a script that runs, and not again later.
TimerFires ==
  /\ timer /\ timer' = FALSE
  /\ askedFor < MaxAsked \/ executing
  /\ IF executing THEN UNCHANGED <<prefixes, askedFor>>
     ELSE prefixes' = Append(prefixes, pending) /\ askedFor' = askedFor + 1
  /\ UNCHANGED <<line, caret, changed, info, seen, local, popup, ignore, pending, replies,
                 executing, mode, keys, lost, byTyping>>

\* MongoWorker::handle(AutocompleteRequest), MongoShell::handle(AutocompleteResponse).
Answer ==
  /\ prefixes # <<>>
  /\ prefixes' = Tail(prefixes) /\ replies' = Append(replies, Head(prefixes))
  /\ UNCHANGED <<line, caret, changed, info, seen, local, popup, ignore, timer, pending,
                 executing, mode, askedFor, keys, lost, byTyping>>

\* Mutant: only the request sent last is waited for.
IsLiveIfPending(prefix) == prefix = pending

\* The guard of showAutocompletion(list, prefix).
IsLive(prefix) == Sanitized(line, caret).token = prefix

\* showAutocompletion(list, prefix).
HandleReply ==
  /\ replies # <<>> /\ replies' = Tail(replies)
  /\ LET prefix == Head(replies) IN
       IF IsLive(prefix)
       THEN /\ info' = Sanitized(line, caret) /\ seen' = <<line, caret>>
            /\ PopUp(local \cup Extending(OnServer, prefix), prefix)
       ELSE UNCHANGED <<info, seen, popup, ignore>>
  /\ UNCHANGED <<line, caret, changed, local, timer, pending, prefixes, executing, mode,
                 askedFor, keys, lost, byTyping>>

\* showProgress(), hideProgress(): a script of the tab begins or ends.
RunScript ==
  /\ executing' = ~executing
  /\ UNCHANGED <<line, caret, changed, info, seen, local, popup, ignore, timer, pending,
                 prefixes, replies, mode, askedFor, keys, lost, byTyping>>

CompletionAnswers == TimerFires \/ Answer \/ HandleReply

CompletionUser ==
  \/ \E c \in Chars : Type(c)
  \/ Backspace \/ Delete
  \/ \E c \in 0..MaxLine : Move(c)
  \/ \E key \in AcceptKeys, word \in Known \cup OnServer : Choose(key, word)
  \/ \E key \in AcceptKeys : Press(key)
  \/ Escape
  \/ RunScript

CompletionNext == CompletionUser \/ CompletionAnswers

\* The timer expires, the worker answers what it is asked (MongoshEngine), and the bus
\* delivers it.
CompletionSpec ==
  /\ CompletionInit /\ [][CompletionNext]_completionVars
  /\ WF_completionVars(TimerFires) /\ WF_completionVars(Answer) /\ WF_completionVars(HandleReply)
-----------------------------------------------------------------------------
\* Every variable stays in its type; while the popup is open it gets Enter and Tab.
CompletionTypeOK ==
  /\ line \in Seq(Chars) /\ Len(line) <= MaxLine /\ caret \in 0..Len(line)
  /\ changed \in BOOLEAN /\ timer \in BOOLEAN /\ executing \in BOOLEAN /\ lost \in BOOLEAN
  /\ local \subseteq Known /\ popup \subseteq Known \cup OnServer
  /\ ignore \subseteq AcceptKeys /\ (popup # {} => ignore = AcceptKeys)
  /\ Len(prefixes) + Len(replies) <= askedFor /\ askedFor \in 0..MaxAsked
  /\ keys \in 0..MaxKeys

\* ScriptWidget.cpp:271-279: however late a reply comes, the names it brings complete the
\* token at the caret, unless the caret or the line has changed since they were shown.
NamesAreForTheToken ==
  seen = <<line, caret>> =>
    \A w \in popup \ local : mode = "all" /\ IsPrefix(Sanitized(line, caret).token, w)

\* ScriptWidget.cpp:160-172, 397-403: a key that no popup takes is never swallowed, in
\* whatever way the popup went.
NoKeyIsLost == ~lost

\* ScriptWidget.cpp:452-476: a completion replaces its token, with a parenthesis that
\* follows it if it brings one, and leaves what is before and after, as long as the line is
\* the one the token was taken from.
OnlyTheTokenIsReplaced ==
  [][popup # {} /\ popup' = {} /\ line' # line /\ ignore' # {} /\ seen[1] = line =>
       \E w \in Known \cup OnServer :
         LET rest == SubSeq(line, RightOf(line, seen[2]) + 1, Len(line)) IN
         line' = SubSeq(line, 1, LeftOf(line, seen[2])) \o w \o
                   (IF Last(w) = "(" /\ rest # <<>> /\ Head(rest) = "(" THEN Tail(rest) ELSE rest)]_completionVars

\* PlainJavaScriptEditor.cpp:446-534: what a user types is before the caret, and after it
\* are the closing characters the editor has added, each for an opening one of its own
\* before the caret, the last opened the first.  (Parentheses are not counted: of a closing
\* one typed within quotes the editor does not know whether it is text.)
Closes(at) ==
  \A i \in DOMAIN at :
    /\ line[at[i]] \in {"(", "'"} /\ Closing(line[at[i]]) = After[i]
    /\ \A j \in DOMAIN at : i < j => at[j] < at[i]
ClosersAreOwed == byTyping => \E at \in [1 .. Len(line) - caret -> 1..caret] : Closes(at)

\* ScriptWidget.cpp:306-316: a token of the database that the user stays at gets the names
\* of the shell, unless a script runs.
Waits(t) ==
  /\ Sanitized(line, caret).token = t
  /\ (timer /\ pending = t /\ askedFor < MaxAsked) \/ t \in ToSet(prefixes \o replies)
HasNames(t) ==
  \/ Sanitized(line, caret).token # t
  \/ executing
  \/ Offered(Extending(OnServer, t), t) \subseteq popup
Tokens == <<<<"d">>, <<"d", "a">>>>

\* However late names come, the popup is about the token, takes no key it does not use,
\* and the closing characters added are owed.
CompletionIsSound == CompletionTypeOK /\ NamesAreForTheToken /\ NoKeyIsLost /\ ClosersAreOwed
=============================================================================
