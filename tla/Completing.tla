----------------------------- MODULE Completing -----------------------------
(***************************************************************************)
(* textDocument/completion (language_server/completion.py): what is        *)
(* offered depends on the block and on the line before the cursor, read    *)
(* token by token, and on the names that the syntax tree, or without one   *)
(* the text before the cursor, declares.                                   *)
(*                                                                         *)
(* The cursor stands before or after a whole word; names are in one case.  *)
(***************************************************************************)
EXTENDS Outline

TopLevelKeywords  == {"module", "import", "function", "directive", "workflow", "authority", "role",
                      "principal"}
DirectiveKeywords == {"state", "event", "cause", "requires", "authority"}
ActionKeywords    == {"add", "set", "emit", "message", "invoke", "when"}
FunctionKeywords  == {"let", "return", "when"}
BlockStarters     == {"function", "directive", "workflow", "authority", "role", "principal", "cause",
                      "path", "when", "otherwise"}
FunctionBlocks    == {"function", "function-when", "function-otherwise"}

\* The blocks that are open after some tokens, the innermost last.
BlockKind(starter, parent) ==
  IF starter \notin {"when", "otherwise"} THEN starter
  ELSE (IF parent \in FunctionBlocks THEN "function-" ELSE "action-") \o starter
Innermost(stack) == IF stack = <<>> THEN "top-level" ELSE Last(stack)
BlockStack(tokens) ==
  LET step(b, token) ==
        CASE token.kind = "{" ->
               [stack |-> Append(b.stack, BlockKind(b.starter, Innermost(b.stack))), starter |-> "block"]
          [] token.kind = "}" ->
               [stack |-> IF b.stack = <<>> THEN <<>> ELSE Front(b.stack), starter |-> "block"]
          [] token.kind \in BlockStarters -> [b EXCEPT !.starter = token.kind]
          [] OTHER -> b
  IN FoldLeft(step, [stack |-> <<>>, starter |-> "block"], tokens).stack

-----------------------------------------------------------------------------
\* The names a document declares, by what they stand for.
Inventory(types, parameters, locals, states, events) ==
  [types |-> types, parameters |-> parameters, locals |-> locals, states |-> states, events |-> events]
Following(tokens, keyword) ==
  {tokens[k + 1].value : k \in {k \in 1..Len(tokens) - 1 : tokens[k].kind = keyword
                                                            /\ Wordlike(tokens[k + 1])}}

\* The first word of each part between commas, from i up to a closing mark or the end.
FirstWords(tokens, i, closing) ==
  LET closed == {k \in i..Len(tokens) : tokens[k].kind = closing}
      end    == IF closed = {} THEN Len(tokens) ELSE Min(closed) - 1
      word(k) == Wordlike(tokens[k])
      first(k) == ~\E j \in i..k - 1 : word(j) /\ ~\E c \in j..k : tokens[c].kind = ","
  IN {tokens[k].value : k \in {k \in i..end : word(k) /\ first(k)}}

\* Where the list of a function's header opens: right after the name, or further on but
\* before the body.
Opens(tokens, mark) ==
  LET heads == {f \in 1..Len(tokens) - 1 : tokens[f].kind = "function" /\ Wordlike(tokens[f + 1])} IN
  {k \in 1..Len(tokens) : /\ tokens[k].kind = mark
                          /\ \E f \in heads : /\ f + 2 <= k /\ (mark = "<" => k = f + 2)
                                              /\ \A j \in f + 2..k - 1 : tokens[j].kind \notin {"(", "{"}}
HeaderNames(tokens, opening, closing) ==
  UNION {FirstWords(tokens, k + 1, closing) : k \in Opens(tokens, opening)}
FallbackInventory(tokens) ==
  Inventory(HeaderNames(tokens, "<", ">"), HeaderNames(tokens, "(", ")"),
            Following(tokens, "let"), Following(tokens, "state"), Following(tokens, "event"))

NamesOf(nodes) == {n.name : n \in nodes}
\* Faulty variant of FunctionInventory: only the bindings that the tree keeps are known.
LeadingInventory(n, fallback, cursor) ==
  Inventory(NamesOf(ToSet(n.parts[1].parts)), NamesOf(ToSet(n.parts[2].parts)),
            NamesOf({b \in LocalBindings(n) : b.from < cursor}), {}, {})
FunctionInventory(n, fallback, cursor) ==
  Inventory(NamesOf(ToSet(n.parts[1].parts)), NamesOf(ToSet(n.parts[2].parts)),
            fallback.locals \cup NamesOf({b \in LocalBindings(n) : b.from < cursor}), {}, {})
TreeInventory(n, fallback, cursor) ==
  CASE n = Nothing          -> fallback
    [] n.kind = "function"  -> FunctionInventory(n, fallback, cursor)
    [] n.kind = "directive" -> Inventory({}, {}, {}, NamesOf(ToSet(n.parts[1].parts)),
                                         NamesOf(ToSet(n.parts[2].parts)))
    [] OTHER -> fallback
InventoryAt(text, cursor) ==
  TreeInventory(Parsed(text), FallbackInventory(SubSeq(text, 1, cursor - 1)), cursor)

-----------------------------------------------------------------------------
\* What is offered, with the kinds of the protocol.  The order of the list, and which of two
\* descriptions of one label is kept, are left out.
Candidates(labels, kind) == {[label |-> l, kind |-> kind] : l \in labels}
KeywordCandidates(labels) == Candidates(labels, 14)
TypeCandidates(inventory) ==
  Candidates(BuiltinNames, 12) \cup Candidates(inventory.types, 25)
ExpressionCandidates(inventory) ==
  Candidates({"true", "false"}, 14) \cup Candidates(inventory.parameters \cup inventory.locals, 6)
    \cup Candidates(inventory.states, 5)

LastWord(line) ==
  LET words == {k \in 1..Len(line) : Wordlike(line[k])} IN
  IF words = {} THEN "" ELSE line[Max(words)].value
AfterColon(line) == line # <<>> /\ Last(line).kind = ":"
InsideGenericParameters(line) ==
  LET step(depth, token) == CASE token.kind = "<" -> depth + 1
                              [] token.kind = ">" /\ depth > 0 -> depth - 1
                              [] OTHER -> depth
  IN FoldLeft(step, 0, line) > 0 /\ \E k \in 1..Len(line) : line[k].kind = "function"

BlockCandidates(block, statementStart, inventory) ==
  CASE block = "top-level" -> KeywordCandidates(TopLevelKeywords)
    [] block = "directive" -> KeywordCandidates(DirectiveKeywords)
    [] block = "cause"     -> KeywordCandidates({"path"})
    [] block = "workflow"  -> KeywordCandidates({"invoke"})
    [] block = "authority" -> KeywordCandidates({"capability"})
    [] block = "role"      -> KeywordCandidates({"authority"})
    [] block = "principal" -> KeywordCandidates({"authority", "role"})
    [] block \in {"path", "action-when", "action-otherwise"} ->
         KeywordCandidates(ActionKeywords)
           \cup (IF statementStart THEN {} ELSE ExpressionCandidates(inventory))
    [] block \in FunctionBlocks ->
         KeywordCandidates(FunctionKeywords)
           \cup (IF statementStart THEN {}
                 ELSE ExpressionCandidates(inventory) \cup TypeCandidates(inventory))
    [] OTHER -> {}

CandidateSet(block, line, inventory) ==
  CASE AfterColon(line) /\ InsideGenericParameters(line) -> Candidates({"numeric"}, 12)
    [] AfterColon(line) /\ ~InsideGenericParameters(line) -> TypeCandidates(inventory)
    [] ~AfterColon(line) /\ LastWord(line) \in {"add", "set"} -> Candidates(inventory.states, 5)
    [] ~AfterColon(line) /\ LastWord(line) = "emit" -> Candidates(inventory.events, 23)
    [] OTHER -> BlockCandidates(block, line = <<>>, inventory)

StartsWith(label, prefix) == Len(prefix) <= Len(label) /\ SubSeq(label, 1, Len(prefix)) = prefix

\* The list at the word that begins at token i, on the line that begins at token first, with
\* the cursor before the word (at i) or after it (at i + 1).
Completion(text, inventory, i, first, cursor) ==
  LET prefix == IF cursor = i THEN "" ELSE text[i].value IN
  {c \in CandidateSet(Innermost(BlockStack(SubSeq(text, 1, i - 1))),
                      SubSeq(text, first, i - 1), inventory) : StartsWith(c.label, prefix)}
=============================================================================
