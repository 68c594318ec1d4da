--------------------------- MODULE ContextAssembly ---------------------------
(***************************************************************************)
(* The context of a model call (context/assembler.py, checkpoints.py).     *)
(*                                                                         *)
(* ContextAssembler.assemble screens the supplemental items, takes them in *)
(* order of priority while the rendered message fits the input budget, and *)
(* compacts what is left into one record of excerpts: the compactor halves *)
(* the longest excerpt, or drops it when it is short already, until the    *)
(* record meets its target, and the assembler lowers the target until the  *)
(* rendered record fits as well.  A conversation that is too long by       *)
(* itself is refused until a reviewed checkpoint stands for it.            *)
(*                                                                         *)
(* Items are named by their rank in (-priority, -created_at, item_id).     *)
(* Sizes are in tokens and add up: the rounding of the counter is left     *)
(* out, and the escapes that rendering adds to a record are any number up  *)
(* to EscapeLimit.                                                         *)
(***************************************************************************)
EXTENDS Integers, FiniteSets, FiniteSetsExt, Functions

CONSTANTS
    Ranks,          \* the items are 1..Ranks
    ItemSizes,      \* the sizes an item's content may have
    TalkSizes,      \* the sizes of the conversation
    InputBudget,    \* usable_input_tokens
    ItemBudget,     \* max_item_tokens
    Frame,          \* what rendering adds to a message and to a record
    SummaryFloor,   \* the smallest summary budget (64)
    SummaryMargin,  \* kept free besides the summary (64)
    SummaryStep,    \* least decrease of the summary budget (16)
    ExcerptFloor,   \* the shortest excerpt that is still cut (32)
    EscapeLimit,
    Talkers,        \* the principals who propose and review checkpoints
    Reviewers,      \* those with the conversation_reviewer role
    NoTalker

ContextItems == 1..Ranks

ASSUME ContextAssumption ==
    /\ Ranks \in Nat
    /\ ItemSizes \subseteq Nat /\ TalkSizes \subseteq Nat
    /\ {InputBudget, ItemBudget, Frame, SummaryFloor, SummaryMargin,
        SummaryStep, ExcerptFloor, EscapeLimit} \subseteq Nat
    /\ SummaryStep > 0
    /\ Reviewers \subseteq Talkers

VARIABLES
    offered,    \* the items: visibility and size
    talk,       \* the size of the conversation
    checkpoint, \* the semantic checkpoint of the conversation
    assembly    \* the assembly under way

contextVars == <<offered, talk, checkpoint, assembly>>

NewAssembly ==
    [stage |-> "new", next |-> 1, selected |-> {}, overflow |-> {},
     excluded |-> {}, target |-> 0, excerpts |-> << >>, compacted |-> {},
     summary |-> 0]

ContextInit ==
    /\ offered \in [ContextItems ->
                        [visible : {"yes", "denied", "system"}, size : ItemSizes]]
    /\ talk \in TalkSizes
    /\ checkpoint = [status |-> "none", by |-> NoTalker, version |-> 0, reviewer |-> NoTalker]
    /\ assembly = NewAssembly

------------------------------------------------------------------------------
(* Sizes.                                                                  *)

\* The sum of the sizes of some records.
TokensOf(sizes, records) == FoldFunctionOnSet(+, 0, sizes, records)

ItemTokens == [i \in ContextItems |-> offered[i].size + Frame]

\* _render_data_message and count_messages: nothing to render costs nothing.
Rendered(items, summary) ==
    IF items = {} /\ summary = 0 THEN talk
    ELSE talk + Frame + TokensOf(ItemTokens, items) + summary

SummaryTokens(excerpts) ==
    Frame + TokensOf([i \in DOMAIN excerpts |-> Frame + excerpts[i]], DOMAIN excerpts)

------------------------------------------------------------------------------
(* ContextAssembler.assemble.                                              *)

BeginAssembly ==
    /\ assembly.stage = "new"
    /\ assembly' = IF talk > InputBudget
                   THEN [assembly EXCEPT !.stage = "refused"]
                   ELSE [assembly EXCEPT
                            !.stage = "placing",
                            !.excluded = {i \in ContextItems : offered[i].visible # "yes"}]
    /\ UNCHANGED <<offered, talk, checkpoint>>

FitsBudget(i) ==
    /\ offered[i].size <= ItemBudget
    /\ Rendered(assembly.selected \union {i}, 0) <= InputBudget

PlaceItem ==
    LET i == assembly.next
    IN  /\ assembly.stage = "placing"
        /\ i \in ContextItems
        /\ assembly' =
            CASE i \in assembly.excluded -> [assembly EXCEPT !.next = i + 1]
              [] i \notin assembly.excluded /\ FitsBudget(i) ->
                    [assembly EXCEPT !.next = i + 1, !.selected = @ \union {i}]
              [] OTHER ->
                    [assembly EXCEPT !.next = i + 1, !.overflow = @ \union {i}]
        /\ UNCHANGED <<offered, talk, checkpoint>>

\* The excerpts of a new summary: each item gets an equal share.
FirstExcerpts(target) ==
    LET share == Max({ExcerptFloor, target \div Max({1, Cardinality(assembly.overflow)})})
    IN  [i \in assembly.overflow |-> Min({offered[i].size, share})]

\* Items the summary leaves out are excluded for want of budget.
EndPlacing(compacted, summary) ==
    [assembly EXCEPT !.stage = "rendering", !.compacted = compacted,
                     !.summary = summary,
                     !.excluded = @ \union (assembly.overflow \ compacted)]

\* Summarize what overflowed within the target, or give up on it.
TrySummary(target) ==
    assembly' = IF target >= SummaryFloor
                THEN [assembly EXCEPT !.stage = "compacting", !.target = target,
                                      !.excerpts = FirstExcerpts(target)]
                ELSE EndPlacing({}, 0)

PlacingEnds ==
    /\ assembly.stage = "placing"
    /\ assembly.next > Ranks
    /\ IF assembly.overflow = {}
       THEN assembly' = EndPlacing({}, 0)
       ELSE TrySummary(InputBudget - Rendered(assembly.selected, 0) - SummaryMargin)
    /\ UNCHANGED <<offered, talk, checkpoint>>

\* StructuredCompactor.compact: the first of the longest excerpts is halved,
\* or its record dropped.
ShrinkSummary ==
    LET x == assembly.excerpts
        longest == CHOOSE i \in DOMAIN x :
            /\ \A j \in DOMAIN x : x[j] <= x[i]
            /\ \A j \in DOMAIN x : x[j] = x[i] => i <= j
    IN  /\ assembly.stage = "compacting"
        /\ DOMAIN x # {}
        /\ SummaryTokens(x) > assembly.target
        /\ assembly' = [assembly EXCEPT !.excerpts =
                IF x[longest] <= ExcerptFloor
                THEN Restrict(x, DOMAIN x \ {longest})
                ELSE [x EXCEPT ![longest] = Max({ExcerptFloor, @ \div 2})]]
        /\ UNCHANGED <<offered, talk, checkpoint>>

\* No record fits: the whole assembly fails.
SummaryEmpty ==
    /\ assembly.stage = "compacting"
    /\ DOMAIN assembly.excerpts = {}
    /\ assembly' = [assembly EXCEPT !.stage = "failed"]
    /\ UNCHANGED <<offered, talk, checkpoint>>

\* Mutant of SummaryAccepted: the record is taken as measured before it is
\* rendered.
SummaryAcceptedUnrendered(tokens, escapes) == tokens - escapes <= InputBudget

SummaryAccepted(tokens, escapes) == tokens <= InputBudget

\* The compacted record as a record of the message, escapes included.
SummaryMade ==
    LET x == assembly.excerpts
    IN  /\ assembly.stage = "compacting"
        /\ DOMAIN x # {}
        /\ SummaryTokens(x) <= assembly.target
        /\ \E escapes \in 0..EscapeLimit :
            LET summary == SummaryTokens(x) + Frame + escapes
                tokens == Rendered(assembly.selected, summary)
            IN  IF SummaryAccepted(tokens, escapes)
                THEN assembly' = EndPlacing(DOMAIN x, summary)
                ELSE TrySummary(assembly.target
                                - Max({SummaryStep, tokens - InputBudget + 1}))
        /\ UNCHANGED <<offered, talk, checkpoint>>

\* The last guard of assemble.
FinishAssembly ==
    /\ assembly.stage = "rendering"
    /\ assembly' = [assembly EXCEPT !.stage =
            IF Rendered(assembly.selected, assembly.summary) <= InputBudget
            THEN "assembled" ELSE "overrun"]
    /\ UNCHANGED <<offered, talk, checkpoint>>

------------------------------------------------------------------------------
(* SemanticCheckpointService.                                              *)

ProposeCheckpoint(p) ==
    /\ assembly.stage = "refused"
    /\ checkpoint.status = "none"
    /\ checkpoint' = [status |-> "pending", by |-> p, version |-> 1, reviewer |-> NoTalker]
    /\ UNCHANGED <<offered, talk, assembly>>

ReviewCheckpoint(p) ==
    /\ p \in Reviewers
    /\ checkpoint.status = "pending"
    /\ checkpoint.by # p
    /\ \E status \in {"approved", "rejected"} :
        checkpoint' = [checkpoint EXCEPT !.status = status, !.version = @ + 1,
                                         !.reviewer = p]
    /\ UNCHANGED <<offered, talk, assembly>>

\* resume_message: the owner goes on with the summary instead of the
\* conversation.
ResumeCheckpoint(p) ==
    /\ checkpoint.status = "approved"
    /\ checkpoint.by = p
    /\ assembly.stage = "refused"
    /\ talk' \in {t \in TalkSizes : t <= InputBudget}
    /\ assembly' = NewAssembly
    /\ UNCHANGED <<offered, checkpoint>>

ContextNext ==
    \/ BeginAssembly
    \/ PlaceItem
    \/ PlacingEnds
    \/ ShrinkSummary
    \/ SummaryEmpty
    \/ SummaryMade
    \/ FinishAssembly
    \/ \E p \in Talkers :
        ProposeCheckpoint(p) \/ ReviewCheckpoint(p) \/ ResumeCheckpoint(p)

ContextSpec == ContextInit /\ [][ContextNext]_contextVars

------------------------------------------------------------------------------
(* Properties.                                                             *)

\* Whatever the sizes, the priorities and the escapes of the rendered
\* record, the last guard of assemble never fires ("rendered context
\* exceeded the safe input budget"), and an assembled context accounts for
\* every item once: as selected, as compacted or as excluded.
AssemblyAccountsForItems ==
    /\ assembly.stage # "overrun"
    /\ assembly.stage = "assembled" =>
        /\ assembly.selected \union assembly.compacted \union assembly.excluded
            = ContextItems
        /\ Cardinality(assembly.selected) + Cardinality(assembly.compacted)
            + Cardinality(assembly.excluded) = Ranks
=============================================================================
