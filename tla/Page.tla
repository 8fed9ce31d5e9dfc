-------------------------------- MODULE Page --------------------------------
(***************************************************************************)
(* A page of the browser (apps/web/src/renderer/page.rs): receive_response *)
(* makes the tree (Html), takes the style sheet from it (renderer/css), and*)
(* makes the layout and the list of what is painted (Layout).              *)
(*                                                                         *)
(* The input is either a page somebody wrote, printed in one of several    *)
(* forms, or any characters, with nothing written.                         *)
(***************************************************************************)
EXTENDS Html, Layout, FiniteSetsExt

CONSTANTS
    CssLetters,
    Words,          \* the letters that stand for three characters or more
    Digits,
    Pages,          \* what is written: [title, sheet, body]
    Forms,          \* how it is printed
    Strings         \* other inputs

VARIABLES
    css,            \* CssTokenizer::input
    at,             \* the position the next token is read from
    where,          \* the loop that runs
    rule,           \* of consume_list_of_rule
    dropped,        \* its caller throws the rule away
    rules,
    page,           \* the page that was written, or NoPage
    layout,         \* the layout tree, once there is one
    display_items,
    idle            \* turns of the loops since a character was read

cssVars == <<css, at, where, rule, dropped, rules>>
pageVars == <<vars, cssVars, page, layout, display_items, idle>>

PageAssumption == 3 * CHAR_WIDTH <= WINDOW_WIDTH + WINDOW_PADDING

NoPage == << >>

----------------------------------------------------------------------------
(* Style sheets: the tokenizer as a function of the position, and          *)
(* CssParser, a turn of a loop at a time.  As in Html a letter stands for  *)
(* a word, and a digit for a run of digits; what number it is no one asks. *)
(* An identifier or a string that the end of the input cuts off, and a     *)
(* character that next does not know, stop the browser when the parser     *)
(* gets there.                                                             *)
NoRule == [selector |-> [ty |-> "TypeSelector", name |-> << >>], declarations |-> << >>]

CssInit ==
    /\ css = << >> /\ at = 1 /\ where = "idle"
    /\ rule = NoRule /\ dropped = FALSE /\ rules = << >>

Token(ty, v, end) == [ty |-> ty, v |-> v, end |-> end]
Bad == Token("Panic", << >>, 0)

(* The first position from p on that is behind the input or not in S.      *)
run_end(p, S) == Min({q \in p .. Len(css) + 1 : q > Len(css) \/ css[q] \notin S})

IdentChars == CssLetters \cup Digits \cup {"-", "_"}

consume_ident_token(ty, p) ==
    LET e == run_end(p + 1, IdentChars) IN
    IF e > Len(css) THEN Bad ELSE Token(ty, SubSeq(css, p, e - 1), e)

(* Either quote ends a string.                                             *)
consume_string_token(p) ==
    LET close == {q \in p + 1 .. Len(css) : css[q] \in {"\"", "'"}} IN
    IF close = {} THEN Bad ELSE Token("StringToken", SubSeq(css, p + 1, Min(close) - 1), Min(close) + 1)

Punctuation == {"(", ")", ",", ".", ":", ";", "{", "}"}

(* CssTokenizer::next at position p, past what is blank.                   *)
next_token(p) ==
    LET q == run_end(p, {" ", "\n"}) IN
    IF q > Len(css) THEN Token("None", << >>, q)
    ELSE LET ch == css[q] IN
         CASE ch \in Punctuation -> Token(ch, <<ch>>, q + 1)
           [] ch \in {"\"", "'"} -> consume_string_token(q)
           [] ch \in Digits -> LET e == run_end(q, Digits \cup {"."}) IN Token("Number", << >>, e)
           [] ch = "#" -> consume_ident_token("HashToken", q)
           [] ch \in CssLetters \cup {"-", "_"} -> consume_ident_token("Ident", q)
           [] ch = "@" -> IF q = Len(css) THEN Bad
                          ELSE IF css[q + 1] \in Words THEN consume_ident_token("AtKeyword", q + 1)
                          ELSE Token("@", <<ch>>, q + 1)
           [] OTHER -> Bad

peek == next_token(at)
second == next_token(peek.end)

runs(w) == where = w /\ peek.ty # "Panic" /\ UNCHANGED css

fails == where' = "panic" /\ UNCHANGED <<at, rule, dropped, rules>>

(* CssParser::new                                                          *)
parse_stylesheet(text) ==
    /\ css' = text /\ at' = 1 /\ where' = "rules"
    /\ UNCHANGED <<rule, dropped, rules>>

consume_list_of_rules ==
    /\ runs("rules")
    /\ \/ peek.ty = "None" /\ where' = "done" /\ UNCHANGED <<rule, dropped>>
       \/ peek.ty # "None" /\ where' = "rule" /\ rule' = NoRule /\ dropped' = (peek.ty = "AtKeyword")
    /\ UNCHANGED <<at, rules>>

Select(ty, name) == rule' = [rule EXCEPT !.selector = [ty |-> ty, name |-> name]]

(* consume_selector; the last one before the block counts.  Behind a colon *)
(* and an @ everything is skipped up to the block.                         *)
consume_selector ==
    /\ runs("rule") /\ peek.ty \notin {"None", "{"}
    /\ UNCHANGED <<dropped, rules>>
    /\ \/ /\ peek.ty = "HashToken" /\ Select("IdSelector", Tail(peek.v))
          /\ at' = peek.end /\ UNCHANGED where
       \/ /\ peek.ty = "." /\ second.ty = "Ident" /\ Select("ClassSelector", second.v)
          /\ at' = second.end /\ UNCHANGED where
       \/ /\ \/ peek.ty = "." /\ second.ty # "Ident"
             \/ peek.ty \in {",", "@"}
          /\ where' = "panic" /\ UNCHANGED <<at, rule>>
       \/ /\ peek.ty = "Ident" /\ Select("TypeSelector", peek.v) /\ at' = peek.end
          /\ IF second.ty = "Panic" THEN where' = "panic"
             ELSE where' = IF second.ty = ":" THEN "skip" ELSE "rule"
       \/ peek.ty = "AtKeyword" /\ Select("UnknownSelector", << >>) /\ at' = peek.end /\ where' = "skip"
       \/ /\ peek.ty \notin {"HashToken", ".", ",", "@", "Ident", "AtKeyword"}
          /\ Select("UnknownSelector", << >>)
          /\ IF second.ty = "Panic" THEN where' = "panic" /\ UNCHANGED at
             ELSE at' = second.end /\ UNCHANGED where

(* The loop that looks for the block does not end where there is none.     *)
skip_to_block ==
    /\ runs("skip") /\ peek.ty # "None"
    /\ IF peek.ty = "{" THEN where' = "rule" /\ UNCHANGED at ELSE at' = peek.end /\ UNCHANGED where
    /\ UNCHANGED <<rule, dropped, rules>>

rule_ends ==
    /\ where' = "rules"
    /\ rules' = IF dropped THEN rules ELSE Append(rules, rule)
    /\ UNCHANGED <<rule, dropped>>

consume_list_of_rule ==
    /\ runs("rule")
    /\ \/ peek.ty = "None" /\ where' = (IF dropped THEN "rules" ELSE "done") /\ UNCHANGED at
       \/ peek.ty = "{" /\ where' = "declarations" /\ at' = peek.end
    /\ UNCHANGED <<rule, dropped, rules>>

(* consume_declaration: a name, a colon and one token as the value.        *)
consume_declaration ==
    /\ runs("declarations") /\ peek.ty = "Ident"
    /\ IF second.ty = ":"
       THEN LET value == next_token(second.end) IN
            IF value.ty \in {"Panic", "None"} THEN fails
            ELSE /\ rule' = [rule EXCEPT !.declarations =
                                Append(@, [property |-> peek.v, value |-> [ty |-> value.ty, v |-> value.v]])]
                 /\ at' = value.end /\ UNCHANGED <<where, dropped, rules>>
       ELSE IF second.ty = "Panic" THEN fails
       ELSE at' = second.end /\ UNCHANGED <<where, rule, dropped, rules>>

consume_list_of_declarations ==
    /\ runs("declarations") /\ peek.ty # "Ident"
    /\ \/ peek.ty \in {"None", "}"} /\ at' = peek.end /\ rule_ends
       \/ peek.ty \notin {"None", "}"} /\ at' = peek.end /\ UNCHANGED <<where, rule, dropped, rules>>

token_panics ==
    /\ where \in {"rules", "rule", "skip", "declarations"} /\ peek.ty = "Panic"
    /\ fails /\ UNCHANGED css

parse_rules ==
    \/ consume_list_of_rules \/ consume_list_of_rule \/ consume_selector \/ skip_to_block
    \/ consume_declaration \/ consume_list_of_declarations \/ token_panics

----------------------------------------------------------------------------
(* How a page is printed: form.quote is the quote around values, gap what  *)
(* is put between tags, bare says that the tags of html, head and body are *)
(* left out, loud that names are in upper case, style_first that the style *)
(* comes before the title, and fancy that the sheet has what is skipped.   *)

Concat(seqs) == FoldLeft(LAMBDA s, t : s \o t, << >>, seqs)

Name(kind, form) ==
    IF form.loud /\ \E u \in DOMAIN Upper : Upper[u] = kind
    THEN CHOOSE u \in DOMAIN Upper : Upper[u] = kind ELSE kind

Attributes(attributes, form) ==
    Concat([i \in DOMAIN attributes |->
        <<" ">> \o attributes[i].name \o <<"=">> \o form.quote \o attributes[i].value \o form.quote])

Open(kind, attributes, form) ==
    <<"<", Name(kind, form)>> \o Attributes(attributes, form) \o <<">">>
Close(kind, form) == <<"<", "/", Name(kind, form), ">">> \o form.gap

RECURSIVE WriteTree(_, _)
WriteTree(t, form) ==
    IF t.kind = "Text" THEN t.data
    ELSE Open(t.kind, t.data, form) \o Concat([i \in DOMAIN t.children |-> WriteTree(t.children[i], form)])
            \o Close(t.kind, form)

WriteSelector(selector, form) ==
    CASE selector.ty = "ClassSelector" -> <<".">> \o selector.name
      [] selector.ty = "IdSelector" -> <<"#">> \o selector.name
      [] OTHER -> selector.name \o IF form.fancy THEN <<":", "hover">> ELSE << >>

WriteRule(r, form) ==
    WriteSelector(r.selector, form) \o form.gap \o <<"{">>
        \o Concat([i \in DOMAIN r.declarations |->
                r.declarations[i].property \o <<":">> \o form.gap \o r.declarations[i].value.v \o <<";">>])
        \o <<"}">>

WriteSheet(sheet, form) ==
    (IF form.fancy THEN <<"@", "media", "print", "{", "color", ":", "1", ";", "}">> ELSE << >>)
        \o Concat([i \in DOMAIN sheet |-> WriteRule(sheet[i], form)])

Write(p, form) ==
    LET title == WriteTree([kind |-> "title", data |-> << >>,
                            children |-> <<[kind |-> "Text", data |-> p.title]>>], form)
        style == WriteTree([kind |-> "style", data |-> << >>,
                            children |-> <<[kind |-> "Text", data |-> WriteSheet(p.sheet, form)]>>], form)
        head == IF form.style_first THEN style \o title ELSE title \o style
        body == Concat([i \in DOMAIN p.body |-> WriteTree(p.body[i], form)]) IN
    IF form.bare THEN head \o body
    ELSE Open("html", << >>, form) \o form.gap \o Open("head", << >>, form) \o form.gap \o head
            \o Close("head", form) \o Open("body", << >>, form) \o form.gap \o body
            \o Close("body", form) \o Close("html", form)

----------------------------------------------------------------------------
NoPageYet == CssInit /\ layout = << >> /\ display_items = << >> /\ idle = 0

Rest == page = NoPage /\ InitWith(<< >>) /\ NoPageYet

PageInit ==
    /\ \/ page = NoPage /\ \E s \in Strings : InitWith(s)
       \/ page \in Pages /\ \E f \in Forms : InitWith(Write(page, f))
    /\ NoPageYet

----------------------------------------------------------------------------
(* tagret_element_node: the first of that kind, a node before its children *)
(* and these before its next sibling.                                      *)
RECURSIVE preorder(_)
preorder(siblings) ==
    IF siblings = << >> THEN << >>
    ELSE <<Head(siblings)>> \o preorder(nodes[Head(siblings)].children) \o preorder(Tail(siblings))

tagret_element_node(kind) == SelectSeq(preorder(<<1>>), LAMBDA n : nodes[n].kind = kind)

text_of(kind) ==
    LET found == tagret_element_node(kind) IN
    IF found = << >> \/ nodes[Head(found)].children = << >> THEN << >>
    ELSE LET child == nodes[Head(nodes[Head(found)].children)] IN
         IF child.kind = "Text" THEN child.data ELSE << >>

title_content == trim(text_of("title"))
style_content == text_of("style")

(* The body and its next siblings: where build_layout_tree starts.         *)
body_root ==
    LET found == tagret_element_node("body") IN
    IF found = << >> THEN << >>
    ELSE LET siblings == nodes[CHOOSE n \in DOMAIN nodes :
                                \E i \in DOMAIN nodes[n].children : nodes[n].children[i] = Head(found)].children
         IN SubSeq(siblings, CHOOSE i \in DOMAIN siblings : siblings[i] = Head(found), Len(siblings))

create_tree ==
    /\ parse
    /\ idle' = IF pos' # pos THEN 0 ELSE idle + 1
    /\ UNCHANGED <<cssVars, page, layout, display_items>>

create_style ==
    /\ pc = "style" /\ pc' = "css"
    /\ parse_stylesheet(style_content)
    /\ UNCHANGED <<input, tokenizerVars, token, parserVars, page, layout, display_items, idle>>

create_sheet ==
    /\ pc = "css" /\ parse_rules
    /\ pc' = CASE where' = "panic" -> "panic" [] where' = "done" -> "layout" [] OTHER -> "css"
    /\ UNCHANGED <<input, tokenizerVars, token, parserVars, page, layout, display_items, idle>>

set_layout_view ==
    /\ pc = "layout" /\ pc' = "paint"
    /\ layout' = layout_view(nodes, body_root, rules)
    /\ UNCHANGED <<input, tokenizerVars, token, parserVars, cssVars, page, display_items, idle>>

paint_tree ==
    /\ pc = "paint" /\ pc' = "shown"
    /\ display_items' = paint_node(nodes, layout)
    /\ UNCHANGED <<input, tokenizerVars, token, parserVars, cssVars, page, layout, idle>>

receive_response == create_tree \/ create_style \/ create_sheet \/ set_layout_view \/ paint_tree

----------------------------------------------------------------------------
(* token.rs, parser.rs, on any input: there is an attribute to append to   *)
(* (the asserts of append_attribute), the open elements hang in each other *)
(* and in the tree, the body is in html (the assert for </html>), and a    *)
(* character is read after few turns: the loops end.                       *)
AttributeStates ==
    {"AttributeName", "BeforeAttributeValue", "AttributeValueDoubleQuoted",
     "AttributeValueSingleQuoted", "AttributeValueUnquoted", "AfterAttributeValueQuoted"}

(* One turn for each insertion mode.                                       *)
MaxIdle == 9

ParserSound ==
    /\ pos <= Len(input)
    /\ state \in AttributeStates => latest_token.ty = "StartTag" /\ latest_token.attributes # << >>
    /\ state \in {"TagName", "SelfClosingStartTag"} => latest_token # NoToken
    /\ \A i \in 1 .. top :
          LET above == IF i = 1 THEN 1 ELSE stack_of_open_elements[i - 1] IN
          \E j \in DOMAIN nodes[above].children : nodes[above].children[j] = stack_of_open_elements[i]
    /\ \A i \in 1 .. top : kind_at(i) = "body" => i > 1 /\ kind_at(i - 1) = "html"
    /\ idle <= MaxIdle

(* parser.rs, cssom.rs: a page in which an element holds one text or       *)
(* elements does not stop the browser, its body becomes the tree that was  *)
(* written, its title and its style sheet are found, and the rules are the *)
(* ones that were written, whatever the form.                              *)
RECURSIVE Tree(_)
Tree(n) ==
    [kind |-> nodes[n].kind, data |-> nodes[n].data,
     children |-> [i \in DOMAIN nodes[n].children |-> Tree(nodes[n].children[i])]]

ParsedAsWritten ==
    page # NoPage =>
        /\ pc # "panic"
        /\ pc = "layout" =>
              /\ Len(body_root) = 1
              /\ Tree(body_root[1]).children = page.body
              /\ title_content = page.title
              /\ rules = page.sheet

(* layout_view.rs: what no style hides, itself or above it, is laid out    *)
(* once and in the order of the page.                                      *)
RECURSIVE Laid(_)
Laid(objects) ==
    IF objects = << >> THEN << >>
    ELSE <<Head(objects).node>> \o Laid(Head(objects).children) \o Laid(Tail(objects))

Hidden(n) == computed_style(nodes[n], NoStyle, rules).display = "none"

Shown == SelectSeq(preorder(body_root),
                   LAMBDA n : \A m \in DOMAIN nodes :
                                (\E i \in DOMAIN preorder(<<m>>) : preorder(<<m>>)[i] = n)
                                    /\ (\E i \in DOMAIN preorder(body_root) : preorder(body_root)[i] = m)
                                => ~Hidden(m))

(* layout_object.rs: blocks side by side lie one under the other without a *)
(* gap, and fill the block they are in.                                    *)
RECURSIVE Stacked(_)
Stacked(object) ==
    LET kids == object.children IN
    /\ (object.kind = "Block" /\ \A i \in DOMAIN kids : kids[i].kind = "Block") =>
          /\ \A i \in DOMAIN kids :
                /\ kids[i].point.x = object.point.x /\ kids[i].size.width = object.size.width
                /\ kids[i].point.y = object.point.y + Total(Heights(SubSeq(kids, 1, i - 1)))
          /\ object.size.height = Total(Heights(kids))
    /\ \A i \in DOMAIN kids : Stacked(kids[i])

(* split_text: no line is wider than the window, the words are all there,  *)
(* and one is broken only in a line that has no other.                     *)
Letter(s) == SelectSeq(s, LAMBDA ch : ch \notin Blank)

LinesOf(n) == SelectSeq(display_items, LAMBDA d : d.ty = "Text" /\ d.node = n)

EndsInWord(text, lines, i) ==
    LET letters == Len(Letter(Concat([j \in 1 .. i |-> lines[j].text]))) IN
    \E p \in 1 .. Len(text) - 1 :
        text[p] # " " /\ text[p + 1] # " " /\ Len(Letter(SubSeq(text, 1, p))) = letters

LinesExact ==
    \A n \in DOMAIN nodes :
        LET lines == LinesOf(n) IN
        lines # << >> =>
            /\ Concat([i \in DOMAIN lines |-> Letter(lines[i].text)]) = Letter(nodes[n].data)
            /\ \A i \in DOMAIN lines :
                  /\ lines[i].text # << >>
                  /\ CHAR_WIDTH * ratio(lines[i].style) * Len(lines[i].text) <= WINDOW_WIDTH + WINDOW_PADDING
                  /\ EndsInWord(plain_text(nodes[n].data), lines, i) => Letter(lines[i].text) = lines[i].text
                  /\ \A j \in DOMAIN lines : i < j => lines[i].point.y < lines[j].point.y

ShownAsWritten ==
    pc = "shown" =>
        /\ Laid(layout) = Shown
        /\ \A i \in DOMAIN layout : Stacked(layout[i])
        /\ LinesExact
============================================================================
