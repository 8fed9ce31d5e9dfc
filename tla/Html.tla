------------------------------- MODULE Html -------------------------------
(***************************************************************************)
(* The browser's HTML (apps/web/src/renderer/html and dom): the tokenizer, *)
(* a character at a time, and the parser that asks it for tokens and makes *)
(* the tree.                                                               *)
(*                                                                         *)
(* A letter stands for a whole word where a name is meant: "body" is one   *)
(* letter of a tag's name.  first_child and next_sibling are kept as the   *)
(* sequence of a node's children; parent, last_child and previous_sibling  *)
(* are written and never read, and so is self_closing.                     *)
(*                                                                         *)
(* Two things of token.rs cannot happen and are left out.  Nothing enters  *)
(* State::ScriptData, so that its states are never used.  is_eof asks for  *)
(* a position behind the length, which pos does not get to, so that no Eof *)
(* is returned: where a tag ends too early, consume_next_input indexes     *)
(* behind the input, which stops the browser.                              *)
(***************************************************************************)
EXTENDS Integers, Sequences

CONSTANTS
    Letters,        \* is_ascii_alphabetic
    Upper           \* a function: the upper case letters and their lower case

VARIABLES
    input,
    pos, state, reconsume, latest_token,    \* HtmlTokenizer
    token,                                  \* of construct_tree; Pending: next is running
    mode, original_insertion_mode, stack_of_open_elements,
    nodes,                                  \* the tree; nodes[1] is the document
    pc

tokenizerVars == <<pos, state, reconsume, latest_token>>
parserVars == <<mode, original_insertion_mode, stack_of_open_elements, nodes>>
vars == <<input, tokenizerVars, token, parserVars, pc>>

ElementKinds == {"html", "head", "title", "style", "script", "body", "div", "p", "h1", "h2", "a"}
Blank == {" ", "\n"}

Pending == [ty |-> "Pending"]
NoToken == [ty |-> "None"]
StartTag == [ty |-> "StartTag", tag |-> << >>, attributes |-> << >>]
EndTag == [ty |-> "EndTag", tag |-> << >>]
Char(ch) == [ty |-> "Char", c |-> ch]
Node(k, d) == [kind |-> k, data |-> d, children |-> << >>]

(* HtmlTokenizer::new, HtmlParser::new                                     *)
InitWith(html) ==
    /\ input = html
    /\ pos = 0 /\ state = "Data" /\ reconsume = FALSE /\ latest_token = NoToken
    /\ token = Pending
    /\ mode = "Initial" /\ original_insertion_mode = "Initial"
    /\ stack_of_open_elements = << >>
    /\ nodes = <<Node("Document", << >>)>>
    /\ pc = "parse"

----------------------------------------------------------------------------
(* HtmlTokenizer::next, one turn of its loop per step.                     *)

(* reconsume_input and consume_next_input; positions count from 1 here.    *)
c == input[IF reconsume THEN pos ELSE pos + 1]

reads(s) ==
    /\ pc = "parse" /\ token = Pending /\ state = s
    /\ reconsume \/ pos < Len(input)
    /\ pos' = IF reconsume THEN pos ELSE pos + 1
    /\ UNCHANGED <<input, parserVars>>

turn(s, again, latest) ==
    /\ state' = s /\ reconsume' = again /\ latest_token' = latest
    /\ UNCHANGED <<token, pc>>

to(s) == turn(s, FALSE, latest_token)
again(s) == turn(s, TRUE, latest_token)

returns(t) ==
    /\ state' = "Data" /\ reconsume' = FALSE /\ latest_token' = NoToken /\ token' = t
    /\ UNCHANGED pc

take_latest_token == returns(latest_token)

panics == pc' = "panic" /\ UNCHANGED <<state, reconsume, latest_token, token>>

to_ascii_lowercase(ch) == IF ch \in DOMAIN Upper THEN Upper[ch] ELSE ch

append_tag_name(ch) == [latest_token EXCEPT !.tag = Append(@, to_ascii_lowercase(ch))]

append_attribute(ch, is_name) ==
    LET last == Len(latest_token.attributes) IN
    IF is_name
    THEN [latest_token EXCEPT !.attributes[last].name = Append(@, to_ascii_lowercase(ch))]
    ELSE [latest_token EXCEPT !.attributes[last].value = Append(@, ch)]

(* An end tag with attributes stops the browser.                           *)
start_new_attribute ==
    IF latest_token.ty = "StartTag"
    THEN turn("AttributeName", TRUE,
              [latest_token EXCEPT !.attributes = Append(@, [name |-> << >>, value |-> << >>])])
    ELSE panics

(* next at the end of the input, and in the middle of a tag there.         *)
end_of_input ==
    /\ pc = "parse" /\ token = Pending /\ ~reconsume /\ pos = Len(input)
    /\ IF state = "Data"
       THEN token' = NoToken /\ UNCHANGED <<state, reconsume, latest_token, pc>>
       ELSE panics
    /\ UNCHANGED <<input, pos, parserVars>>

Data ==
    /\ reads("Data")
    /\ \/ c = "<" /\ to("TagOpen")
       \/ c # "<" /\ returns(Char(c))

TagOpen ==
    /\ reads("TagOpen")
    /\ \/ c = "/" /\ to("EndTagOpen")
       \/ c \in Letters /\ turn("TagName", TRUE, StartTag)
       \/ c \notin Letters \cup {"/"} /\ again("Data")

EndTagOpen ==
    /\ reads("EndTagOpen")
    /\ \/ c \in Letters /\ turn("TagName", TRUE, EndTag)
       \/ c \notin Letters /\ to("EndTagOpen")

TagName ==
    /\ reads("TagName")
    /\ \/ c = " " /\ to("BeforeAttributeName")
       \/ c = "/" /\ to("SelfClosingStartTag")
       \/ c = ">" /\ take_latest_token
       \/ c \notin {" ", "/", ">"} /\ turn("TagName", FALSE, append_tag_name(c))

BeforeAttributeName ==
    /\ reads("BeforeAttributeName")
    /\ \/ c \in {"/", ">"} /\ again("AfterAttributeName")
       \/ c \notin {"/", ">"} /\ start_new_attribute

AttributeName ==
    /\ reads("AttributeName")
    /\ \/ c \in {" ", "/", ">"} /\ again("AfterAttributeName")
       \/ c = "=" /\ to("BeforeAttributeValue")
       \/ c \notin {" ", "/", ">", "="} /\ turn("AttributeName", FALSE, append_attribute(c, TRUE))

AfterAttributeName ==
    /\ reads("AfterAttributeName")
    /\ \/ c = " " /\ to("AfterAttributeName")
       \/ c = "/" /\ to("SelfClosingStartTag")
       \/ c = "=" /\ to("BeforeAttributeValue")
       \/ c = ">" /\ take_latest_token
       \/ c \notin {" ", "/", "=", ">"} /\ start_new_attribute

BeforeAttributeValue ==
    /\ reads("BeforeAttributeValue")
    /\ \/ c = " " /\ to("BeforeAttributeValue")
       \/ c = "\"" /\ to("AttributeValueDoubleQuoted")
       \/ c = "'" /\ to("AttributeValueSingleQuoted")
       \/ c \notin {" ", "\"", "'"} /\ again("AttributeValueUnquoted")

AttributeValueQuoted(s, quote) ==
    /\ reads(s)
    /\ \/ c = quote /\ to("AfterAttributeValueQuoted")
       \/ c # quote /\ turn(s, FALSE, append_attribute(c, FALSE))

AttributeValueUnquoted ==
    /\ reads("AttributeValueUnquoted")
    /\ \/ c = " " /\ to("BeforeAttributeName")
       \/ c = ">" /\ take_latest_token
       \/ c \notin {" ", ">"} /\ turn("AttributeValueUnquoted", FALSE, append_attribute(c, FALSE))

AfterAttributeValueQuoted ==
    /\ reads("AfterAttributeValueQuoted")
    /\ \/ c = " " /\ to("BeforeAttributeName")
       \/ c = "/" /\ to("SelfClosingStartTag")
       \/ c = ">" /\ take_latest_token
       \/ c \notin {" ", "/", ">"} /\ again("BeforeAttributeValue")

(* set_self_closing_flag: not on an end tag.                               *)
SelfClosingStartTag ==
    /\ reads("SelfClosingStartTag")
    /\ \/ c = ">" /\ IF latest_token.ty = "StartTag" THEN take_latest_token ELSE panics
       \/ c # ">" /\ to("SelfClosingStartTag")

tokenize ==
    \/ end_of_input \/ Data \/ TagOpen \/ EndTagOpen \/ TagName
    \/ BeforeAttributeName \/ AttributeName \/ AfterAttributeName \/ BeforeAttributeValue
    \/ AttributeValueQuoted("AttributeValueDoubleQuoted", "\"")
    \/ AttributeValueQuoted("AttributeValueSingleQuoted", "'")
    \/ AttributeValueUnquoted \/ AfterAttributeValueQuoted \/ SelfClosingStartTag

----------------------------------------------------------------------------
(* HtmlParser::construct_tree, one turn of its loop per step.              *)

takes(m) ==
    /\ pc = "parse" /\ token \notin {Pending, NoToken} /\ mode = m
    /\ UNCHANGED <<input, tokenizerVars>>

next == token' = Pending
keeps_token == UNCHANGED token

enters(m) == mode' = m /\ UNCHANGED original_insertion_mode
stays == UNCHANGED <<mode, original_insertion_mode>>
same_tree == UNCHANGED <<nodes, stack_of_open_elements, pc>>

Starts(tags) == token.ty = "StartTag" /\ token.tag \in {<<t>> : t \in tags}
Ends(tags) == token.ty = "EndTag" /\ token.tag \in {<<t>> : t \in tags}
IsBlank == token.ty = "Char" /\ token.c \in Blank

top == Len(stack_of_open_elements)
current == IF top = 0 THEN 1 ELSE stack_of_open_elements[top]
kind_at(i) == nodes[stack_of_open_elements[i]].kind

hangs_in(siblings, node) ==
    /\ nodes' = Append([nodes EXCEPT ![current].children = siblings], node)
    /\ stack_of_open_elements' = Append(stack_of_open_elements, Len(nodes) + 1)
    /\ UNCHANGED pc

(* Behind the last sibling.                                                *)
insert_element(tag, attributes) ==
    hangs_in(Append(nodes[current].children, Len(nodes) + 1), Node(tag, attributes))

(* A text that begins is put behind the first child, in the place of all   *)
(* others.                                                                 *)
insert_char(ch) ==
    IF top = 0 \/ (nodes[current].kind # "Text" /\ ch \in Blank) THEN same_tree
    ELSE IF nodes[current].kind = "Text"
    THEN nodes' = [nodes EXCEPT ![current].data = Append(@, ch)]
         /\ UNCHANGED <<stack_of_open_elements, pc>>
    ELSE hangs_in(SelectSeq(nodes[current].children, LAMBDA n : n = Head(nodes[current].children))
                    \o <<Len(nodes) + 1>>, Node("Text", <<ch>>))

contain_in_stack(kind) == \E i \in 1 .. top : kind_at(i) = kind

pop_until_Keeps(kind) ==
    /\ \E i \in 1 .. top :
          /\ kind_at(i) = kind
          /\ \A j \in i + 1 .. top : kind_at(j) # kind
          /\ stack_of_open_elements' = SubSeq(stack_of_open_elements, 1, i)
    /\ UNCHANGED <<nodes, pc>>

pop_until(kind) ==
    /\ IF contain_in_stack(kind)
       THEN \E i \in 1 .. top :
                /\ kind_at(i) = kind
                /\ \A j \in i + 1 .. top : kind_at(j) # kind
                /\ stack_of_open_elements' = SubSeq(stack_of_open_elements, 1, i - 1)
                /\ UNCHANGED pc
       ELSE pc' = "panic" /\ UNCHANGED stack_of_open_elements
    /\ UNCHANGED nodes

Initial ==
    /\ takes("Initial") /\ same_tree
    /\ \/ token.ty = "Char" /\ next /\ stays
       \/ token.ty # "Char" /\ keeps_token /\ enters("BeforeHtml")

(* The modes that wait for a tag, and put it there when it does not come.  *)
waits_for(m, tag, m2) ==
    /\ takes(m)
    /\ \/ IsBlank /\ next /\ stays /\ IF m = "AfterHead" THEN insert_char(token.c) ELSE same_tree
       \/ Starts({tag}) /\ next /\ enters(m2) /\ insert_element(tag, token.attributes)
       \/ ~IsBlank /\ ~Starts({tag}) /\ keeps_token /\ enters(m2) /\ insert_element(tag, << >>)

BeforeHtml == waits_for("BeforeHtml", "html", "BeforeHead")
BeforeHead == waits_for("BeforeHead", "head", "InHead")
AfterHead == waits_for("AfterHead", "body", "InBody")

RawText == {"title", "style", "script"}

InHead ==
    /\ takes("InHead")
    /\ \/ IsBlank /\ insert_char(token.c) /\ next /\ stays
       \/ /\ Starts(RawText)
          /\ insert_element(token.tag[1], token.attributes)
          /\ original_insertion_mode' = mode /\ mode' = "Text" /\ next
       \/ Starts(ElementKinds \ RawText) /\ pop_until("head") /\ enters("AfterHead") /\ keeps_token
       \/ Ends({"head"}) /\ pop_until("head") /\ enters("AfterHead") /\ next
       \/ /\ ~IsBlank /\ ~Starts(ElementKinds) /\ ~Ends({"head"})
          /\ same_tree /\ next /\ stays

Flow == {"p", "h1", "h2", "div", "a"}

InBody ==
    /\ takes("InBody")
    /\ \/ Starts(Flow) /\ insert_element(token.tag[1], token.attributes) /\ next /\ stays
       \/ /\ Ends({"body"}) /\ next /\ enters("AfterBody")
          /\ IF contain_in_stack("body") THEN pop_until("body") ELSE same_tree
       \/ /\ Ends({"html"}) /\ top > 0 /\ kind_at(top) = "body"
          /\ keeps_token /\ enters("AfterBody") /\ UNCHANGED nodes
          /\ stack_of_open_elements' = SubSeq(stack_of_open_elements, 1, top - 2)
          /\ pc' = IF top > 1 /\ kind_at(top - 1) = "html" THEN pc ELSE "panic"
       \/ Ends({"html"}) /\ ~(top > 0 /\ kind_at(top) = "body") /\ same_tree /\ next /\ stays
       \/ Ends(Flow) /\ pop_until(token.tag[1]) /\ next /\ stays
       \/ token.ty = "Char" /\ insert_char(token.c) /\ next /\ stays
       \/ /\ token.ty # "Char" /\ ~Starts(Flow) /\ ~Ends(Flow \cup {"body", "html"})
          /\ same_tree /\ next /\ stays

Text ==
    /\ takes("Text")
    /\ \/ /\ Ends({"style", "script"}) /\ pop_until(token.tag[1])
          /\ enters(original_insertion_mode) /\ next
       \/ token.ty = "Char" /\ insert_char(token.c) /\ next /\ stays
       \/ /\ token.ty # "Char" /\ ~Ends({"style", "script"})
          /\ same_tree /\ enters(original_insertion_mode) /\ keeps_token


AfterBody ==
    /\ takes("AfterBody") /\ same_tree
    /\ \/ token.ty = "Char" /\ next /\ stays
       \/ Ends({"html"}) /\ next /\ enters("AfterAfterBody")
       \/ token.ty # "Char" /\ ~Ends({"html"}) /\ keeps_token /\ enters("InBody")

AfterAfterBody ==
    /\ takes("AfterAfterBody") /\ same_tree
    /\ \/ token.ty = "Char" /\ next /\ stays
       \/ token.ty # "Char" /\ keeps_token /\ enters("InBody")

construct_tree ==
    \/ Initial \/ BeforeHtml \/ BeforeHead \/ InHead \/ AfterHead
    \/ InBody \/ Text \/ AfterBody \/ AfterAfterBody

(* The loop of construct_tree ends: create_frame goes on.                  *)
tree_done ==
    /\ pc = "parse" /\ token = NoToken
    /\ pc' = "style"
    /\ UNCHANGED <<input, tokenizerVars, token, parserVars>>

parse == tokenize \/ construct_tree \/ tree_done
============================================================================
