------------------------------- MODULE Layout -------------------------------
(***************************************************************************)
(* The layout of a page (apps/web/src/renderer/layout): styles, the layout *)
(* tree, sizes, positions and what is painted, as functions of the tree of *)
(* nodes and the rules of the style sheet.                                 *)
(*                                                                         *)
(* The characters of a text are single letters, of one byte each.  The     *)
(* styles' height and width are never read.                                *)
(***************************************************************************)
EXTENDS Integers, Sequences, SequencesExt

CONSTANTS
    WINDOW_WIDTH, WINDOW_PADDING, CHAR_WIDTH, CHAR_HEIGHT_WITH_PADDING,
    ColorCode       \* a function: the names of colours and their codes

CONTENT_AREA_WIDTH == WINDOW_WIDTH - WINDOW_PADDING * 2

----------------------------------------------------------------------------
(* Styles                                                                  *)

Unset == "unset"
NoStyle ==
    [background_color |-> Unset, color |-> Unset, display |-> Unset,
     font_size |-> Unset, text_decoration |-> Unset]

(* is_node_selected                                                        *)
HasAttribute(node, name, value) ==
    \E i \in DOMAIN node.data : node.data[i].name = <<name>> /\ node.data[i].value = value

is_node_selected(node, selector) ==
    /\ node.kind # "Text"
    /\ CASE selector.ty = "TypeSelector" -> selector.name = <<node.kind>>
         [] selector.ty = "ClassSelector" -> HasAttribute(node, "class", selector.name)
         [] selector.ty = "IdSelector" -> HasAttribute(node, "id", selector.name)
         [] OTHER -> FALSE

(* Color::from_name and from_code, as the code of the colour.              *)
color_of(value, otherwise) ==
    LET word == Last(value.v) IN
    IF value.ty = "Ident"
    THEN IF value.v = <<word>> /\ word \in DOMAIN ColorCode THEN ColorCode[word] ELSE otherwise
    ELSE IF value.v = <<"#", word>> /\ \E n \in DOMAIN ColorCode : ColorCode[n] = word THEN word
    ELSE otherwise

white == ColorCode["white"]
black == ColorCode["black"]

(* DisplayType::from_str; what it does not know hides the element.         *)
display_of(value) == IF value.v \in {<<"block">>, <<"inline">>} THEN value.v[1] ELSE "none"

declare(style, d) ==
    CASE d.property = <<"background-color">> /\ d.value.ty \in {"Ident", "HashToken"} ->
            [style EXCEPT !.background_color = color_of(d.value, white)]
      [] d.property = <<"color">> /\ d.value.ty \in {"Ident", "HashToken"} ->
            [style EXCEPT !.color = color_of(d.value, black)]
      [] d.property = <<"display">> /\ d.value.ty = "Ident" ->
            [style EXCEPT !.display = display_of(d.value)]
      [] OTHER -> style

cascading_style(style, declarations) == FoldLeft(declare, style, declarations)

is_block_element(kind) == kind \in {"body", "h1", "h2", "p"}

(* FontSize::default, DisplayType::default, TextDecoration::default        *)
default_font_size(kind) ==
    CASE kind = "h1" -> "XXLarge" [] kind = "h2" -> "XLarge" [] OTHER -> "Medium"
default_display(kind) == IF is_block_element(kind) THEN "block" ELSE "inline"
default_text_decoration(kind) == IF kind = "a" THEN "Underline" ELSE "None"

(* ComputedStyle::defaulting; parent is NoStyle where there is none.  What *)
(* is ordinary in the parent is not inherited.                             *)
inherited(own, of_parent, ordinary, initial) ==
    CASE own # Unset -> own
      [] own = Unset /\ of_parent \notin {Unset, ordinary} -> of_parent
      [] OTHER -> initial

defaulting(style, node, parent) ==
    [background_color |-> inherited(style.background_color, parent.background_color, white, white),
     color |-> inherited(style.color, parent.color, black, black),
     display |-> inherited(style.display, Unset, Unset, default_display(node.kind)),
     font_size |-> inherited(style.font_size, parent.font_size, "Medium", default_font_size(node.kind)),
     text_decoration |-> inherited(style.text_decoration, parent.text_decoration, "None",
                                   default_text_decoration(node.kind))]

(* create_layout_object, up to the kind; the object is dropped if its      *)
(* display is none.                                                        *)
computed_style(node, parent, sheet) ==
    LET cascade(style, r) ==
            IF is_node_selected(node, r.selector) THEN cascading_style(style, r.declarations) ELSE style
    IN defaulting(FoldLeft(cascade, NoStyle, sheet), node, parent)

update_kind(node, style) ==
    IF node.kind = "Text" THEN "Text" ELSE IF style.display = "block" THEN "Block" ELSE "Inline"

----------------------------------------------------------------------------
(* build_layout_tree for a node and its siblings: the hidden ones are      *)
(* passed over, the first shown one inherits from the parent, and the ones *)
(* behind it inherit from nobody.  The loops that look further find        *)
(* nothing, because the call before has passed over the hidden ones.       *)
RECURSIVE build_layout_tree(_, _, _, _)
build_layout_tree(tree, siblings, parent, sheet) ==
    IF siblings = << >> THEN << >>
    ELSE LET node == tree[Head(siblings)]
             style == computed_style(node, parent, sheet) IN
         IF style.display = "none" THEN build_layout_tree(tree, Tail(siblings), parent, sheet)
         ELSE <<[kind |-> update_kind(node, style), node |-> Head(siblings), style |-> style,
                 children |-> build_layout_tree(tree, node.children, style, sheet)]>>
              \o build_layout_tree(tree, Tail(siblings), NoStyle, sheet)

(* compute_size: a block is as wide as its parent, an inline as its        *)
(* children are, and a text is broken where the content area ends.         *)
ratio(style) == CASE style.font_size = "Medium" -> 1 [] style.font_size = "XLarge" -> 2 [] OTHER -> 3

text_size(text, style) ==
    LET width == CHAR_WIDTH * ratio(style) * Len(text)
        lines == (width + CONTENT_AREA_WIDTH - 1) \div CONTENT_AREA_WIDTH IN
    IF width > CONTENT_AREA_WIDTH
    THEN [width |-> CONTENT_AREA_WIDTH, height |-> CHAR_HEIGHT_WITH_PADDING * ratio(style) * lines]
    ELSE [width |-> width, height |-> CHAR_HEIGHT_WITH_PADDING * ratio(style)]

Heights(objects) == [i \in DOMAIN objects |-> objects[i].size.height]
Widths(objects) == [i \in DOMAIN objects |-> objects[i].size.width]
Total(numbers) == FoldLeft(LAMBDA x, y : x + y, 0, numbers)

(* Of the children of a block those count that begin a line.               *)
line_heights(objects) ==
    [i \in DOMAIN objects |->
        IF i = 1 \/ objects[i].kind = "Block" \/ objects[i - 1].kind = "Block"
        THEN objects[i].size.height ELSE 0]

(* calculate_node_size: the children see the size that their parent has    *)
(* before them, which for an inline is nothing.                            *)
RECURSIVE calculate_node_size(_, _, _)
calculate_node_size(tree, object, width) ==
    LET seen == IF object.kind = "Block" THEN width ELSE 0
        children == [i \in DOMAIN object.children |->
                        calculate_node_size(tree, object.children[i], seen)]
        size == CASE object.kind = "Block" ->
                        [width |-> width, height |-> Total(line_heights(children))]
                  [] object.kind = "Inline" ->
                        [width |-> Total(Widths(children)), height |-> Total(Heights(children))]
                  [] OTHER -> text_size(tree[object.node].data, object.style)
    IN [kind |-> object.kind, node |-> object.node, style |-> object.style,
        size |-> size, children |-> children]

compute_position_Overlaps(objects, points, i, parent) ==
    IF i = 1 THEN parent
    ELSE IF objects[i].kind = "Block" \/ objects[i - 1].kind = "Block"
    THEN [x |-> parent.x, y |-> points[i - 1].y]
    ELSE parent

(* compute_position, for the object at place i among its siblings, whose   *)
(* points are known for the ones before.                                   *)
compute_position(objects, points, i, parent) ==
    LET before == objects[i - 1]
        from == points[i - 1] IN
    IF i = 1 THEN parent
    ELSE IF objects[i].kind = "Block" \/ before.kind = "Block"
    THEN [x |-> parent.x, y |-> from.y + before.size.height]
    ELSE IF objects[i].kind = "Inline" /\ before.kind = "Inline"
    THEN [x |-> from.x + before.size.width, y |-> from.y]
    ELSE parent

RECURSIVE calculate_node_position(_, _)
calculate_node_position(objects, parent) ==
    LET points[i \in 0 .. Len(objects)] ==
            IF i = 0 THEN << >> ELSE Append(points[i - 1], compute_position(objects, points[i - 1], i, parent))
        placed == points[Len(objects)] IN
    [i \in DOMAIN objects |->
        [kind |-> objects[i].kind, node |-> objects[i].node, style |-> objects[i].style,
         size |-> objects[i].size, point |-> placed[i],
         children |-> calculate_node_position(objects[i].children, placed[i])]]

(* LayoutView::new, from the body on.                                      *)
layout_view(tree, body, sheet) ==
    LET objects == build_layout_tree(tree, body, NoStyle, sheet)
        sized == [i \in DOMAIN objects |-> calculate_node_size(tree, objects[i], CONTENT_AREA_WIDTH)]
    IN calculate_node_position(sized, [x |-> 0, y |-> 0])

----------------------------------------------------------------------------

(* split_text: a line is broken before its last blank, or where it is full *)
find_index_for_line_break(line, max_index) ==
    LET blanks == {i \in 1 .. max_index : line[i] = " "} IN
    IF blanks = {} THEN max_index ELSE (CHOOSE i \in blanks : \A j \in blanks : j <= i) - 1

trim(s) ==
    LET shown == {i \in DOMAIN s : s[i] \notin {" ", "\n"}} IN
    IF shown = {} THEN << >>
    ELSE SubSeq(s, CHOOSE i \in shown : \A j \in shown : i <= j,
                   CHOOSE i \in shown : \A j \in shown : j <= i)

RECURSIVE split_text(_, _)
split_text(line, char_width) ==
    IF Len(line) * char_width <= WINDOW_WIDTH + WINDOW_PADDING THEN <<line>>
    ELSE LET b == find_index_for_line_break(line, (WINDOW_WIDTH + WINDOW_PADDING) \div char_width) IN
         <<SubSeq(line, 1, b)>> \o split_text(trim(SubSeq(line, b + 1, Len(line))), char_width)

(* The words of a text with one blank between them.                        *)
plain_text(t) ==
    LET blanks(s) == [i \in DOMAIN s |-> IF s[i] = "\n" THEN " " ELSE s[i]]
        join(s, ch) == IF ch = " " /\ (s = << >> \/ Last(s) = " ") THEN s ELSE Append(s, ch)
    IN trim(FoldLeft(join, << >>, blanks(t)))

(* LayoutObject::paint                                                     *)
paint(tree, object) ==
    CASE object.kind = "Block" ->
            <<[ty |-> "Rect", node |-> object.node, point |-> object.point, size |-> object.size,
               style |-> object.style]>>
      [] object.kind = "Inline" -> << >>
      [] OTHER ->
            LET lines == split_text(plain_text(tree[object.node].data), CHAR_WIDTH * ratio(object.style)) IN
            [i \in DOMAIN lines |->
                [ty |-> "Text", node |-> object.node, text |-> lines[i],
                 point |-> [x |-> object.point.x, y |-> object.point.y + CHAR_HEIGHT_WITH_PADDING * (i - 1)],
                 style |-> object.style]]

RECURSIVE paint_node(_, _)
paint_node(tree, objects) ==
    IF objects = << >> THEN << >>
    ELSE paint(tree, Head(objects)) \o paint_node(tree, Head(objects).children)
            \o paint_node(tree, Tail(objects))
============================================================================
