---------------------------- MODULE MCMemory --------------------------------
(* Memory and programs for TLC: the allocators (FrameBitmap, Heap and the  *)
(* C library's Malloc), the address spaces (Paging), the loading of        *)
(* programs (Elf) and the browser (Page).  A run explores one of them at a *)
(* time, while the others rest in an initial state.                        *)
EXTENDS FrameBitmap, SequencesExt

CONSTANTS
    Top, Sizes, Aligns,                             \* Heap
    FANOUT, LEVELS, NFrames, Tasks, SbrkLens,       \* Paging
    ELF_PAGE_SIZE, Files, Entries,                  \* Elf
    MALLOC_PAGE_SIZE, ALIGN, HEADER, MallocLens, MaxSbrk, MaxLive,          \* Malloc
    WINDOW_WIDTH, WINDOW_PADDING, CHAR_WIDTH, CHAR_HEIGHT_WITH_PADDING      \* Page

VARIABLES
    part,
    holes, used, blocks,
    table, frames_used, task, current, unmapped, halted,
    pc, elf, args, loaded, memory, rip, args_frame,
    heap, live,
    input, pos, state, reconsume, latest_token, token, mode, original_insertion_mode,
    stack_of_open_elements, nodes, stage, css, css_at, where, rule, dropped, rules,
    page, layout, display_items, idle

heapVars == <<holes, used, blocks>>
pagingVars == <<table, frames_used, task, current, unmapped, halted>>
elfVars == <<pc, elf, args, loaded, memory, rip, args_frame>>

mallocVars == <<heap, live>>
browserVars ==
    <<input, pos, state, reconsume, latest_token, token, mode, original_insertion_mode,
      stack_of_open_elements, nodes, stage, css, css_at, where, rule, dropped, rules,
      page, layout, display_items, idle>>

H == INSTANCE Heap

(* Programs above the frames: one small, one of two segments that need     *)
(* tables the kernel's address space does not have.                        *)
MCPrograms == {<<[page |-> 24, len |-> 1]>>, <<[page |-> 22, len |-> 2], [page |-> 24, len |-> 1]>>}

G == INSTANCE Paging WITH used <- frames_used, Lens <- SbrkLens, Programs <- MCPrograms

(* Segments that begin within a page and go on into the next, that have no *)
(* bytes in the file, that share a page with another one, and a note.      *)
MCSegments ==
    {s \in [ty : {1, 4}, offset : {1}, virt : {30, 64}, file : {0, 3}, mem : {3, 5}] :
        s.ty = 4 => s.virt = 30 /\ s.mem = 3}
MCArguments == {<<<<1>>>>, <<<<1, 2>>, << >>, <<3>>>>}

E == INSTANCE Elf WITH PAGE_SIZE <- ELF_PAGE_SIZE, Segments <- MCSegments, Arguments <- MCArguments

M == INSTANCE Malloc WITH PAGE_SIZE <- MALLOC_PAGE_SIZE, Lens <- MallocLens

----------------------------------------------------------------------------
(* Pages and other inputs of the browser.                                  *)
PageUpper == [P |-> "p", BODY |-> "body"]
PageColors == [white |-> "ffffff", black |-> "000000", red |-> "ff0000"]
PageWords ==
    {"media", "print", "color", "display", "background-color", "red", "none", "block",
     "inline", "hover", "title", "style", "body"}
PageCssLetters == PageWords \cup {"p", "a", "h1", "k", "ff0000", "mauve"}
PageLetters ==
    {"html", "head", "title", "style", "script", "body", "div", "p", "h1", "h2", "a",
     "P", "BODY", "x", "y", "class", "id"}

(* A word, and a text with words that fit, that do not fit behind another  *)
(* one, and that fit on no line.                                           *)
Word == <<"x">>
Prose == <<"x", "y", " ", "x", "\n", " ", "x", "x", "x", "x", "x">>

TextOf(s) == [kind |-> "Text", data |-> s, children |-> << >>]
Element(k, attributes, children) == [kind |-> k, data |-> attributes, children |-> children]
Attribute(n, v) == <<[name |-> <<n>>, value |-> <<v>>]>>

Leaves ==
    {Element("p", << >>, <<TextOf(Word)>>),
     Element("p", Attribute("class", "k"), <<TextOf(Prose)>>),
     Element("h1", << >>, <<TextOf(Prose)>>),
     Element("a", Attribute("id", "k"), <<TextOf(Word)>>)}

Elements ==
    Leaves
        \cup {Element("div", << >>, <<l, Element("p", << >>, <<TextOf(Word)>>)>>) : l \in Leaves}
        \cup {Element("p", << >>, <<Element("p", Attribute("class", "k"), << >>), l>>) : l \in Leaves}

Bodies ==
    {<<e>> : e \in Elements} \cup
    {<<e, f>> : e, f \in Leaves}

Ident(v) == [ty |-> "Ident", v |-> <<v>>]
Hash(v) == [ty |-> "HashToken", v |-> <<"#", v>>]
Declaration(p, v) == [property |-> <<p>>, value |-> v]
Rule(ty, n, ds) == [selector |-> [ty |-> ty, name |-> <<n>>], declarations |-> ds]

Sheets ==
    {<< >>,
     <<Rule("TypeSelector", "p", <<Declaration("display", Ident("none"))>>)>>,
     <<Rule("ClassSelector", "k", <<Declaration("display", Ident("none")), Declaration("color", Hash("ff0000"))>>),
       Rule("TypeSelector", "a", <<Declaration("display", Ident("block"))>>)>>,
     <<Rule("IdSelector", "k", <<Declaration("background-color", Ident("red"))>>),
       Rule("TypeSelector", "body",
            <<Declaration("background-color", Hash("mauve")), Declaration("display", Ident("inline"))>>)>>}

WrittenPages == {[title |-> <<"x">>, sheet |-> s, body |-> b] : s \in Sheets, b \in Bodies}

WrittenForms ==
    {[quote |-> <<"\"">>, gap |-> << >>, bare |-> FALSE, loud |-> FALSE, style_first |-> TRUE, fancy |-> FALSE],
     [quote |-> <<"'">>, gap |-> <<" ">>, bare |-> FALSE, loud |-> TRUE, style_first |-> FALSE, fancy |-> TRUE],
     [quote |-> << >>, gap |-> <<"\n">>, bare |-> TRUE, loud |-> FALSE, style_first |-> FALSE, fancy |-> FALSE]}

(* Tags in any order, behind the tag of the body.                          *)
Opening(t) == <<"<", t, ">">>
Closing(t) == <<"<", "/", t, ">">>

Pieces ==
    {<< >>, <<"x">>, Opening("p"), Closing("p"), Closing("body"), Closing("html"), Opening("x"),
     Opening("style"), Closing("style"), Closing("head")}

(* Tags that are cut short or spaced in odd ways.                          *)
OddTags ==
    {<<"<", " ", "x">>, <<"<", "/", " ", "p", ">">>, <<"<", "p", "/", ">">>, <<"<", "p", "/", " ", ">">>,
     <<"<", "/", "p", "/", ">">>, <<"<", "/", "p", " ", "x", ">">>, <<"<", "p">>, <<"<">>,
     <<"<", "p", " ", ">">>, <<"<", "p", " ", "x", " ", "y", ">">>, <<"<", "p", " ", "x", "/", ">">>,
     <<"<", "p", " ", "x", " ", " ", "=", " ", "y", " ", ">">>, <<"<", "p", " ", "x", " ", "/", ">">>,
     <<"<", "p", " ", "x", "=", "'", "y", "'", "x", ">">>, <<"<", "p", " ", "x", "=", "'", "y", "'", "/", ">">>,
     <<"<", "p", " ", "x", "=", "\"", "y", "\"", " ", "x", ">">>, <<"<", "p", " ", "x", "=", "y", " ", "x", ">">>}

(* Style sheets that are not as they should be.                            *)
OddSheets ==
    {<<",">>, <<"@">>, <<"@", " ">>, <<"@", "media", " ">>, <<"p">>, <<"p", " ">>, <<"p", "k", " ">>,
     <<".", "{">>, <<".", "p", " ">>, <<"p", ":", " ">>, <<"p", "{", "color", " ">>, <<"p", "{", "color", ":">>,
     <<"p", "{", "color", ":", "'", "k", "'", "}">>, <<"p", "{", "color", "%">>, <<"p", "{", "color", "}">>,
     <<"p", "{", "1", ".", "1", "}">>, <<"1", "{">>, <<"1", "%">>, <<"p", "%">>, <<"'", "k">>, <<"{", "}">>,
     <<"p", "{", "(", ")", ";", "}">>, <<"@", "p", " ", "{", "}">>}

OtherInputs ==
    {Opening("body") \o a \o b \o c : a, b \in Pieces, c \in {<< >>, <<"x">>, Opening("p"), Closing("html")}}
        \cup {<<"\n">> \o t : t \in OddTags}
        \cup {Opening("style") \o s \o Closing("style") : s \in OddSheets}
        \cup {Opening("title") \o <<"x">> \o Closing("style"),
              Opening("body") \o Opening("h1") \o Closing("h1") \o Closing("html") \o Opening("p"),
              Opening("html") \o <<" ", "x">>, Opening("head") \o <<" ">> \o Closing("p") \o Closing("head") \o <<" ">>}

P == INSTANCE Page WITH
        pc <- stage, at <- css_at,
        Letters <- PageLetters, Upper <- PageUpper, CssLetters <- PageCssLetters,
        Words <- PageWords, Digits <- {"1"}, ColorCode <- PageColors,
        Pages <- WrittenPages, Forms <- WrittenForms, Strings <- OtherInputs

ASSUME H!HeapAssumption /\ G!PagingAssumption /\ M!MallocAssumption /\ P!PageAssumption

Desc(s, c, a) == [start |-> s, cnt |-> c, available |-> a]

(* Maps with a reserved hole, with memory at address 0, with a first area  *)
(* too small for the bitmap, and with one that the bitmap is put in        *)
(* although its last byte lies behind it.                                  *)
Maps == {<<Desc(1, 9, TRUE)>>,
         <<Desc(0, 1, TRUE), Desc(1, 6, TRUE), Desc(7, 1, FALSE), Desc(8, 4, TRUE)>>,
         <<Desc(0, 2, FALSE), Desc(2, 1, TRUE), Desc(4, 7, TRUE)>>,
         <<Desc(1, 1, TRUE), Desc(2, 7, TRUE)>>}

----------------------------------------------------------------------------
scan_frame_NoReset(at, n, len) ==
    IF at.done \/ n = 0 \/ n \in allocated THEN at
    ELSE [start |-> IF at.count = 0 THEN n ELSE at.start,
          count |-> at.count + 1,
          done |-> at.count + 1 = len]

(* The search of alloc_multi_mem_frame, turn by turn: the run found so far *)
(* and whether the search is over.                                         *)
scan_frame(at, n, len) ==
    IF at.done \/ n = 0 THEN at
    ELSE IF len = BITMAP_SIZE /\ len # 1 /\ n >= BITMAP_SIZE /\ n % BITMAP_SIZE = 0
                /\ n .. n + BITMAP_SIZE - 1 \subseteq AllBits(mem_map) \ allocated
         THEN [start |-> n, count |-> len, done |-> TRUE]
    ELSE IF n \in allocated THEN [start |-> 0, count |-> 0, done |-> FALSE]
    ELSE [start |-> IF at.count = 0 THEN n ELSE at.start,
          count |-> at.count + 1,
          done |-> at.count + 1 = len]

scan(len) ==
    FoldLeft(LAMBDA at, n : scan_frame(at, n, len), [start |-> 0, count |-> 0, done |-> FALSE],
             [i \in 1 .. Cardinality(AllBits(mem_map)) |-> i - 1])

(* The search finds a run exactly when there is one, and the one that      *)
(* start_frame_index describes, also when free_frame_len rules it out.     *)
ScanFindsRun ==
    \A len \in Lens \ {0} :
        /\ scan(len).done <=> FreeRuns(len) # {}
        /\ scan(len).done => len <= free_frame_len
        /\ \A s \in FreeRuns(len) : start_frame_index(s, len) <=> s = scan(len).start
----------------------------------------------------------------------------
MCInit ==
    /\ part \in {"frames", "heap", "spaces", "program", "malloc", "page"}
    /\ BitmapInit /\ H!Init /\ G!Init /\ E!Init /\ M!Init
    /\ part # "frames" => mem_map = <<Desc(1, 9, TRUE)>>
    /\ IF part = "page" THEN P!PageInit ELSE P!Rest

MCNext ==
    \/ /\ part = "frames" /\ BitmapNext
       /\ UNCHANGED <<heapVars, pagingVars, elfVars, mallocVars, browserVars, part>>
    \/ /\ part = "heap" /\ H!Next
       /\ UNCHANGED <<bitmapVars, pagingVars, elfVars, mallocVars, browserVars, part>>
    \/ /\ part = "spaces" /\ G!Next
       /\ UNCHANGED <<bitmapVars, heapVars, elfVars, mallocVars, browserVars, part>>
    \/ /\ part = "program" /\ E!Next
       /\ UNCHANGED <<bitmapVars, heapVars, pagingVars, mallocVars, browserVars, part>>
    \/ /\ part = "malloc" /\ M!Next
       /\ UNCHANGED <<bitmapVars, heapVars, pagingVars, elfVars, browserVars, part>>
    \/ /\ part = "page" /\ P!receive_response
       /\ UNCHANGED <<bitmapVars, heapVars, pagingVars, elfVars, mallocVars, part>>

MCSpec ==
    MCInit /\ [][MCNext]_<<bitmapVars, heapVars, pagingVars, elfVars, mallocVars, browserVars, part>>

(* The allocators find room whenever there is some.  bitmap.rs: the        *)
(* counters agree with the bits after every allocation and deallocation,   *)
(* and the search for a run of free frames misses none.  allocator.rs:     *)
(* alloc and dealloc keep holes and blocks a partition of the heap, no two *)
(* holes lie side by side, and alloc_first_fit misses none that fits.      *)
(* stdlib.c: every byte from sbrk is in one block, free or not, and what a *)
(* program wrote stays through malloc, free and realloc of other pointers. *)
AllocatorsSound ==
    /\ part = "frames" => CountersExact /\ ScanFindsRun
    /\ part = "heap" => H!TypeOK /\ H!Partition /\ H!Coalesced /\ H!SearchIsComplete
    /\ part = "malloc" => M!BlocksPartition /\ M!DataKept

(* paging.rs: what user mode reaches is the task's own memory, the tables  *)
(* of the kernel stay as they were, and the kernel reaches every frame     *)
(* that the running task has not freed.  task/mod.rs: a task's frames and  *)
(* tables are nobody else's, and all come back when the task is dropped.   *)
SpacesApart == part = "spaces" => G!SpacesApart /\ G!KernelReaches /\ G!FramesAccounted

(* task/mod.rs, elf.rs: a program that runs has its segments at their      *)
(* addresses, its entry point, and its arguments behind their pointers.    *)
ProgramInPlace == part = "program" => E!LoadedAsLinked /\ E!ArgumentsInPlace


=============================================================================
