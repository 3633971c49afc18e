-------------------------------- MODULE MCBrowse --------------------------------
(***************************************************************************)
(* The three ways the user looks through the catalog, each on an instance  *)
(* of its own: "part" says which machine a behaviour runs, the other two   *)
(* stand still.                                                            *)
(***************************************************************************)
EXTENDS CatalogView, CatalogShelves, CatalogSearch

VARIABLE part

\* The list: two games, one of them an adult one of a source that may be hidden.
MCApp == [g \in Games |-> IF g = "b" THEN NoApp ELSE "x"]
MCSource == [g \in Games |-> IF g = "b" THEN 2 ELSE 1]
MCRank == [g \in Games |-> IF g = "a" THEN 1 ELSE 2]
MCCatalogs == {<<"a", "b">>, <<"b", "a">>}

\* The shelves: three games, two of one application.
MCAppOf == [g \in Titles |-> IF g = "c" THEN "y" ELSE "x"]
MCLayouts == {<<"a", "c">>, <<"c", "a">>, <<"b", "a">>}
MCFeeds == {[hits |-> <<"a", "c">>, friends |-> <<"b">>], [hits |-> <<"c", "b">>, friends |-> <<>>]}

\* The search: words that differ by a letter, by an end, by a swap, by their
\* script, by their keyboard; numbers and numerals; a stop word; an initial.
The == <<"t","e">>
Wit == <<"w","i","t">>
Witch == <<"w","i","t","c","h">>
Witcher == <<"w","i","t","c","h","e","r">>
Wicher == <<"w","i","c","h","e","r">>
Wticher == <<"w","t","i","c","h","e","r">>
Switch == <<"s","w","i","t","c","h">>
Three == <<"3">>
Iii == <<"i","i","i">>
Hunt == <<"h","u","n","t">>
Wild == <<"w","i","l","d">>
Spoken == <<"V","T","C","H","R">>
Mistyped == <<"W","I","T","C","H">>
Glyphs == <<"J","K">>
Glyph == <<"J">>
Initials == <<"w","3">>
Glued == <<"w","i","t","c","h","3">>
Number == <<"7","7","7">>
MCLibrary ==
    {<<The, Witcher, Three>>, <<Witch, Iii>>, <<Hunt, Wild>>, <<Wild, Hunt, The, Witcher>>, <<Switch>>,
     <<Witcher>>, <<Wit, Witch>>, <<Glyphs, Wild>>, <<Witch, Three, Hunt>>, <<Number>>,
     <<Witcher, Iii, Wild, Hunt>>}
Typed == {The, Wit, Witch, Witcher, Wicher, Wticher, Three, Iii, Hunt, Wild, Spoken, Mistyped, Glyph,
          Initials, Glued, Number}
MCQueries == {<<w>> : w \in Typed} \cup (Typed \X Typed) \cup MCLibrary
MCStopWords == {The}
MCNumerals == [w \in {Three, Iii} |-> IF w = Three THEN Iii ELSE Three]
MCKeyboard == [c \in {"W","I","T","C","H","V","R"} |->
                 CASE c = "W" -> "w" [] c = "I" -> "i" [] c = "T" -> "t" [] c = "C" -> "c"
                   [] c = "H" -> "h" [] OTHER -> "e"]
MCSound == [c \in {"t","e","w","i","c","h","r","s","3","u","n","l","d","V","T","C","H","R","W","I","J","K","7"} |->
              CASE c \in {"e","i","u","I","h","H"} -> Silent
                [] c \in {"w","V","W"} -> "v" [] c \in {"t","T"} -> "t"
                [] c \in {"c","s","C"} -> "k" [] c \in {"r","R"} -> "r" [] OTHER -> c]
MCAliases == [q \in {<<Spoken>>, <<Wit>>} |-> IF q = <<Wit>> THEN <<<<The, Witcher>>>>
                                              ELSE <<<<The, Witcher>>, <<Witcher>>>>]
MCAppId == [t \in MCLibrary |-> IF t = <<Hunt, Wild>> THEN Number ELSE <<>>]
MCBonus == [t \in MCLibrary |-> CASE t = <<Switch>> -> 2450 [] t = <<Witcher>> -> 0 [] OTHER -> 900]

----------------------------------------------------------------------------
browseVars == <<part, viewVars, ratingVars, shelfVars, searchVars>>
Init ==
    /\ SearchInit
    /\ \/ part = "view" /\ (\E c \in Catalogs : ViewInit(c)) /\ "y" \in onDisk /\ ShelfInit /\ ~hiding
       \/ part = "shelves" /\ ViewInit(<<>>) /\ ShelfInit
       \/ part = "search" /\ ViewInit(<<>>) /\ ShelfInit /\ onDisk = {} /\ ~hiding
Next ==
    /\ part' = part
    /\ \/ part = "view" /\ ViewNext /\ UNCHANGED <<shelfVars, searchVars>>
       \/ part = "shelves" /\ ShelfNext /\ UNCHANGED <<viewVars, searchVars>>
       \/ part = "search" /\ SearchNext /\ UNCHANGED <<viewVars, ratingVars, shelfVars>>
Spec == Init /\ [][Next]_browseVars
================================================================================
