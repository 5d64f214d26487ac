------------------------------ MODULE Browser ------------------------------
(***************************************************************************)
(* A window of the browser, apps/app_browser.c: the address bar, the       *)
(* history, loading a page, laying it out token by token, scrolling and    *)
(* following links.  Of a character it matters whether it is a space and   *)
(* which anchor of the page it stands in; of an address whether it names a *)
(* host.  A page is any sequence of tokens, an error page among them.      *)
(***************************************************************************)
EXTENDS Integers, Sequences

CONSTANTS
  Urls, Hostless, Home,                   \* addresses, those without a host, HOME_ADDR
  Long,                                   \* addresses of 244 characters and more
  LineW, MaxLines, MaxLinks, MaxText,     \* 54, 256, 128 and 199 in the code
  HistMax,                                \* HIST_MAX
  Visible,                                \* lines the window shows
  MaxTokens                               \* bound on the tokens of a page

VARIABLES
  addr, focused,          \* the address bar
  site,                   \* the addresses whose host and whose path are set
  page,                   \* what html_render has laid out, and its registers
  loading,                \* html_render is in its loop
  tokens,                 \* how many it has taken
  lineCount, scroll, dragging,
  histPos, histLen, history,
  status                  \* "ok", "error" or "invalid"

bar   == <<addr, focused>>
view  == <<lineCount, scroll, dragging>>
past  == <<histPos, histLen, history>>
vars  == <<bar, site, page, loading, tokens, view, past, status>>

NewPage ==
  [li |-> 1, text |-> [l \in 1 .. MaxLines |-> <<>>], full |-> FALSE, lastSp |-> TRUE,
   script |-> FALSE, style |-> FALSE, links |-> <<>>,
   anchor |-> FALSE, anchors |-> 0, worthy |-> FALSE, line |-> 0, col |-> 0, len |-> 0]
Column(p) == IF p.li <= MaxLines THEN Len(p.text[p.li]) ELSE 0
NewLine(p) == [p EXCEPT !.li = @ + 1]

Least(a, b) == IF a < b THEN a ELSE b
(* EMIT: one more cell, on the next line where this one is full; a page    *)
(* that has no line left ends there.                                       *)
Emit(p, kind) ==
  LET q == IF Column(p) = LineW THEN NewLine(p) ELSE p
  IN IF q.li > MaxLines THEN [q EXCEPT !.full = TRUE]
     ELSE [q EXCEPT !.text[q.li] = Append(@, [kind |-> kind, anchor |-> IF q.anchor THEN q.anchors ELSE 0])]
Glyph(p) ==
  LET q == Emit(p, "glyph")
  IN IF q.full THEN q ELSE [q EXCEPT !.len = IF q.anchor /\ @ < MaxText THEN @ + 1 ELSE @, !.lastSp = FALSE]
Space(p) ==
  IF p.lastSp THEN p ELSE LET q == Emit(p, "space") IN IF q.full THEN q ELSE [q EXCEPT !.lastSp = TRUE]

Hidden(p) == p.script \/ p.style
(* The tokens: text, entities, and the tags the code knows.                *)
Char(p)       == IF Hidden(p) THEN p ELSE Glyph(p)
Blank(p)      == IF Hidden(p) THEN p ELSE Space(p)
Nbsp(p)       == IF Hidden(p) \/ Column(p) = LineW THEN p ELSE Space(p)
Block(p)      == [(IF Column(p) > 0 THEN NewLine(p) ELSE p) EXCEPT !.lastSp = TRUE]
LineBreak(p)  == [NewLine(p) EXCEPT !.lastSp = TRUE]
Script(p, on) == [p EXCEPT !.script = on]
Style(p, on)  == [p EXCEPT !.style = on]
(* Mutant: an anchor that opens goes on counting the text of the last one. *)
OpenCounting(p, worthy) ==
  [p EXCEPT !.anchor = TRUE, !.anchors = @ + 1, !.worthy = worthy, !.line = p.li, !.col = Column(p)]
OpenAnchor(p, worthy) ==
  [p EXCEPT !.anchor = TRUE, !.anchors = @ + 1, !.worthy = worthy, !.line = p.li, !.col = Column(p), !.len = 0]
(* Only an address with a host, or one from the root or the current folder *)
(* (http, / or .) makes a link.                                            *)
CloseAnchor(p) ==
  IF ~p.anchor \/ Len(p.links) = MaxLinks THEN p
  ELSE [p EXCEPT !.anchor = FALSE, !.worthy = FALSE,
                 !.links = IF p.worthy /\ p.len > 0
                           THEN Append(@, [line |-> p.line, col |-> p.col, len |-> p.len, anchor |-> p.anchors]) ELSE @]

After(p) ==
  {Char(p), Blank(p), Nbsp(p), Block(p), LineBreak(p), CloseAnchor(p)}
    \cup {OpenAnchor(p, w) : w \in BOOLEAN} \cup {Script(p, on) : on \in BOOLEAN} \cup {Style(p, on) : on \in BOOLEAN}
Token ==
  /\ loading /\ ~page.full /\ tokens < MaxTokens
  /\ page' \in After(page) /\ tokens' = tokens + 1
  /\ UNCHANGED <<bar, site, loading, view, past, status>>
(* The end of html_render and of brow_load. *)
Rendered ==
  /\ loading
  /\ loading' = FALSE
  /\ LET li == page.li - 1 + IF Column(page) > 0 THEN 1 ELSE 0
     IN lineCount' = Least(IF li = 0 THEN 1 ELSE li, MaxLines)
  /\ scroll' = 0
  /\ UNCHANGED <<bar, site, page, tokens, dragging, past, status>>

----------------------------------------------------------------------------
Idle == ~loading
(* brow_load up to html_render: the request may fail, and gives a page     *)
(* either way.                                                             *)
Load ==
  /\ page' = NewPage /\ loading' = TRUE /\ tokens' = 0
  /\ status' \in {"ok", "error"}
(* history[-1] lies over the window's last links and the fields behind     *)
(* them.  Of these a load sets anew all but those of a drag of the         *)
(* scrollbar, which begin 244 characters in: they get text.                *)
HistPush(url) ==
  LET len == histPos + 1
  IN /\ histLen' = Least(len, HistMax) /\ histPos' = histLen' - 1
     /\ history' = IF len > HistMax THEN [i \in DOMAIN history |-> IF i = HistMax - 1 THEN url ELSE history[i + 1]]
                   ELSE IF len > 0 THEN [history EXCEPT ![len - 1] = url] ELSE history
     /\ IF len = 0 /\ url \in Long THEN dragging' \in BOOLEAN ELSE UNCHANGED dragging
(* parse_url clears the host before it looks for one. *)
NoHost == "none"
Navigate(url) ==
  /\ UNCHANGED <<lineCount, scroll>>
  /\ IF url \in Hostless THEN /\ site' = [site EXCEPT !.host = NoHost] /\ status' = "invalid"
                              /\ UNCHANGED <<addr, page, loading, tokens>>
     ELSE site' = [host |-> url, path |-> url] /\ addr' = url /\ Load
Follow(url) ==
  /\ Navigate(url)
  /\ IF url \in Hostless THEN UNCHANGED <<dragging, past>> ELSE HistPush(url)

Open ==     \* on_open
  /\ Idle
  /\ addr' = Home /\ site' = [host |-> Home, path |-> Home] /\ focused' = FALSE
  /\ scroll' = 0 /\ dragging' = FALSE /\ lineCount' = 0
  /\ histPos' = -1 /\ histLen' = 0 /\ UNCHANGED history
  /\ Load
(* The keys. *)
Tab == Idle /\ focused' = ~focused /\ UNCHANGED <<addr, site, page, loading, tokens, view, past, status>>
Type(url) == Idle /\ focused /\ addr' = url /\ UNCHANGED <<focused, site, page, loading, tokens, view, past, status>>
EnterKey == Idle /\ focused /\ focused' = FALSE /\ Follow(addr)
Reload == Idle /\ Navigate(addr) /\ UNCHANGED <<focused, dragging, past>>
GoHome == Idle /\ Follow(Home) /\ UNCHANGED focused
(* hist_push sets the length from the position, and -1 stays -1: neither   *)
(* condition below is ever met.                                            *)
Visit(pos) == Navigate(history[pos]) /\ histPos' = pos /\ UNCHANGED dragging
Step(pos, may) ==
  /\ Idle /\ UNCHANGED <<focused, histLen, history>>
  /\ IF may THEN Visit(pos) ELSE UNCHANGED <<addr, site, page, loading, tokens, view, histPos, status>>
Back    == Step(histPos - 1, histPos > 0)
Forward == Step(histPos + 1, histPos < histLen - 1)
(* Scrolling by keys and by the bar's arrows and trough: below by any      *)
(* amount, as far as the next drawing.                                     *)
ScrollTo(s) ==
  /\ Idle /\ scroll' = s /\ focused' = FALSE
  /\ UNCHANGED <<addr, site, page, loading, tokens, lineCount, dragging, past, status>>
ScrollKey == ~focused /\ \E s \in {0, scroll + 1, lineCount} \cup 0 .. scroll : ScrollTo(s)
MaxScroll == IF lineCount > Visible THEN lineCount - Visible ELSE 0
Within(s) == Least(s, MaxScroll)
Scrollbar == \E s \in 0 .. Within(scroll) \cup {Within(scroll) + 1, Within(scroll) + Visible} : ScrollTo(s)
Grab ==
  /\ Idle /\ scroll' = Within(scroll) /\ dragging' = TRUE /\ focused' = FALSE
  /\ UNCHANGED <<addr, site, page, loading, tokens, lineCount, past, status>>
Drag ==
  /\ Idle /\ dragging
  /\ IF MaxScroll = 0 THEN dragging' = FALSE /\ scroll' = 0 ELSE scroll' \in 0 .. MaxScroll /\ UNCHANGED dragging
  /\ UNCHANGED <<bar, site, page, loading, tokens, lineCount, past, status>>
Release == Idle /\ dragging /\ dragging' = FALSE /\ UNCHANGED <<bar, site, page, loading, tokens, lineCount, scroll, past, status>>
Draw == Idle /\ scroll' = Within(scroll) /\ UNCHANGED <<bar, site, page, loading, tokens, lineCount, dragging, past, status>>
(* A click in the page: on a link it goes where resolve_href says. *)
ClickPage(row, col) ==
  /\ Idle /\ focused' = FALSE
  /\ IF \E k \in DOMAIN page.links : LET x == page.links[k] IN x.line = row + scroll /\ col > x.col /\ col <= x.col + x.len
     THEN \E url \in Urls : Follow(url)
     ELSE UNCHANGED <<addr, site, page, loading, tokens, view, past, status>>

Init ==
  /\ addr = Home /\ site = [host |-> Home, path |-> Home] /\ focused = FALSE
  /\ page = NewPage /\ loading = TRUE /\ tokens = 0 /\ status \in {"ok", "error"}
  /\ lineCount = 0 /\ scroll = 0 /\ dragging = FALSE
  /\ histPos = -1 /\ histLen = 0 /\ history = [i \in 0 .. HistMax - 1 |-> Home]
Next ==
  \/ Token \/ Rendered \/ Open
  \/ Tab \/ (\E u \in Urls : Type(u)) \/ EnterKey \/ Reload \/ GoHome \/ Back \/ Forward
  \/ ScrollKey \/ Scrollbar \/ Grab \/ Drag \/ Release \/ Draw
  \/ \E row \in 1 .. Visible, col \in 1 .. LineW : ClickPage(row, col)
Spec == Init /\ [][Next]_vars
----------------------------------------------------------------------------
TypeOK ==
  /\ addr \in Urls /\ site \in [host : (Urls \ Hostless) \cup {NoHost}, path : Urls \ Hostless] /\ scroll \in Nat /\ lineCount \in 0 .. MaxLines
  /\ \A l \in 1 .. MaxLines : Len(page.text[l]) <= LineW
  /\ Len(page.links) <= MaxLinks /\ histPos \in -1 .. HistMax - 1

(* LinksInAnchors: a click that follows a link hit text of that link's own *)
(* anchor or no text at all, whatever tags, line ends and entities stand   *)
(* in it; and of an anchor of one word on one line no cell is dead.        *)
(* html_render and on_click.                                               *)
Cells(p, a) == {c \in (1 .. MaxLines) \X (1 .. LineW) : c[2] <= Len(p.text[c[1]]) /\ p.text[c[1]][c[2]].anchor = a}
LinksInAnchors ==
  \A k \in DOMAIN page.links :
    LET x == page.links[k]
        covered == {c \in (1 .. MaxLines) \X (1 .. LineW) : c[1] = x.line /\ c[2] > x.col /\ c[2] <= x.col + x.len}
        mine == Cells(page, x.anchor)
    IN /\ \A c \in covered : c[2] <= Len(page.text[c[1]]) => c \in mine
       /\ (\A c \in mine : c[1] = x.line /\ page.text[c[1]][c[2]].kind = "glyph") => mine = covered
=============================================================================
