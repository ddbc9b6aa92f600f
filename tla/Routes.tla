------------------------------- MODULE Routes -------------------------------
(* What the interactions of a member come to: which button opens which form, *)
(* which ones change something, and which access key each has to show.  A     *)
(* name is the segment of the CustomID after the prefix ("contract:m_create"  *)
(* is "m_create"); the commands and panels of the other features are named    *)
(* by what they do.                                                          *)
EXTENDS Sequences

(* The forms of the console, and the button that opens each: of a contract's  *)
(* details and items (contracts/modals.go), ...                              *)
DetailForms == {<<"create", "m_create">>, <<"cedit", "m_cedit">>}
QuantityForms == {<<"iedit", "m_iedit">>}
AmendForms == {<<"crew", "m_crew">>, <<"ilink", "m_ilink">>}
ConfirmForms == {<<"cancel", "m_cancel">>, <<"idel", "m_idel">>}

(* ... of a member's part in an item (participant_modal.go), ...             *)
ParticipantForms == {<<"pedit", "m_pedit">>}

(* ... and of the templates (template_modals.go).                            *)
TemplateForms ==
  {<<"tsearch", "m_tsearch">>, <<"tnew", "m_tnew">>, <<"tedit", "m_tedit">>,
   <<"trew", "m_trew">>}
TemplateItemForms ==
  {<<"tiedit", "m_tiedit">>, <<"tdel", "m_tdel">>, <<"tuse", "m_tuse">>}

(* The item picker's quantity form is opened by a pick from the search results  *)
(* or from the browser, whose search form is that of a contract or a template. *)
PickerForms ==
  {<<"pick", "m_bqty">>, <<"brwi", "m_bqty">>, <<"brws", "m_cadd">>, <<"brws", "m_tadd">>}

(* The public panel's quantity, a new supply request, a limit in the settings. *)
PanelForms == {<<"panel", "qty">>}
RequestForms == {<<"new", "m_new">>}
LimitForms == {<<"slimit", "m_slimit">>}

OpensForm ==
  DetailForms \cup QuantityForms \cup AmendForms \cup ConfirmForms \cup ParticipantForms
  \cup TemplateForms \cup TemplateItemForms \cup PickerForms
  \cup PanelForms \cup RequestForms \cup LimitForms

Openers == {opens[1] : opens \in OpensForm}
Forms == {opens[2] : opens \in OpensForm}

(* Segments whose handler writes to the database; "link" is the pick select  *)
(* where no quantity is asked for (a legacy item linked to the game data).   *)
ContractWrites ==
  {"crepub", "m_create", "m_cedit", "m_cancel", "m_crew", "m_idel", "m_iedit",
   "m_ilink", "m_pedit"}
PayoutWrites == {"payrep", "paypaid", "reppaid"}
TemplateWrites == {"tidels", "m_tuse", "m_tnew", "m_tedit", "m_trew", "m_tiedit", "m_tdel"}
PickerWrites == {"lbrw", "lclr", "link", "m_bqty"}

(* Subcommands of /base own; each path has a key of its own.                 *)
Bases == {"register", "unregister", "add-extractor", "remove-extractor"}

Writes == ContractWrites \cup PayoutWrites \cup TemplateWrites \cup PickerWrites
          \cup {"qty", "set", "m_slimit", "m_new"} \cup Bases

(* Segments that only show something: the list of contracts, a contract, an   *)
(* item with its participants, the templates, one template, and the browsers   *)
(* of the game's items and places.                                           *)
ListViews == {"home", "golist", "list", "cfilter", "cback", "view", "iback"}
ContractViews == {"ipage", "repview"}
ItemViews == {"irow", "ppage"}
TemplateListViews == {"tmpl", "tlist", "tpick", "m_tsearch"}
TemplateViews == {"tview"}
BrowserViews == {"brw", "brwsub", "cadd", "tadd", "m_cadd", "m_tadd"}
LocationViews == {"cloc", "tloc"}

Views == ListViews \cup ContractViews \cup ItemViews \cup TemplateListViews
         \cup TemplateViews \cup BrowserViews \cup LocationViews

(* contracts/console_access.go: the buttons the router checks, and with the    *)
(* forms they open.                                                          *)
GatedButtons ==
  {"create", "crepub", "cedit", "cancel", "cadd", "crew", "cloc", "payrep", "paypaid",
   "idel", "iedit", "ilink", "pedit", "tuse", "tnew", "tedit", "trew", "tloc", "tadd",
   "tiedit", "tidels", "tdel", "repview", "reppaid"}

gatedSegments ==
  GatedButtons
  \cup {"m_create", "m_cedit", "m_cancel", "m_cadd", "m_crew", "m_idel", "m_iedit",
        "m_ilink", "m_pedit", "m_tuse", "m_tnew", "m_tedit", "m_trew", "m_tadd",
        "m_tiedit", "m_tdel"}

(* Segments that carry their destination and check it themselves.           *)
SelfGated == {"pick", "link", "m_bqty", "lbrw", "lclr"}

(* What a member may do only with an access key, whatever the routing checks:   *)
(* every change but those of their own supply requests.                      *)
Protected == Writes \ {"m_new"}

(* The access keys of which one must be granted to a role of the member; the  *)
(* empty set asks for none (views, the member's own supply requests, and the  *)
(* browser's buttons).                                                       *)
KeysOf(seg) ==
  IF seg \in gatedSegments \cup SelfGated THEN {"contracts.manage"}
  ELSE IF seg \in {"panel", "qty"} THEN {"contracts.use", "contracts.manage"}
  ELSE IF seg = "set" THEN {"permissions"}
  ELSE IF seg \in {"slimit", "m_slimit"} THEN {"settings"}
  ELSE IF seg \in Bases THEN {"base own " \o seg}
  ELSE {}
=============================================================================
