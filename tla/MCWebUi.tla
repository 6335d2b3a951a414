------------------------------- MODULE MCWebUi ------------------------------
(* Three home pages at a time, a style sheet and a page there is not.      *)
EXTENDS WebUi

CONSTANTS p1, p2, p3, css, lost, list, undefined

MCPage   == {p1, p2, p3, css, lost}
MCPath   == [r \in MCPage |-> IF r = css THEN "/stylesheets/styles.css"
                              ELSE IF r = lost THEN "/other" ELSE "/"]
MCConfig == [id |-> 1]
=============================================================================
