CONSTANTS
    Buf = 2
    MaxTyped = 3
SPECIFICATION Spec
PROPERTIES ReportGetsThrough
